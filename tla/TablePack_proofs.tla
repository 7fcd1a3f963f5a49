---------------------------- MODULE TablePack_proofs ---------------------------
(***************************************************************************)
(* Packing and unpacking (dbTable.cpp, dbTable.h and dbStructPack.h), for   *)
(* every class, every object and every room: the packer stays in its room,  *)
(* an object there is room for comes back as it was, and of one there is no *)
(* room for each field comes back as it was or with its end lost.           *)
(*                                                                         *)
(* The argument goes from the members of an item to the items of a field    *)
(* and the fields of an object, always the same way.  What the packer wrote *)
(* is some bytes, and whatever bytes follow them, when they are no more     *)
(* than the packer had room for, the unpacker reads just those bytes and    *)
(* stops where the packer stopped.                                          *)
(***************************************************************************)
EXTENDS TablePack, SequenceTheorems, WellFoundedInduction, TLAPS

-----------------------------------------------------------------------------
(* Recursive definitions that go upward from 0.                             *)

Less == {p \in Nat \X Nat : p[1] < p[2]}

(* What holds of 0, and of i when it holds of i - 1, holds of all up to n.  *)
LEMMA Upward ==
  ASSUME NEW G, NEW n \in Nat, 0 \in G, \A i \in 1 .. n : i - 1 \in G => i \in G
  PROVE  \A i \in 0 .. n : i \in G
<1> DEFINE bad == {k \in 0 .. n : k \notin G}
<1> SUFFICES ASSUME bad # {} PROVE FALSE
  OBVIOUS
<1>1. IsWellFoundedOn(Less, Nat)
  BY NatLessThanWellFounded DEF OpToRel, Less
<1>2. bad \in SUBSET Nat
  OBVIOUS
<1>3. PICK m \in bad : \A k \in bad : ~(<<k, m>> \in Less)
  BY <1>1, <1>2, WFMin
<1>4. m \in 1 .. n /\ m - 1 \in 0 .. n
  BY m \in 0 .. n, m # 0
<1>5. <<m - 1, m>> \in Less
  BY <1>4 DEF Less
<1>6. m - 1 \in G
  BY <1>3, <1>4, <1>5
<1>7. QED
  BY <1>4, <1>6

(* x is step taken n times from base, within S.                             *)
Iterates(x, S, base, step, n) ==
  /\ x \in [0 .. n -> S]
  /\ x[0] = base
  /\ \A i \in 1 .. n : x[i - 1] \in S /\ x[i] = step[i][x[i - 1]]

(* Steps that stay within a set can be taken any number of times.           *)
LEMMA IterationExists ==
  ASSUME NEW S, NEW base \in S, NEW step, NEW n \in Nat,
         \A i \in 1 .. n : \A s \in S : step[i][s] \in S
  PROVE  \E x : Iterates(x, S, base, step, n)
<1> DEFINE G == {k \in 0 .. n : \E x : Iterates(x, S, base, step, k)}
<1>1. 0 \in G
  <2>1. Iterates([k \in 0 .. 0 |-> base], S, base, step, 0)
    BY DEF Iterates
  <2>2. QED
    BY <2>1
<1>2. ASSUME NEW m \in 1 .. n, m - 1 \in G PROVE m \in G
  <2>1. PICK x : Iterates(x, S, base, step, m - 1)
    BY <1>2
  <2>2. m \in Nat /\ m - 1 \in 0 .. n /\ m - 1 \in 0 .. m - 1
    OBVIOUS
  <2> DEFINE y == [k \in 0 .. m |-> IF k = m THEN step[m][x[m - 1]] ELSE x[k]]
  <2>3. x[m - 1] \in S /\ step[m][x[m - 1]] \in S
    BY <2>1, <2>2 DEF Iterates
  <2>4. y \in [0 .. m -> S] /\ y[0] = base
    BY <2>1, <2>2, <2>3 DEF Iterates
  <2>5. \A i \in 0 .. m - 1 : y[i] = x[i]
    BY <2>2
  <2>6. y[m] = step[m][x[m - 1]]
    BY <2>2
  <2> HIDE DEF y
  <2>7. ASSUME NEW i \in 1 .. m
        PROVE  y[i - 1] \in S /\ y[i] = step[i][y[i - 1]]
    <3>1. CASE i = m
      BY <2>2, <2>3, <2>5, <2>6, <3>1
    <3>2. CASE i # m
      BY <2>1, <2>2, <2>5, <3>2, i \in 1 .. m - 1, i - 1 \in 0 .. m - 1,
         i \in 0 .. m - 1 DEF Iterates
    <3>3. QED
      BY <3>1, <3>2
  <2>8. Iterates(y, S, base, step, m)
    BY <2>4, <2>7 DEF Iterates
  <2>9. QED
    BY <2>8
<1> HIDE DEF G
<1>3. n \in G
  BY <1>1, <1>2, Upward
<1>4. QED
  BY <1>3 DEF G

-----------------------------------------------------------------------------
(* The bytes of a number.                                                   *)

(* Shifted is what its recursive definition says.                           *)
LEMMA ShiftedSteps ==
  ASSUME NEW n \in Nat, NEW w \in Nat
  PROVE  /\ Shifted(n, w) \in [0 .. w -> Nat]
         /\ Shifted(n, w)[0] = n
         /\ \A i \in 1 .. w :
              Shifted(n, w)[i] = Shifted(n, w)[i - 1] \div 256
<1> DEFINE S    == Nat
           base == n
           step == [i \in 1 .. w |-> [s \in S |-> s \div 256]]
           f    == Shifted(n, w)
           G    == {i \in 0 .. w : f[i] \in S}
<1>1. w \in Nat /\ base \in S
  OBVIOUS
<1>2. ASSUME NEW i \in 1 .. w, NEW s \in S
      PROVE  s \div 256 \in S
  OBVIOUS
<1> HIDE DEF S, base
<1>3. \A i \in 1 .. w : \A s \in S :
        /\ step[i][s] = s \div 256
        /\ step[i][s] \in S
  BY <1>2
<1> HIDE DEF step
<1>4. PICK g : Iterates(g, S, base, step, w)
  BY <1>1, <1>3, IterationExists
<1>5. g = [i \in 0 .. w |->
             IF i = 0 THEN base ELSE g[i - 1] \div 256]
  <2>1. g = [i \in 0 .. w |-> g[i]]
    BY <1>4 DEF Iterates
  <2>2. g[0] = base
    BY <1>4 DEF Iterates
  <2>3. ASSUME NEW i \in 1 .. w
        PROVE  g[i] = g[i - 1] \div 256
    <3>1. g[i - 1] \in S /\ g[i] = step[i][g[i - 1]]
      BY <1>4 DEF Iterates
    <3>2. QED
      BY <1>3, <3>1
  <2>4. ASSUME NEW i \in 0 .. w
        PROVE  g[i] = IF i = 0 THEN base ELSE g[i - 1] \div 256
    <3>1. i # 0 => i \in 1 .. w
      BY <1>1
    <3>2. QED
      BY <2>2, <2>3, <3>1, Zenon
  <2>5. QED
    BY <2>1, <2>4, Zenon
<1>6. f = [i \in 0 .. w |->
             IF i = 0 THEN base ELSE f[i - 1] \div 256]
  BY <1>5, ZenonT(60) DEF Shifted, base
<1> HIDE DEF f
<1>7. /\ f[0] = base
      /\ \A i \in 1 .. w : f[i] = f[i - 1] \div 256
  BY <1>1, <1>6
<1>8. 0 \in G /\ \A i \in 1 .. w : i - 1 \in G => i \in G
  BY <1>1, <1>2, <1>7
<1> HIDE DEF G
<1>9. \A i \in 0 .. w : i \in G
  BY <1>1, <1>8, Upward
<1>10. f \in [0 .. w -> S]
  BY <1>6, <1>9 DEF G
<1>11. QED
  BY <1>7, <1>10 DEF f, S, base

(* LastBytes is what its recursive definition says.                         *)
LEMMA LastBytesSteps ==
  ASSUME NEW b \in Seq(Nat)
  PROVE  /\ LastBytes(b) \in [0 .. Len(b) -> Nat]
         /\ LastBytes(b)[0] = 0
         /\ \A k \in 1 .. Len(b) :
              LastBytes(b)[k] = b[Len(b) + 1 - k] + 256 * LastBytes(b)[k - 1]
<1> DEFINE n    == Len(b)
           S    == Nat
           base == 0
           step == [k \in 1 .. n |-> [s \in S |-> b[Len(b) + 1 - k] + 256 * s]]
           f    == LastBytes(b)
           G    == {k \in 0 .. n : f[k] \in S}
<1>1. n \in Nat /\ base \in S
  BY LenProperties
<1>2. ASSUME NEW k \in 1 .. n, NEW s \in S
      PROVE  b[Len(b) + 1 - k] + 256 * s \in S
  BY b[Len(b) + 1 - k] \in Nat
<1> HIDE DEF n, S, base
<1>3. \A k \in 1 .. n : \A s \in S :
        /\ step[k][s] = b[Len(b) + 1 - k] + 256 * s
        /\ step[k][s] \in S
  BY <1>2
<1> HIDE DEF step
<1>4. PICK g : Iterates(g, S, base, step, n)
  BY <1>1, <1>3, IterationExists
<1>5. g = [k \in 0 .. n |->
             IF k = 0 THEN base ELSE b[Len(b) + 1 - k] + 256 * g[k - 1]]
  <2>1. g = [k \in 0 .. n |-> g[k]]
    BY <1>4 DEF Iterates
  <2>2. g[0] = base
    BY <1>4 DEF Iterates
  <2>3. ASSUME NEW k \in 1 .. n
        PROVE  g[k] = b[Len(b) + 1 - k] + 256 * g[k - 1]
    <3>1. g[k - 1] \in S /\ g[k] = step[k][g[k - 1]]
      BY <1>4 DEF Iterates
    <3>2. QED
      BY <1>3, <3>1
  <2>4. ASSUME NEW k \in 0 .. n
        PROVE  g[k] = IF k = 0 THEN base ELSE b[Len(b) + 1 - k] + 256 * g[k - 1]
    <3>1. k # 0 => k \in 1 .. n
      BY <1>1
    <3>2. QED
      BY <2>2, <2>3, <3>1, Zenon
  <2>5. QED
    BY <2>1, <2>4, Zenon
<1>6. f = [k \in 0 .. n |->
             IF k = 0 THEN base ELSE b[Len(b) + 1 - k] + 256 * f[k - 1]]
  BY <1>5, ZenonT(60) DEF LastBytes, n, base
<1> HIDE DEF f
<1>7. /\ f[0] = base
      /\ \A k \in 1 .. n : f[k] = b[Len(b) + 1 - k] + 256 * f[k - 1]
  BY <1>1, <1>6
<1>8. 0 \in G /\ \A k \in 1 .. n : k - 1 \in G => k \in G
  BY <1>1, <1>2, <1>7
<1> HIDE DEF G
<1>9. \A k \in 0 .. n : k \in G
  BY <1>1, <1>8, Upward
<1>10. f \in [0 .. n -> S]
  BY <1>6, <1>9 DEF G
<1>11. QED
  BY <1>7, <1>10 DEF f, n, S, base

(* Sequences of bytes are sequences of numbers.                             *)
LEMMA BytesAreNumbers ==
  \A b \in Seq(Byte) : b \in Seq(Nat)
<1>1. Byte \subseteq Nat
  BY DEF Byte
<1>2. QED
  BY <1>1, SeqMonotonic

(* A number is as many bytes as it is given.                                *)
LEMMA BytesTyped ==
  ASSUME NEW n \in Nat, NEW w \in Nat
  PROVE  ToBytes(n, w) \in Seq(Byte) /\ Len(ToBytes(n, w)) = w
<1>1. ASSUME NEW i \in 1 .. w PROVE Shifted(n, w)[i - 1] % 256 \in Byte
  <2>1. i - 1 \in 0 .. w
    OBVIOUS
  <2>2. Shifted(n, w)[i - 1] \in Nat
    BY <2>1, ShiftedSteps
  <2>3. QED
    BY <2>2 DEF Byte
<1>2. ToBytes(n, w) \in [1 .. w -> Byte]
  BY <1>1 DEF ToBytes
<1>3. QED
  BY <1>2, IsASeq, LenProperties

(* Any bytes are a number.                                                  *)
LEMMA NumberTyped ==
  ASSUME NEW b \in Seq(Nat)
  PROVE  FromBytes(b) \in Nat
<1>1. Len(b) \in 0 .. Len(b)
  BY LenProperties
<1>2. QED
  BY <1>1, LastBytesSteps DEF FromBytes

(* A quotient and a remainder make the number.                              *)
LEMMA Digit ==
  ASSUME NEW a \in Nat, NEW q, q = a \div 256
  PROVE  (a % 256) + 256 * q = a
OBVIOUS

(* A number that fits its bytes is read back from them.                     *)
LEMMA NumberBack ==
  ASSUME NEW n \in Nat, NEW w \in Nat, HasWidth(n, w)
  PROVE  FromBytes(ToBytes(n, w)) = n
<1> DEFINE b == ToBytes(n, w)
           f == LastBytes(b)
           s == Shifted(n, w)
           G == {k \in 0 .. w : f[k] = s[w - k]}
<1>1. b \in Seq(Nat) /\ Len(b) = w
  BY BytesTyped, BytesAreNumbers
<1>2. /\ s \in [0 .. w -> Nat] /\ s[0] = n
      /\ \A i \in 1 .. w : s[i] = s[i - 1] \div 256
  <2>1. s \in [0 .. w -> Nat]
    BY ShiftedSteps
  <2>2. s[0] = n
    BY ShiftedSteps
  <2>3. \A i \in 1 .. w : s[i] = s[i - 1] \div 256
    BY ShiftedSteps
  <2>4. QED
    BY <2>1, <2>2, <2>3
<1> HIDE DEF b
<1>3. /\ f[0] = 0
      /\ \A k \in 1 .. Len(b) : f[k] = b[Len(b) + 1 - k] + 256 * f[k - 1]
  BY <1>1, LastBytesSteps, ZenonT(60)
<1>4. \A i \in 1 .. w : b[i] = s[i - 1] % 256
  BY DEF ToBytes, b
<1>5. s[w] = 0
  BY DEF HasWidth
<1> HIDE DEF f, s
<1>6. 0 \in G
  BY <1>3, <1>5
<1>7. ASSUME NEW k \in 1 .. w, k - 1 \in G PROVE k \in G
  <2>1. /\ w - k \in 0 .. w /\ w + 1 - k \in 1 .. w
        /\ w - (k - 1) = w + 1 - k /\ (w + 1 - k) - 1 = w - k
    OBVIOUS
  <2>2. f[k - 1] = s[w + 1 - k]
    BY <1>7, <2>1
  <2>3. s[w + 1 - k] = s[w - k] \div 256 /\ b[w + 1 - k] = s[w - k] % 256
    BY <1>2, <1>4, <2>1
  <2>4. f[k] = (s[w - k] % 256) + 256 * f[k - 1]
    BY <1>1, <1>3, <2>3
  <2>5. s[w - k] \in Nat
    BY <1>2, <2>1
  <2>6. f[k] = s[w - k]
    BY <2>2, <2>3, <2>4, <2>5, Digit
  <2>7. QED
    BY <2>6
<1> HIDE DEF G
<1>8. w \in G
  BY <1>6, <1>7, Upward
<1>9. f[w] = n
  BY <1>2, <1>8 DEF G
<1>10. QED
  BY <1>1, <1>9 DEF FromBytes, f, b

-----------------------------------------------------------------------------
(* Bytes read from the front of others.                                     *)

Taken(V) == [cur : Seq(Byte), v : V, ok : BOOLEAN]

(* There are no bytes but those that are left to read.                      *)
LEMMA TakeBytesTyped ==
  ASSUME NEW cur \in Seq(Byte), NEW n \in Nat
  PROVE  TakeBytes(cur, n) \in Taken(Seq(Byte))
<1>1. CASE n <= Len(cur)
  <2>1. SubSeq(cur, n + 1, Len(cur)) \in Seq(Byte) /\ SubSeq(cur, 1, n) \in Seq(Byte)
    BY <1>1, LenProperties, SubSeqProperties
  <2>2. QED
    BY <1>1, <2>1 DEF TakeBytes, Taken
<1>2. CASE ~(n <= Len(cur))
  BY <1>2 DEF TakeBytes, Taken
<1>3. QED
  BY <1>1, <1>2

(* What was put in front is read, and the rest is left.                     *)
LEMMA TakeBytesOf ==
  ASSUME NEW a \in Seq(Byte), NEW R \in Seq(Byte)
  PROVE  TakeBytes(a \o R, Len(a)) = [cur |-> R, v |-> a, ok |-> TRUE]
<1>1. /\ a \o R \in Seq(Byte) /\ Len(a \o R) = Len(a) + Len(R)
      /\ Len(a) \in Nat /\ Len(R) \in Nat
  BY ConcatProperties, LenProperties
<1>2. SubSeq(a \o R, 1, Len(a)) = a
  <2>1. SubSeq(a \o R, 1, Len(a)) = SubSeq(a, 1, Len(a))
    BY <1>1, SubSeqOfConcat1
  <2>2. QED
    BY <2>1, SubSeqFull
<1>3. SubSeq(a \o R, Len(a) + 1, Len(a \o R)) = R
  <2>1. SubSeq(a \o R, Len(a) + 1, Len(a \o R)) = SubSeq(R, 1, Len(R))
    <3>1. CASE R = <<>>
      BY <1>1, <3>1, SubSeqEmpty
    <3>2. CASE R # <<>>
      <4>1. Len(R) > 0
        BY <1>1, <3>2, EmptySeq
      <4>2. /\ Len(a) + 1 \in Len(a) + 1 .. Len(a) + Len(R)
            /\ Len(a) + Len(R) \in Len(a) + 1 .. Len(a) + Len(R)
            /\ (Len(a) + 1) - Len(a) = 1 /\ (Len(a) + Len(R)) - Len(a) = Len(R)
        BY <1>1, <4>1
      <4>3. QED
        BY <1>1, <4>2, SubSeqOfConcat2
    <3>3. QED
      BY <3>1, <3>2
  <2>2. QED
    BY <2>1, SubSeqFull
<1> DEFINE c == a \o R
<1>4. Len(a) <= Len(c)
  BY <1>1
<1> HIDE DEF c
<1>5. TakeBytes(c, Len(a)) = [cur |-> R, v |-> a, ok |-> TRUE]
  BY <1>2, <1>3, <1>4 DEF TakeBytes, c
<1>6. QED
  BY <1>5 DEF c

(* Too few bytes are left where they are.                                   *)
LEMMA TakeBytesShort ==
  ASSUME NEW cur \in Seq(Byte), NEW n \in Nat, Len(cur) < n
  PROVE  TakeBytes(cur, n) = [cur |-> cur, v |-> <<>>, ok |-> FALSE]
<1>1. ~(n <= Len(cur))
  BY LenProperties
<1>2. QED
  BY <1>1 DEF TakeBytes

(* The same of numbers.                                                     *)
LEMMA TakeNumTyped ==
  ASSUME NEW cur \in Seq(Byte), NEW w \in Nat
  PROVE  TakeNum(cur, w) \in Taken(Nat)
<1> DEFINE got == TakeBytes(cur, w)
<1>1. got \in Taken(Seq(Byte))
  BY TakeBytesTyped
<1> HIDE DEF got
<1>2. FromBytes(got.v) \in Nat
  BY <1>1, BytesAreNumbers, NumberTyped DEF Taken
<1>3. [cur |-> got.cur, v |-> FromBytes(got.v), ok |-> got.ok] \in Taken(Nat)
  BY <1>1, <1>2 DEF Taken
<1>4. QED
  BY <1>3 DEF TakeNum, got

(* The bytes of a number are read back as the number.                       *)
LEMMA TakeNumOf ==
  ASSUME NEW n \in Nat, NEW w \in Nat, HasWidth(n, w), NEW R \in Seq(Byte)
  PROVE  TakeNum(ToBytes(n, w) \o R, w) = [cur |-> R, v |-> n, ok |-> TRUE]
<1> DEFINE b == ToBytes(n, w)
<1>1. b \in Seq(Byte) /\ Len(b) = w
  BY BytesTyped
<1>2. FromBytes(b) = n
  BY NumberBack
<1> HIDE DEF b
<1>3. TakeBytes(b \o R, w) = [cur |-> R, v |-> b, ok |-> TRUE]
  BY <1>1, TakeBytesOf
<1>4. TakeNum(b \o R, w) = [cur |-> R, v |-> n, ok |-> TRUE]
  BY <1>2, <1>3 DEF TakeNum
<1>5. QED
  BY <1>4 DEF b

(* With too few bytes left no number is read, and none of them is consumed. *)
LEMMA TakeNumShort ==
  ASSUME NEW cur \in Seq(Byte), NEW w \in Nat, Len(cur) < w
  PROVE  TakeNum(cur, w).cur = cur /\ TakeNum(cur, w).ok = FALSE
BY TakeBytesShort DEF TakeNum

-----------------------------------------------------------------------------
(* Scalars.                                                                 *)

PackState == [cur : Seq(Byte), len : Nat, ok : BOOLEAN]

(* st2 is st after bytes were written.                                      *)
Wrote(st, st2, bytes) ==
  /\ bytes \in Seq(Byte)
  /\ st2 \in PackState
  /\ st2.cur = st.cur \o bytes
  /\ st2.len + Len(bytes) = st.len

(* A piece that there was no room for.                                      *)
LEMMA WroteNothing ==
  ASSUME NEW st \in PackState, NEW st2 \in PackState,
         st2.cur = st.cur, st2.len = st.len
  PROVE  Wrote(st, st2, <<>>)
<1>1. st.cur \o <<>> = st.cur /\ <<>> \in Seq(Byte) /\ Len(<<>>) = 0
  BY ConcatEmptySeq, EmptySeq DEF PackState
<1>2. QED
  BY <1>1 DEF Wrote, PackState

(* Bytes, more bytes and what follows.                                      *)
LEMMA Associative ==
  ASSUME NEW a \in Seq(Byte), NEW b \in Seq(Byte), NEW c \in Seq(Byte)
  PROVE  (a \o b) \o c = a \o (b \o c)
BY ConcatAssociative

(* Two pieces, one after the other.                                         *)
LEMMA WroteBoth ==
  ASSUME NEW st \in PackState, NEW st2, NEW st3, NEW a, NEW b,
         Wrote(st, st2, a), Wrote(st2, st3, b)
  PROVE  Wrote(st, st3, a \o b)
<1>0. a \in Seq(Byte) /\ b \in Seq(Byte)
  BY DEF Wrote
<1>1. /\ a \o b \in Seq(Byte) /\ Len(a \o b) = Len(a) + Len(b)
      /\ Len(a) \in Nat /\ Len(b) \in Nat
  BY <1>0, ConcatProperties, LenProperties
<1>2. (st.cur \o a) \o b = st.cur \o (a \o b)
  <2>1. st.cur \in Seq(Byte)
    BY DEF PackState
  <2>2. QED
    BY <1>0, <2>1, Associative
<1>3. st2.len \in Nat /\ st3.len \in Nat /\ st.len \in Nat
  BY DEF Wrote, PackState
<1>4. st2.len + Len(a) = st.len /\ st3.len + Len(b) = st2.len
  BY DEF Wrote
<1>5. st3.len + Len(a \o b) = st.len
  BY <1>1, <1>3, <1>4
<1>6. st3 \in PackState /\ st3.cur = st.cur \o (a \o b)
  BY <1>2 DEF Wrote
<1>7. QED
  BY <1>1, <1>5, <1>6 DEF Wrote

(* One piece is written if there is room, or nothing is.                    *)
LEMMA PutOne ==
  ASSUME NEW st \in PackState, NEW b \in Seq(Byte)
  PROVE  LET st2 == Put(st, b)
         IN  /\ st2 \in PackState
             /\ st2.ok <=> st.ok /\ Len(b) <= st.len
             /\ st2.ok => Wrote(st, st2, b)
             /\ ~st2.ok => Wrote(st, st2, <<>>)
<1>1. CASE st.ok /\ Len(b) <= st.len
  <2> DEFINE st2 == [cur |-> st.cur \o b, len |-> st.len - Len(b), ok |-> TRUE]
  <2>1. Put(st, b) = st2
    BY <1>1 DEF Put
  <2>2. st.cur \o b \in Seq(Byte) /\ Len(b) \in Nat /\ st.len \in Nat
    BY ConcatProperties, LenProperties DEF PackState
  <2>3. st.len - Len(b) \in Nat /\ (st.len - Len(b)) + Len(b) = st.len
    BY <1>1, <2>2
  <2>4. st2 \in PackState /\ Wrote(st, st2, b)
    BY <2>2, <2>3 DEF PackState, Wrote
  <2>5. QED
    BY <1>1, <2>1, <2>4
<1>2. CASE ~(st.ok /\ Len(b) <= st.len)
  <2>1. Put(st, b) = [st EXCEPT !.ok = FALSE]
    BY <1>2, Zenon DEF Put
  <2>2. /\ Put(st, b) \in PackState /\ Put(st, b).ok = FALSE
        /\ Put(st, b).cur = st.cur /\ Put(st, b).len = st.len
    BY <2>1 DEF PackState
  <2>3. QED
    BY <1>2, <2>2, WroteNothing
<1>3. QED
  BY <1>1, <1>2

(* What values scalars have.                                                *)
LEMMA Widths ==
  /\ NumWidth \in Nat /\ LenWidth \in Nat
  /\ NumWidth >= 1 /\ LenWidth >= 1
<1>1. NumWidth \in 1 .. 8 /\ LenWidth \in 1 .. 4
  BY PackAssumption
<1>2. QED
  BY <1>1

(* What a scalar is: a number of its width, or bytes whose number fits      *)
(* LenWidth.                                                                *)
LEMMA ScalarTyped ==
  ASSUME NEW s \in Scalar, NEW x \in ScalarsOf(s)
  PROVE  /\ x \in Seq(Nat)
         /\ s = "num" => \E n \in Nat : x = <<n>> /\ HasWidth(n, NumWidth)
         /\ s = "str" => /\ x \in Seq(Byte) /\ Len(x) \in Nat
                         /\ HasWidth(Len(x), LenWidth)
<1>1. CASE s = "str"
  <2>1. x \in Strings
    BY <1>1 DEF ScalarsOf
  <2>2. x \in Seq(Byte) /\ HasWidth(Len(x), LenWidth)
    <3>1. /\ Strings \subseteq Seq(Byte)
          /\ \A t \in Strings : HasWidth(Len(t), LenWidth)
      BY PackAssumption
    <3>2. QED
      BY <2>1, <3>1
  <2>3. Len(x) \in Nat /\ x \in Seq(Nat)
    BY <2>2, LenProperties, BytesAreNumbers
  <2>4. QED
    BY <1>1, <2>2, <2>3
<1>2. CASE s # "str"
  <2>1. PICK n \in Numbers : x = <<n>>
    BY <1>2 DEF ScalarsOf
  <2>2. n \in Nat /\ HasWidth(n, NumWidth)
    <3>1. Numbers \subseteq Nat /\ \A m \in Numbers : HasWidth(m, NumWidth)
      BY PackAssumption
    <3>2. QED
      BY <3>1
  <2>3. QED
    BY <1>2, <2>1, <2>2
<1>3. QED
  BY <1>1, <1>2

(* Whatever follows, no more than the packer had room for, the unpacker     *)
(* reads what was written and stops where the packer stopped.               *)
ScalarRead(s, x, st2, bytes) ==
  \A R \in Seq(Byte) : Len(R) <= st2.len =>
    LET got == TakeScalar(s, bytes \o R)
    IN  got.cur = R /\ got.ok = st2.ok /\ (got.ok => got.v = x)

(* ScalarSent for a number: one piece.                                      *)
LEMMA NumSent ==
  ASSUME NEW st \in PackState, st.ok, NEW x \in ScalarsOf("num")
  PROVE  \E bytes : /\ Wrote(st, PutScalar(st, "num", x), bytes)
                    /\ ScalarRead("num", x, PutScalar(st, "num", x), bytes)
<1>1. PICK n \in Nat : x = <<n>> /\ HasWidth(n, NumWidth)
  BY ScalarTyped DEF Scalar
<1> DEFINE b   == ToBytes(n, NumWidth)
           st2 == Put(st, b)
<1>2. b \in Seq(Byte) /\ Len(b) = NumWidth
  BY <1>1, Widths, BytesTyped
<1>3. /\ st2 \in PackState
      /\ st2.ok <=> Len(b) <= st.len
      /\ st2.ok => Wrote(st, st2, b)
      /\ ~st2.ok => Wrote(st, st2, <<>>)
  BY <1>2, PutOne
<1>4. PutScalar(st, "num", x) = st2
  BY <1>1 DEF PutScalar
<1>5. CASE st2.ok
  <2>1. ASSUME NEW R \in Seq(Byte)
        PROVE  /\ TakeScalar("num", b \o R).cur = R
               /\ TakeScalar("num", b \o R).ok = TRUE
               /\ TakeScalar("num", b \o R).v = x
    <3>1. TakeNum(b \o R, NumWidth) = [cur |-> R, v |-> n, ok |-> TRUE]
      BY <1>1, Widths, TakeNumOf
    <3> HIDE DEF b
    <3>2. QED
      BY <1>1, <3>1 DEF TakeScalar
  <2>2. st2.ok = TRUE
    BY <1>3, <1>5 DEF PackState
  <2> HIDE DEF st2, b
  <2>3. ScalarRead("num", x, st2, b)
    BY <2>1, <2>2 DEF ScalarRead
  <2>4. QED
    BY <1>3, <1>4, <1>5, <2>3
<1>6. CASE ~st2.ok
  <2>1. ASSUME NEW R \in Seq(Byte), Len(R) <= st2.len
        PROVE  /\ TakeScalar("num", <<>> \o R).cur = R
               /\ TakeScalar("num", <<>> \o R).ok = FALSE
    <3>1. <<>> \o R = R /\ Len(R) \in Nat
      BY ConcatEmptySeq, LenProperties
    <3>2. st2.len = st.len /\ st.len \in Nat
      BY <1>3, <1>6, EmptySeq DEF Wrote, PackState
    <3>3. Len(R) < NumWidth
      BY <1>2, <1>3, <1>6, <2>1, <3>1, <3>2, Widths
    <3>4. TakeNum(R, NumWidth).cur = R /\ TakeNum(R, NumWidth).ok = FALSE
      BY <3>3, Widths, TakeNumShort
    <3>5. QED
      BY <3>1, <3>4 DEF TakeScalar
  <2>2. st2.ok = FALSE
    BY <1>3, <1>6 DEF PackState
  <2> HIDE DEF st2, b
  <2>3. ScalarRead("num", x, st2, <<>>)
    BY <2>1, <2>2 DEF ScalarRead
  <2>4. QED
    BY <1>3, <1>4, <1>6, <2>3
<1>7. QED
  BY <1>5, <1>6

(* ScalarSent for a string: the length, then the body, each with its own    *)
(* check.                                                                   *)
LEMMA StrSent ==
  ASSUME NEW st \in PackState, st.ok, NEW x \in ScalarsOf("str")
  PROVE  \E bytes : /\ Wrote(st, PutScalar(st, "str", x), bytes)
                    /\ ScalarRead("str", x, PutScalar(st, "str", x), bytes)
<1> DEFINE b   == ToBytes(Len(x), LenWidth)
           st1 == Put(st, b)
           st2 == Put(st1, x)
<1>1. x \in Seq(Byte) /\ Len(x) \in Nat /\ HasWidth(Len(x), LenWidth)
  BY ScalarTyped DEF Scalar
<1>2. b \in Seq(Byte) /\ Len(b) = LenWidth
  BY <1>1, Widths, BytesTyped
<1>3. /\ st1 \in PackState
      /\ st1.ok <=> Len(b) <= st.len
      /\ st1.ok => Wrote(st, st1, b)
      /\ ~st1.ok => Wrote(st, st1, <<>>)
  BY <1>2, PutOne
<1>4. PutScalar(st, "str", x) = st2
  BY DEF PutScalar
<1>5. ASSUME NEW R \in Seq(Byte)
      PROVE  TakeNum(b \o R, LenWidth) = [cur |-> R, v |-> Len(x), ok |-> TRUE]
  BY <1>1, Widths, TakeNumOf
<1> HIDE DEF st1, b
<1>6. /\ st2 \in PackState
      /\ st2.ok <=> st1.ok /\ Len(x) <= st1.len
      /\ st2.ok => Wrote(st1, st2, x)
      /\ ~st2.ok => Wrote(st1, st2, <<>>)
  BY <1>1, <1>3, PutOne
<1> HIDE DEF st2
<1>7. CASE st2.ok
  <2>1. Wrote(st, st2, b \o x)
    BY <1>3, <1>6, <1>7, WroteBoth
  <2>2. ASSUME NEW R \in Seq(Byte)
        PROVE  /\ TakeScalar("str", (b \o x) \o R).cur = R
               /\ TakeScalar("str", (b \o x) \o R).ok = TRUE
               /\ TakeScalar("str", (b \o x) \o R).v = x
    <3>1. (b \o x) \o R = b \o (x \o R) /\ x \o R \in Seq(Byte)
      BY <1>1, <1>2, Associative, ConcatProperties
    <3>2. TakeNum(b \o (x \o R), LenWidth) = [cur |-> x \o R, v |-> Len(x), ok |-> TRUE]
      BY <1>5, <3>1
    <3>3. TakeBytes(x \o R, Len(x)) = [cur |-> R, v |-> x, ok |-> TRUE]
      BY <1>1, TakeBytesOf
    <3>4. TakeStr(b \o (x \o R)) = [cur |-> R, v |-> x, ok |-> TRUE]
      BY <3>2, <3>3 DEF TakeStr
    <3>5. QED
      BY <3>1, <3>4 DEF TakeScalar
  <2>3. st2.ok = TRUE
    BY <1>6, <1>7 DEF PackState
  <2>4. ScalarRead("str", x, st2, b \o x)
    BY <2>2, <2>3 DEF ScalarRead
  <2>5. QED
    BY <1>4, <2>1, <2>4
<1>8. CASE ~st2.ok /\ st1.ok
  <2>1. b \o <<>> = b /\ Wrote(st, st2, b \o <<>>)
    BY <1>2, <1>3, <1>6, <1>8, WroteBoth, ConcatEmptySeq
  <2>2. ASSUME NEW R \in Seq(Byte), Len(R) <= st2.len
        PROVE  /\ TakeScalar("str", b \o R).cur = R
               /\ TakeScalar("str", b \o R).ok = FALSE
    <3>1. st2.len = st1.len /\ st1.len \in Nat /\ Len(R) \in Nat
      BY <1>3, <1>6, <1>8, EmptySeq, LenProperties DEF Wrote, PackState
    <3>2. Len(R) < Len(x)
      BY <1>1, <1>6, <1>8, <2>2, <3>1
    <3>3. TakeBytes(R, Len(x)) = [cur |-> R, v |-> <<>>, ok |-> FALSE]
      BY <1>1, <3>2, TakeBytesShort
    <3>4. TakeNum(b \o R, LenWidth) = [cur |-> R, v |-> Len(x), ok |-> TRUE]
      BY <1>5
    <3>5. TakeStr(b \o R) = [cur |-> R, v |-> <<>>, ok |-> FALSE]
      BY <3>3, <3>4 DEF TakeStr
    <3>6. QED
      BY <3>5 DEF TakeScalar
  <2>3. st2.ok = FALSE
    BY <1>6, <1>8 DEF PackState
  <2>4. ScalarRead("str", x, st2, b)
    BY <2>2, <2>3 DEF ScalarRead
  <2>5. QED
    BY <1>4, <2>1, <2>4
<1>9. CASE ~st1.ok
  <2>1. <<>> \o <<>> = <<>> /\ ~st2.ok /\ Wrote(st, st2, <<>> \o <<>>)
    BY <1>3, <1>6, <1>9, WroteBoth, ConcatEmptySeq, EmptySeq
  <2>2. ASSUME NEW R \in Seq(Byte), Len(R) <= st2.len
        PROVE  /\ TakeScalar("str", <<>> \o R).cur = R
               /\ TakeScalar("str", <<>> \o R).ok = FALSE
    <3>1. <<>> \o R = R /\ Len(R) \in Nat
      BY ConcatEmptySeq, LenProperties
    <3>2. st2.len = st.len /\ st.len \in Nat
      BY <2>1, EmptySeq DEF Wrote, PackState
    <3>3. Len(R) < LenWidth
      BY <1>2, <1>3, <1>9, <2>2, <3>1, <3>2, Widths
    <3>4. TakeNum(R, LenWidth).ok = FALSE
      BY <3>3, Widths, TakeNumShort
    <3>5. TakeStr(R) = [cur |-> R, v |-> <<>>, ok |-> FALSE]
      BY <3>4 DEF TakeStr
    <3>6. QED
      BY <3>1, <3>5 DEF TakeScalar
  <2>3. st2.ok = FALSE
    BY <1>6, <2>1 DEF PackState
  <2>4. ScalarRead("str", x, st2, <<>>)
    BY <2>2, <2>3 DEF ScalarRead
  <2>5. QED
    BY <1>4, <2>1, <2>4
<1>10. QED
  BY <1>6, <1>7, <1>8, <1>9

(* Every scalar.                                                            *)
LEMMA ScalarSent ==
  ASSUME NEW st \in PackState, st.ok, NEW s \in Scalar, NEW x \in ScalarsOf(s)
  PROVE  \E bytes : /\ Wrote(st, PutScalar(st, s, x), bytes)
                    /\ ScalarRead(s, x, PutScalar(st, s, x), bytes)
<1>1. CASE s = "enum"
  <2>1. PutScalar(st, s, x) = [st EXCEPT !.ok = FALSE]
    BY <1>1 DEF PutScalar
  <2>2. Wrote(st, PutScalar(st, s, x), <<>>) /\ PutScalar(st, s, x).ok = FALSE
    BY <2>1, WroteNothing DEF PackState
  <2>3. ASSUME NEW R \in Seq(Byte)
        PROVE  /\ TakeScalar(s, <<>> \o R).cur = R
               /\ TakeScalar(s, <<>> \o R).ok = FALSE
    BY <1>1, ConcatEmptySeq DEF TakeScalar
  <2>4. ScalarRead(s, x, PutScalar(st, s, x), <<>>)
    BY <2>2, <2>3 DEF ScalarRead
  <2>5. QED
    BY <2>2, <2>4
<1>2. QED
  BY <1>1, NumSent, StrSent DEF Scalar

(* A scalar that does not follow a failure is written or not; after one     *)
(* nothing is.                                                              *)
LEMMA ScalarPut ==
  ASSUME NEW st \in PackState, NEW s \in Scalar, NEW x \in ScalarsOf(s)
  PROVE  /\ PutScalar(st, s, x) \in PackState
         /\ ~st.ok => PutScalar(st, s, x) = st
<1>1. CASE st.ok
  BY <1>1, ScalarSent DEF Wrote
<1>2. CASE ~st.ok
  <2>1. [st EXCEPT !.ok = FALSE] = st
    BY <1>2 DEF PackState
  <2>2. \A b : Put(st, b) = st
    BY <1>2, <2>1 DEF Put
  <2>3. PutScalar(st, s, x) = st
    BY <2>1, <2>2 DEF PutScalar, Scalar
  <2>4. QED
    BY <2>3
<1>3. QED
  BY <1>1, <1>2

(* The bytes a scalar takes.                                                *)
LEMMA ScalarFits ==
  ASSUME NEW st \in PackState, NEW s \in Scalar, NEW x \in ScalarsOf(s)
  PROVE  /\ ScalarSize(s, x) \in Nat
         /\ st.ok /\ s # "enum" /\ ScalarSize(s, x) <= st.len
            => /\ PutScalar(st, s, x).ok
               /\ PutScalar(st, s, x).len = st.len - ScalarSize(s, x)
<1>1. ScalarSize(s, x) \in Nat
  BY Widths, ScalarTyped DEF ScalarSize
<1> SUFFICES ASSUME st.ok, s # "enum", ScalarSize(s, x) <= st.len
             PROVE  /\ PutScalar(st, s, x).ok
                    /\ PutScalar(st, s, x).len = st.len - ScalarSize(s, x)
  BY <1>1
<1>2. st.len \in Nat
  BY DEF PackState
<1>3. CASE s = "num"
  <2>1. PICK n \in Nat : x = <<n>>
    BY <1>3, ScalarTyped
  <2> DEFINE b == ToBytes(n, NumWidth)
  <2>2. b \in Seq(Byte) /\ Len(b) = NumWidth /\ PutScalar(st, s, x) = Put(st, b)
    BY <1>3, <2>1, Widths, BytesTyped DEF PutScalar
  <2>3. ScalarSize(s, x) = NumWidth
    BY <1>3 DEF ScalarSize
  <2> HIDE DEF b
  <2>4. Len(b) <= st.len
    BY <2>2, <2>3
  <2>5. /\ Put(st, b).ok /\ Put(st, b) \in PackState
        /\ Put(st, b).len + Len(b) = st.len
    BY <2>2, <2>4, PutOne DEF Wrote
  <2>6. Put(st, b).len \in Nat
    BY <2>5 DEF PackState
  <2>7. QED
    BY <1>2, <2>2, <2>3, <2>5, <2>6, Widths
<1>4. CASE s = "str"
  <2> DEFINE b   == ToBytes(Len(x), LenWidth)
             st1 == Put(st, b)
             st2 == Put(st1, x)
  <2>1. x \in Seq(Byte) /\ Len(x) \in Nat
    BY <1>4, ScalarTyped
  <2>2. b \in Seq(Byte) /\ Len(b) = LenWidth /\ PutScalar(st, s, x) = st2
    BY <1>4, <2>1, Widths, BytesTyped DEF PutScalar
  <2>3. ScalarSize(s, x) = LenWidth + Len(x)
    BY <1>4 DEF ScalarSize
  <2> HIDE DEF b
  <2>4. Len(b) <= st.len
    BY <1>2, <2>1, <2>2, <2>3, Widths
  <2>5. st1.ok /\ st1 \in PackState /\ st1.len + Len(b) = st.len
    BY <2>2, <2>4, PutOne DEF Wrote
  <2>6. st1.len \in Nat
    BY <2>5 DEF PackState
  <2> HIDE DEF st1
  <2>7. Len(x) <= st1.len
    BY <1>2, <2>1, <2>2, <2>3, <2>5, <2>6, Widths
  <2>8. st2.ok /\ st2 \in PackState /\ st2.len + Len(x) = st1.len
    BY <2>1, <2>5, <2>7, PutOne DEF Wrote
  <2>9. st2.len \in Nat
    BY <2>8 DEF PackState
  <2> HIDE DEF st2
  <2>10. st2.len = st.len - (LenWidth + Len(x))
    BY <1>2, <2>1, <2>2, <2>5, <2>6, <2>8, <2>9, Widths
  <2>11. QED
    BY <2>2, <2>3, <2>8, <2>10
<1>5. QED
  BY <1>3, <1>4 DEF Scalar

(* Whatever the bytes are, what is read of them is a scalar and a rest.     *)
LEMMA TakeScalarTyped ==
  ASSUME NEW s \in Scalar, NEW cur \in Seq(Byte)
  PROVE  TakeScalar(s, cur) \in Taken(Seq(Nat))
<1>1. CASE s = "num"
  <2>1. TakeNum(cur, NumWidth) \in Taken(Nat)
    BY Widths, TakeNumTyped
  <2>2. <<TakeNum(cur, NumWidth).v>> \in Seq(Nat)
    BY <2>1 DEF Taken
  <2>3. QED
    BY <1>1, <2>1, <2>2 DEF TakeScalar, Taken
<1>2. CASE s = "str"
  <2> DEFINE size == TakeNum(cur, LenWidth)
  <2>1. size \in Taken(Nat)
    BY Widths, TakeNumTyped
  <2> HIDE DEF size
  <2>2. TakeBytes(size.cur, size.v) \in Taken(Seq(Byte))
    BY <2>1, TakeBytesTyped DEF Taken
  <2>3. [cur |-> cur, v |-> <<>>, ok |-> FALSE] \in Taken(Seq(Byte))
    BY EmptySeq DEF Taken
  <2>4. TakeStr(cur) \in Taken(Seq(Byte))
    BY <2>2, <2>3 DEF TakeStr, size
  <2>5. TakeStr(cur) \in Taken(Seq(Nat))
    BY <2>4, BytesAreNumbers DEF Taken
  <2>6. QED
    BY <1>2, <2>5 DEF TakeScalar
<1>3. CASE s = "enum"
  <2>1. TakeScalar(s, cur) = [cur |-> cur, v |-> <<>>, ok |-> FALSE]
    BY <1>3 DEF TakeScalar
  <2>2. <<>> \in Seq(Nat)
    BY EmptySeq
  <2>3. QED
    BY <2>1, <2>2 DEF Taken
<1>4. QED
  BY <1>1, <1>2, <1>3 DEF Scalar

-----------------------------------------------------------------------------
(* Items.                                                                   *)

Item == Seq(Seq(Nat))

(* An item has a scalar for each of its types.                              *)
LEMMA ItemTyped ==
  ASSUME NEW of \in Seq(Scalar), NEW x \in ItemsOf(of)
  PROVE  /\ x \in Item /\ DOMAIN x = DOMAIN of
         /\ x = [j \in DOMAIN of |-> x[j]]
         /\ \A j \in 1 .. Len(of) : of[j] \in Scalar /\ x[j] \in ScalarsOf(of[j])
<1> DEFINE sets == [j \in DOMAIN of |-> ScalarsOf(of[j])]
<1>1. x \in OneOfEach(sets)
  BY DEF ItemsOf
<1>2. DOMAIN sets = DOMAIN of /\ DOMAIN of = 1 .. Len(of) /\ Len(of) \in Nat
  BY LenProperties
<1>3. \A j \in DOMAIN of : sets[j] = ScalarsOf(of[j])
  OBVIOUS
<1> HIDE DEF sets
<1>4. x \in [DOMAIN of -> UNION Range(sets)] /\ \A j \in DOMAIN of : x[j] \in sets[j]
  BY <1>1, <1>2 DEF OneOfEach
<1>5. \A j \in 1 .. Len(of) : of[j] \in Scalar /\ x[j] \in ScalarsOf(of[j])
  BY <1>2, <1>3, <1>4
<1>6. \A j \in 1 .. Len(of) : x[j] \in Seq(Nat)
  BY <1>5, ScalarTyped
<1>7. x = [j \in DOMAIN of |-> x[j]] /\ DOMAIN x = DOMAIN of
  BY <1>4
<1>8. x \in [1 .. Len(of) -> Seq(Nat)]
  BY <1>2, <1>6, <1>7
<1>9. x \in Item
  BY <1>2, <1>8, SeqDef DEF Item
<1>10. QED
  BY <1>5, <1>7, <1>9

(* What the constructor leaves is an item.                                  *)
LEMMA ZeroItemTyped ==
  ASSUME NEW of \in Seq(Scalar)
  PROVE  ZeroItem(of) \in Item
<1>1. DOMAIN of = 1 .. Len(of) /\ Len(of) \in Nat
  BY LenProperties
<1>2. \A s : Zero(s) \in Seq(Nat)
  BY EmptySeq DEF Zero
<1>3. ZeroItem(of) \in [1 .. Len(of) -> Seq(Nat)]
  BY <1>1, <1>2 DEF ZeroItem
<1>4. QED
  BY <1>1, <1>3, SeqDef DEF Item

(* A sequence with another value in one place.                              *)
LEMMA Replaced ==
  ASSUME NEW T, NEW q \in Seq(T), NEW j \in Nat, NEW e \in T
  PROVE  [q EXCEPT ![j] = e] \in Seq(T)
<1>1. q \in [1 .. Len(q) -> T] /\ Len(q) \in Nat
  BY LenProperties
<1>2. [q EXCEPT ![j] = e] \in [1 .. Len(q) -> T]
  BY <1>1
<1>3. QED
  BY <1>1, <1>2, SeqDef

(* Reading a member leaves an item and a rest.                              *)
LEMMA NextScalarTyped ==
  ASSUME NEW of \in Seq(Scalar), NEW j \in 1 .. Len(of), NEW st \in Taken(Item)
  PROVE  NextScalar(st, of, j) \in Taken(Item)
<1> DEFINE got == TakeScalar(of[j], st.cur)
<1>1. of[j] \in Scalar
  BY LenProperties
<1>2. got \in Taken(Seq(Nat))
  BY <1>1, TakeScalarTyped DEF Taken
<1> HIDE DEF got
<1>3. [st.v EXCEPT ![j] = got.v] \in Item
  <2>1. st.v \in Seq(Seq(Nat)) /\ got.v \in Seq(Nat) /\ j \in Nat
    BY <1>2 DEF Taken, Item
  <2>2. QED
    BY <2>1, Replaced DEF Item
<1>4. QED
  BY <1>2, <1>3 DEF NextScalar, Taken, got

(* ItemPuts is what its recursive definition says.                          *)
LEMMA ItemPutsSteps ==
  ASSUME NEW st \in PackState, NEW of \in Seq(Scalar), NEW x \in ItemsOf(of)
  PROVE  /\ ItemPuts(st, of, x) \in [0 .. Len(of) -> PackState]
         /\ ItemPuts(st, of, x)[0] = st
         /\ \A j \in 1 .. Len(of) :
              ItemPuts(st, of, x)[j] = PutScalar(ItemPuts(st, of, x)[j - 1], of[j], x[j])
<1> DEFINE n    == Len(of)
           S    == PackState
           base == st
           step == [j \in 1 .. n |-> [s \in S |-> PutScalar(s, of[j], x[j])]]
           f    == ItemPuts(st, of, x)
           G    == {j \in 0 .. n : f[j] \in S}
<1>1. n \in Nat /\ base \in S
  BY LenProperties
<1>2. ASSUME NEW j \in 1 .. n, NEW s \in S
      PROVE  PutScalar(s, of[j], x[j]) \in S
  BY ItemTyped, ScalarPut
<1> HIDE DEF n, S, base
<1>3. \A j \in 1 .. n : \A s \in S :
        /\ step[j][s] = PutScalar(s, of[j], x[j])
        /\ step[j][s] \in S
  BY <1>2
<1> HIDE DEF step
<1>4. PICK g : Iterates(g, S, base, step, n)
  BY <1>1, <1>3, IterationExists
<1>5. g = [j \in 0 .. n |->
             IF j = 0 THEN base ELSE PutScalar(g[j - 1], of[j], x[j])]
  <2>1. g = [j \in 0 .. n |-> g[j]]
    BY <1>4 DEF Iterates
  <2>2. g[0] = base
    BY <1>4 DEF Iterates
  <2>3. ASSUME NEW j \in 1 .. n
        PROVE  g[j] = PutScalar(g[j - 1], of[j], x[j])
    <3>1. g[j - 1] \in S /\ g[j] = step[j][g[j - 1]]
      BY <1>4 DEF Iterates
    <3>2. QED
      BY <1>3, <3>1
  <2>4. ASSUME NEW j \in 0 .. n
        PROVE  g[j] = IF j = 0 THEN base ELSE PutScalar(g[j - 1], of[j], x[j])
    <3>1. j # 0 => j \in 1 .. n
      BY <1>1
    <3>2. QED
      BY <2>2, <2>3, <3>1, Zenon
  <2>5. QED
    BY <2>1, <2>4, Zenon
<1>6. f = [j \in 0 .. n |->
             IF j = 0 THEN base ELSE PutScalar(f[j - 1], of[j], x[j])]
  BY <1>5, Zenon DEF ItemPuts, n, base
<1> HIDE DEF f
<1>7. /\ f[0] = base
      /\ \A j \in 1 .. n : f[j] = PutScalar(f[j - 1], of[j], x[j])
  BY <1>1, <1>6
<1>8. 0 \in G /\ \A j \in 1 .. n : j - 1 \in G => j \in G
  BY <1>1, <1>2, <1>7
<1> HIDE DEF G
<1>9. \A j \in 0 .. n : j \in G
  BY <1>1, <1>8, Upward
<1>10. f \in [0 .. n -> S]
  BY <1>6, <1>9 DEF G
<1>11. QED
  BY <1>7, <1>10 DEF f, n, S, base

(* ItemTakes is what its recursive definition says.                         *)
LEMMA ItemTakesSteps ==
  ASSUME NEW of \in Seq(Scalar), NEW cur \in Seq(Byte)
  PROVE  /\ ItemTakes(of, cur) \in [0 .. Len(of) -> Taken(Item)]
         /\ ItemTakes(of, cur)[0] = [cur |-> cur, v |-> ZeroItem(of), ok |-> TRUE]
         /\ \A j \in 1 .. Len(of) :
              ItemTakes(of, cur)[j] = NextScalar(ItemTakes(of, cur)[j - 1], of, j)
<1> DEFINE n    == Len(of)
           S    == Taken(Item)
           base == [cur |-> cur, v |-> ZeroItem(of), ok |-> TRUE]
           step == [j \in 1 .. n |-> [s \in S |-> NextScalar(s, of, j)]]
           f    == ItemTakes(of, cur)
           G    == {j \in 0 .. n : f[j] \in S}
<1>1. n \in Nat /\ base \in S
  BY LenProperties, ZeroItemTyped DEF Taken
<1>2. ASSUME NEW j \in 1 .. n, NEW s \in S
      PROVE  NextScalar(s, of, j) \in S
  BY NextScalarTyped
<1> HIDE DEF n, S, base
<1>3. \A j \in 1 .. n : \A s \in S :
        /\ step[j][s] = NextScalar(s, of, j)
        /\ step[j][s] \in S
  BY <1>2
<1> HIDE DEF step
<1>4. PICK g : Iterates(g, S, base, step, n)
  BY <1>1, <1>3, IterationExists
<1>5. g = [j \in 0 .. n |->
             IF j = 0 THEN base ELSE NextScalar(g[j - 1], of, j)]
  <2>1. g = [j \in 0 .. n |-> g[j]]
    BY <1>4 DEF Iterates
  <2>2. g[0] = base
    BY <1>4 DEF Iterates
  <2>3. ASSUME NEW j \in 1 .. n
        PROVE  g[j] = NextScalar(g[j - 1], of, j)
    <3>1. g[j - 1] \in S /\ g[j] = step[j][g[j - 1]]
      BY <1>4 DEF Iterates
    <3>2. QED
      BY <1>3, <3>1
  <2>4. ASSUME NEW j \in 0 .. n
        PROVE  g[j] = IF j = 0 THEN base ELSE NextScalar(g[j - 1], of, j)
    <3>1. j # 0 => j \in 1 .. n
      BY <1>1
    <3>2. QED
      BY <2>2, <2>3, <3>1, Zenon
  <2>5. QED
    BY <2>1, <2>4, Zenon
<1>6. f = [j \in 0 .. n |->
             IF j = 0 THEN base ELSE NextScalar(f[j - 1], of, j)]
  BY <1>5, Zenon DEF ItemTakes, n, base
<1> HIDE DEF f
<1>7. /\ f[0] = base
      /\ \A j \in 1 .. n : f[j] = NextScalar(f[j - 1], of, j)
  BY <1>1, <1>6
<1>8. 0 \in G /\ \A j \in 1 .. n : j - 1 \in G => j \in G
  BY <1>1, <1>2, <1>7
<1> HIDE DEF G
<1>9. \A j \in 0 .. n : j \in G
  BY <1>1, <1>8, Upward
<1>10. f \in [0 .. n -> S]
  BY <1>6, <1>9 DEF G
<1>11. QED
  BY <1>7, <1>10 DEF f, n, S, base

(* Sums is what its recursive definition says.                              *)
LEMMA SumsSteps ==
  ASSUME NEW sizes \in Seq(Nat)
  PROVE  /\ Sums(sizes) \in [0 .. Len(sizes) -> Nat]
         /\ Sums(sizes)[0] = 0
         /\ \A i \in 1 .. Len(sizes) :
              Sums(sizes)[i] = Sums(sizes)[i - 1] + sizes[i]
<1> DEFINE n    == Len(sizes)
           S    == Nat
           base == 0
           step == [i \in 1 .. n |-> [s \in S |-> s + sizes[i]]]
           f    == Sums(sizes)
           G    == {i \in 0 .. n : f[i] \in S}
<1>1. n \in Nat /\ base \in S
  BY LenProperties
<1>2. ASSUME NEW i \in 1 .. n, NEW s \in S
      PROVE  s + sizes[i] \in S
  BY sizes[i] \in Nat
<1> HIDE DEF n, S, base
<1>3. \A i \in 1 .. n : \A s \in S :
        /\ step[i][s] = s + sizes[i]
        /\ step[i][s] \in S
  BY <1>2
<1> HIDE DEF step
<1>4. PICK g : Iterates(g, S, base, step, n)
  BY <1>1, <1>3, IterationExists
<1>5. g = [i \in 0 .. n |->
             IF i = 0 THEN base ELSE g[i - 1] + sizes[i]]
  <2>1. g = [i \in 0 .. n |-> g[i]]
    BY <1>4 DEF Iterates
  <2>2. g[0] = base
    BY <1>4 DEF Iterates
  <2>3. ASSUME NEW i \in 1 .. n
        PROVE  g[i] = g[i - 1] + sizes[i]
    <3>1. g[i - 1] \in S /\ g[i] = step[i][g[i - 1]]
      BY <1>4 DEF Iterates
    <3>2. QED
      BY <1>3, <3>1
  <2>4. ASSUME NEW i \in 0 .. n
        PROVE  g[i] = IF i = 0 THEN base ELSE g[i - 1] + sizes[i]
    <3>1. i # 0 => i \in 1 .. n
      BY <1>1
    <3>2. QED
      BY <2>2, <2>3, <3>1, Zenon
  <2>5. QED
    BY <2>1, <2>4, Zenon
<1>6. f = [i \in 0 .. n |->
             IF i = 0 THEN base ELSE f[i - 1] + sizes[i]]
  BY <1>5, Zenon DEF Sums, n, base
<1> HIDE DEF f
<1>7. /\ f[0] = base
      /\ \A i \in 1 .. n : f[i] = f[i - 1] + sizes[i]
  BY <1>1, <1>6
<1>8. 0 \in G /\ \A i \in 1 .. n : i - 1 \in G => i \in G
  BY <1>1, <1>2, <1>7
<1> HIDE DEF G
<1>9. \A i \in 0 .. n : i \in G
  BY <1>1, <1>8, Upward
<1>10. f \in [0 .. n -> S]
  BY <1>6, <1>9 DEF G
<1>11. QED
  BY <1>7, <1>10 DEF f, n, S, base

(* Sums do not shrink.                                                      *)
LEMMA SumsGrow ==
  ASSUME NEW sizes \in Seq(Nat)
  PROVE  /\ Total(sizes) \in Nat
         /\ \A i \in 0 .. Len(sizes) : Sums(sizes)[i] \in Nat /\ Sums(sizes)[i] <= Total(sizes)
<1> DEFINE n   == Len(sizes)
           sum == Sums(sizes)
           G   == {k \in 0 .. n : \A i \in 0 .. k : sum[i] <= sum[k]}
<1>1. n \in Nat /\ \A i \in 1 .. n : sizes[i] \in Nat
  BY LenProperties
<1>2. /\ sum \in [0 .. n -> Nat] /\ sum[0] = 0
      /\ \A i \in 1 .. n : sum[i] = sum[i - 1] + sizes[i]
  BY SumsSteps
<1> HIDE DEF n, sum
<1>3. 0 \in G
  BY <1>1, <1>2
<1>4. ASSUME NEW k \in 1 .. n, k - 1 \in G PROVE k \in G
  <2>1. sum[k - 1] \in Nat /\ sizes[k] \in Nat /\ sum[k] = sum[k - 1] + sizes[k]
    BY <1>1, <1>2
  <2>2. ASSUME NEW i \in 0 .. k PROVE sum[i] <= sum[k]
    <3>1. CASE i = k
      BY <2>1, <3>1
    <3>2. CASE i # k
      <4>1. i \in 0 .. k - 1 /\ i \in 0 .. n
        BY <1>1, <3>2
      <4>2. sum[i] <= sum[k - 1] /\ sum[i] \in Nat
        BY <1>2, <1>4, <4>1
      <4>3. QED
        BY <2>1, <4>2
    <3>3. QED
      BY <3>1, <3>2
  <2>3. QED
    BY <2>2
<1> HIDE DEF G
<1>5. n \in G
  <2>1. n \in Nat /\ n \in 0 .. n
    BY <1>1
  <2>2. \A i \in 0 .. n : i \in G
    BY <1>3, <1>4, <2>1, Upward
  <2>3. QED
    BY <2>1, <2>2
<1>6. sum[n] \in Nat /\ \A i \in 0 .. n : sum[i] \in Nat /\ sum[i] <= sum[n]
  BY <1>1, <1>2, <1>5 DEF G
<1>7. QED
  BY <1>6 DEF Total, n, sum

(* An item after a failure is not written, any other one up to a failure.   *)
LEMMA ItemPut ==
  ASSUME NEW st \in PackState, NEW of \in Seq(Scalar), NEW x \in ItemsOf(of)
  PROVE  /\ PutItem(st, of, x) \in PackState
         /\ ~st.ok => PutItem(st, of, x) = st
<1> DEFINE n   == Len(of)
           put == ItemPuts(st, of, x)
           G   == {j \in 0 .. n : put[j] = st}
<1>1. n \in Nat
  BY LenProperties
<1>2. /\ put \in [0 .. n -> PackState] /\ put[0] = st
      /\ \A j \in 1 .. n : put[j] = PutScalar(put[j - 1], of[j], x[j])
  BY ItemPutsSteps
<1> HIDE DEF n, put
<1>3. ASSUME ~st.ok PROVE put[n] = st
  <2>1. 0 \in G
    BY <1>1, <1>2
  <2>2. ASSUME NEW j \in 1 .. n, j - 1 \in G PROVE j \in G
    <3>1. put[j] = PutScalar(st, of[j], x[j])
      BY <1>2, <2>2
    <3>2. of[j] \in Scalar /\ x[j] \in ScalarsOf(of[j])
      BY ItemTyped DEF n
    <3>3. put[j] = st
      BY <1>3, <3>1, <3>2, ScalarPut
    <3>4. QED
      BY <3>3
  <2> HIDE DEF G
  <2>3. n \in G
    BY <1>1, <2>1, <2>2, Upward
  <2>4. QED
    BY <2>3 DEF G
<1>4. put[n] \in PackState
  BY <1>1, <1>2
<1>5. QED
  BY <1>3, <1>4 DEF PutItem, put, n

(* The bytes an item takes.                                                 *)
LEMMA ItemFits ==
  ASSUME NEW st \in PackState, NEW of \in Seq(Scalar), NEW x \in ItemsOf(of)
  PROVE  /\ ItemSize(of, x) \in Nat
         /\ st.ok /\ "enum" \notin Range(of) /\ ItemSize(of, x) <= st.len
            => /\ PutItem(st, of, x).ok
               /\ PutItem(st, of, x).len = st.len - ItemSize(of, x)
<1> DEFINE n     == Len(of)
           put   == ItemPuts(st, of, x)
           sizes == [j \in DOMAIN of |-> ScalarSize(of[j], x[j])]
           sum   == Sums(sizes)
           G     == {j \in 0 .. n : put[j].ok /\ put[j].len = st.len - sum[j]}
<1>1. n \in Nat /\ DOMAIN of = 1 .. n
  BY LenProperties
<1>2. /\ put \in [0 .. n -> PackState] /\ put[0] = st
      /\ \A j \in 1 .. n : put[j] = PutScalar(put[j - 1], of[j], x[j])
  BY ItemPutsSteps
<1>3. \A j \in 1 .. n : of[j] \in Scalar /\ x[j] \in ScalarsOf(of[j])
  BY ItemTyped
<1>4. \A j \in 1 .. n : sizes[j] = ScalarSize(of[j], x[j]) /\ sizes[j] \in Nat
  BY <1>1, <1>3, ScalarFits
<1>5. sizes \in [1 .. n -> Nat]
  BY <1>1, <1>4
<1>6. sizes \in Seq(Nat) /\ Len(sizes) = n
  BY <1>1, <1>5, SeqDef, LenProperties
<1> HIDE DEF n, put, sizes
<1>7. /\ sum[0] = 0
      /\ \A j \in 1 .. n : sum[j] = sum[j - 1] + sizes[j]
  BY <1>6, SumsSteps
<1>8. /\ Total(sizes) \in Nat /\ Total(sizes) = sum[n]
      /\ \A j \in 0 .. n : sum[j] \in Nat /\ sum[j] <= Total(sizes)
  BY <1>6, SumsGrow DEF Total
<1>9. ItemSize(of, x) = Total(sizes)
  BY DEF ItemSize, sizes
<1> HIDE DEF sum
<1>10. ASSUME st.ok, "enum" \notin Range(of), ItemSize(of, x) <= st.len
       PROVE  put[n].ok /\ put[n].len = st.len - Total(sizes)
  <2>1. st.len \in Nat
    BY DEF PackState
  <2>2. 0 \in G
    BY <1>1, <1>2, <1>7, <1>10, <2>1
  <2>3. ASSUME NEW j \in 1 .. n, j - 1 \in G PROVE j \in G
    <3>1. put[j - 1].ok /\ put[j - 1].len = st.len - sum[j - 1]
      BY <2>3
    <3>2. of[j] # "enum"
      BY <1>1, <1>10 DEF Range
    <3>3. j - 1 \in 0 .. n /\ j \in 0 .. n
      BY <1>1
    <3>4. put[j - 1] \in PackState
      BY <1>2, <3>3
    <3>5. /\ sum[j] = sum[j - 1] + sizes[j] /\ sizes[j] \in Nat
          /\ sum[j - 1] \in Nat /\ sum[j] <= st.len
      BY <1>4, <1>7, <1>8, <1>9, <1>10, <2>1, <3>3
    <3>6. ScalarSize(of[j], x[j]) <= put[j - 1].len
      BY <1>4, <2>1, <3>1, <3>5
    <3>7. put[j].ok /\ put[j].len = put[j - 1].len - sizes[j]
      BY <1>2, <1>3, <1>4, <3>1, <3>2, <3>4, <3>6, ScalarFits
    <3>8. put[j].len = st.len - sum[j]
      BY <2>1, <3>1, <3>5, <3>7
    <3>9. QED
      BY <3>3, <3>7, <3>8
  <2> HIDE DEF G
  <2>4. n \in G
    BY <1>1, <2>2, <2>3, Upward
  <2>5. QED
    BY <1>8, <2>4 DEF G
<1>11. QED
  BY <1>8, <1>9, <1>10 DEF PutItem, put, n

(* Nothing of an item, all of it, and one member more of it.                *)
LEMMA CutItemEnds ==
  ASSUME NEW of \in Seq(Scalar), NEW x \in ItemsOf(of)
  PROVE  /\ CutItem(of, x, 0) = ZeroItem(of)
         /\ CutItem(of, x, Len(of)) = x
         /\ \A j \in 1 .. Len(of) :
              [CutItem(of, x, j - 1) EXCEPT ![j] = x[j]] = CutItem(of, x, j)
<1>1. DOMAIN of = 1 .. Len(of) /\ Len(of) \in Nat
  BY LenProperties
<1>2. x = [j \in DOMAIN of |-> x[j]]
  BY ItemTyped
<1>3. CutItem(of, x, 0) = ZeroItem(of)
  BY <1>1 DEF CutItem, ZeroItem
<1>4. CutItem(of, x, Len(of)) = x
  <2>1. CutItem(of, x, Len(of)) = [j \in DOMAIN of |-> x[j]]
    BY <1>1 DEF CutItem
  <2>2. QED
    BY <1>2, <2>1
<1>5. ASSUME NEW j \in 1 .. Len(of)
      PROVE  [CutItem(of, x, j - 1) EXCEPT ![j] = x[j]] = CutItem(of, x, j)
  <2>1. \A i \in DOMAIN of : i <= j <=> i = j \/ i <= j - 1
    BY <1>1
  <2>2. [CutItem(of, x, j - 1) EXCEPT ![j] = x[j]]
          = [i \in DOMAIN of |-> IF i = j THEN x[j] ELSE CutItem(of, x, j - 1)[i]]
    BY DEF CutItem
  <2>3. \A i \in DOMAIN of : (IF i = j THEN x[j] ELSE CutItem(of, x, j - 1)[i])
                               = IF i <= j THEN x[i] ELSE Zero(of[i])
    BY <2>1 DEF CutItem
  <2>4. QED
    BY <2>2, <2>3 DEF CutItem
<1>6. QED
  BY <1>3, <1>4, <1>5

(* What is read of an item after j of its members, whatever bytes follow.   *)
ItemRead(of, x, j, st2, bytes) ==
  \A R \in Seq(Byte) : Len(R) <= st2.len =>
    LET got == ItemTakes(of, bytes \o R)[j]
    IN  /\ got.cur = R /\ got.ok = st2.ok
        /\ \E b \in 0 .. j : got.v = CutItem(of, x, b) /\ (got.ok => b = j)

(* One member more.                                                         *)
LEMMA ItemReadNext ==
  ASSUME NEW of \in Seq(Scalar), NEW x \in ItemsOf(of), NEW j \in 1 .. Len(of),
         NEW st \in PackState, NEW st2, st2 = PutScalar(st, of[j], x[j]),
         NEW a \in Seq(Byte), ItemRead(of, x, j - 1, st, a)
  PROVE  \E b : Wrote(st, st2, b) /\ ItemRead(of, x, j, st2, a \o b)
<1>1. of[j] \in Scalar /\ x[j] \in ScalarsOf(of[j])
  BY ItemTyped
<1>2. j - 1 \in 0 .. j /\ j \in 0 .. j /\ j - 1 \in 0 .. Len(of) /\ j \in 0 .. Len(of)
      /\ 0 .. j - 1 \subseteq 0 .. j
  BY LenProperties
<1>3. ASSUME NEW R \in Seq(Byte), a \o R \in Seq(Byte)
      PROVE  ItemTakes(of, a \o R)[j] = NextScalar(ItemTakes(of, a \o R)[j - 1], of, j)
  BY <1>3, ItemTakesSteps
<1>4. CASE st.ok
  <2>1. PICK b : Wrote(st, st2, b) /\ ScalarRead(of[j], x[j], st2, b)
    BY <1>1, <1>4, ScalarSent
  <2>2. b \in Seq(Byte) /\ st2 \in PackState /\ st2.len + Len(b) = st.len
    BY <2>1 DEF Wrote
  <2>3. st2.len \in Nat /\ st2.ok \in BOOLEAN /\ Len(b) \in Nat
    BY <2>2, LenProperties DEF PackState
  <2>4. ASSUME NEW R \in Seq(Byte), Len(R) <= st2.len
        PROVE  LET got == ItemTakes(of, (a \o b) \o R)[j]
               IN  /\ got.cur = R /\ got.ok = st2.ok
                   /\ \E c \in 0 .. j : got.v = CutItem(of, x, c) /\ (got.ok => c = j)
    <3>1. /\ (a \o b) \o R = a \o (b \o R) /\ b \o R \in Seq(Byte)
          /\ a \o (b \o R) \in Seq(Byte)
          /\ Len(b \o R) = Len(b) + Len(R) /\ Len(R) \in Nat
      BY <2>2, Associative, ConcatProperties, LenProperties
    <3>2. Len(b \o R) <= st.len
      BY <2>2, <2>3, <2>4, <3>1
    <3> DEFINE was == ItemTakes(of, a \o (b \o R))[j - 1]
               one == TakeScalar(of[j], b \o R)
               got == ItemTakes(of, a \o (b \o R))[j]
    <3>3. /\ was.cur = b \o R /\ was.ok = st.ok
          /\ \E c \in 0 .. j - 1 : was.v = CutItem(of, x, c) /\ (was.ok => c = j - 1)
      BY <3>1, <3>2 DEF ItemRead
    <3>4. one.cur = R /\ one.ok = st2.ok /\ (one.ok => one.v = x[j])
      BY <2>1, <2>4 DEF ScalarRead
    <3>5. got = NextScalar(was, of, j)
      BY <1>3, <3>1
    <3> HIDE DEF was, got
    <3>6. got = [cur |-> one.cur, ok |-> one.ok,
                 v |-> IF one.ok THEN [was.v EXCEPT ![j] = one.v] ELSE was.v]
      BY <1>4, <3>3, <3>5 DEF NextScalar
    <3> HIDE DEF one
    <3>7. was.v = CutItem(of, x, j - 1)
      BY <1>4, <3>3
    <3>8. CASE st2.ok
      <4>1. got.v = CutItem(of, x, j)
        BY <3>4, <3>6, <3>7, <3>8, CutItemEnds
      <4>2. QED
        BY <1>2, <3>1, <3>4, <3>6, <4>1 DEF got
    <3>9. CASE ~st2.ok
      <4>1. got.v = CutItem(of, x, j - 1) /\ ~got.ok
        BY <3>4, <3>6, <3>7, <3>9
      <4>2. QED
        BY <1>2, <3>1, <3>4, <3>6, <4>1 DEF got
    <3>10. QED
      BY <3>8, <3>9
  <2>5. ItemRead(of, x, j, st2, a \o b)
    BY <2>4 DEF ItemRead
  <2>6. QED
    BY <2>1, <2>5
<1>5. CASE ~st.ok
  <2>1. st2 = st
    BY <1>1, <1>5, ScalarPut
  <2>2. Wrote(st, st2, <<>>) /\ a \o <<>> = a
    BY <2>1, WroteNothing, ConcatEmptySeq
  <2>3. ASSUME NEW R \in Seq(Byte), Len(R) <= st2.len
        PROVE  LET got == ItemTakes(of, a \o R)[j]
               IN  /\ got.cur = R /\ got.ok = st2.ok
                   /\ \E c \in 0 .. j : got.v = CutItem(of, x, c) /\ (got.ok => c = j)
    <3> DEFINE was == ItemTakes(of, a \o R)[j - 1]
               got == ItemTakes(of, a \o R)[j]
    <3>1. a \o R \in Seq(Byte)
      BY ConcatProperties
    <3>2. got = NextScalar(was, of, j)
      BY <1>3, <3>1
    <3>3. /\ was.cur = R /\ was.ok = st.ok
          /\ \E c \in 0 .. j - 1 : was.v = CutItem(of, x, c) /\ (was.ok => c = j - 1)
      BY <2>1, <2>3 DEF ItemRead
    <3> HIDE DEF was, got
    <3>4. got = was
      BY <1>5, <3>2, <3>3 DEF NextScalar
    <3>5. QED
      BY <1>2, <1>5, <2>1, <3>3, <3>4 DEF got
  <2>4. ItemRead(of, x, j, st2, a)
    BY <2>3 DEF ItemRead
  <2>5. QED
    BY <2>2, <2>4
<1>6. QED
  BY <1>4, <1>5

(* An item: what was written of it is what is read.                         *)
LEMMA ItemSent ==
  ASSUME NEW st \in PackState, st.ok, NEW of \in Seq(Scalar), NEW x \in ItemsOf(of)
  PROVE  \E bytes : /\ Wrote(st, PutItem(st, of, x), bytes)
                    /\ ItemRead(of, x, Len(of), PutItem(st, of, x), bytes)
<1> DEFINE n   == Len(of)
           put == ItemPuts(st, of, x)
           G   == {j \in 0 .. n : \E a : Wrote(st, put[j], a) /\ ItemRead(of, x, j, put[j], a)}
<1>1. n \in Nat
  BY LenProperties
<1>2. /\ put \in [0 .. n -> PackState] /\ put[0] = st
      /\ \A j \in 1 .. n : put[j] = PutScalar(put[j - 1], of[j], x[j])
  BY ItemPutsSteps
<1> HIDE DEF put
<1>3. 0 \in G
  <2>1. Wrote(st, put[0], <<>>)
    BY <1>2, WroteNothing
  <2>2. ASSUME NEW R \in Seq(Byte)
        PROVE  LET got == ItemTakes(of, <<>> \o R)[0]
               IN  /\ got.cur = R /\ got.ok = put[0].ok
                   /\ \E b \in 0 .. 0 : got.v = CutItem(of, x, b) /\ (got.ok => b = 0)
    <3>1. <<>> \o R = R
      BY ConcatEmptySeq
    <3>2. ItemTakes(of, R)[0] = [cur |-> R, v |-> ZeroItem(of), ok |-> TRUE]
      BY ItemTakesSteps
    <3>3. put[0].ok = TRUE
      BY <1>2 DEF PackState
    <3>4. 0 \in 0 .. 0
      OBVIOUS
    <3>5. CutItem(of, x, 0) = ZeroItem(of)
      BY CutItemEnds
    <3> DEFINE got == ItemTakes(of, <<>> \o R)[0]
    <3>6. got = [cur |-> R, v |-> CutItem(of, x, 0), ok |-> put[0].ok]
      BY <3>1, <3>2, <3>3, <3>5, Zenon
    <3> HIDE DEF got
    <3>7. QED
      BY <3>4, <3>6 DEF got
  <2>3. ItemRead(of, x, 0, put[0], <<>>)
    BY <2>2 DEF ItemRead
  <2>4. QED
    BY <1>1, <2>1, <2>3
<1>4. ASSUME NEW j \in 1 .. n, j - 1 \in G PROVE j \in G
  <2>1. PICK a : Wrote(st, put[j - 1], a) /\ ItemRead(of, x, j - 1, put[j - 1], a)
    BY <1>4
  <2>2. /\ a \in Seq(Byte) /\ put[j - 1] \in PackState
        /\ put[j] = PutScalar(put[j - 1], of[j], x[j])
    BY <1>2, <2>1 DEF Wrote
  <2>3. PICK b : Wrote(put[j - 1], put[j], b) /\ ItemRead(of, x, j, put[j], a \o b)
    BY <2>1, <2>2, ItemReadNext
  <2>4. Wrote(st, put[j], a \o b)
    BY <2>1, <2>3, WroteBoth
  <2>5. j \in 0 .. n
    BY <1>1
  <2>6. QED
    BY <2>3, <2>4, <2>5
<1> HIDE DEF G
<1>5. n \in G
  BY <1>1, <1>3, <1>4, Upward, SMTT(60)
<1>6. \E a : Wrote(st, put[n], a) /\ ItemRead(of, x, n, put[n], a)
  BY <1>5 DEF G
<1>7. QED
  BY <1>6 DEF PutItem, put

(* Whatever the bytes are, what is read of them is an item and a rest.      *)
LEMMA TakeItemTyped ==
  ASSUME NEW of \in Seq(Scalar), NEW cur \in Seq(Byte)
  PROVE  TakeItem(of, cur) \in Taken(Item)
<1>1. Len(of) \in 0 .. Len(of)
  BY LenProperties
<1>2. QED
  BY <1>1, ItemTakesSteps DEF TakeItem

-----------------------------------------------------------------------------
(* Fields.                                                                  *)

Value == Seq(Item)

(* A vector that was resized is a value.                                    *)
LEMMA ResizedTyped ==
  ASSUME NEW type \in Type, NEW n \in Nat
  PROVE  Resized(type, n) \in Value
<1>1. ZeroItem(type.of) \in Item
  BY ZeroItemTyped DEF Type
<1>2. [i \in 1 .. n |-> ZeroItem(type.of)] \in [1 .. n -> Item]
  BY <1>1
<1>3. [i \in 1 .. n |-> ZeroItem(type.of)] \in Value
  BY <1>2, SeqDef DEF Value
<1>4. QED
  BY <1>3, EmptySeq DEF Resized, Value

(* Reading an item leaves a value and a rest.                               *)
LEMMA NextItemTyped ==
  ASSUME NEW type \in Type, NEW i \in Nat, NEW st \in Taken(Value)
  PROVE  NextItem(st, type, i) \in Taken(Value)
<1> DEFINE got == TakeItem(type.of, st.cur)
<1>1. got \in Taken(Item)
  BY TakeItemTyped DEF Taken, Type
<1> HIDE DEF got
<1>2. st.v \in Seq(Item) /\ got.v \in Item
  BY <1>1 DEF Taken, Value
<1>3. [st.v EXCEPT ![i] = got.v] \in Value
  BY <1>2, Replaced DEF Value
<1>4. Append(st.v, got.v) \in Value
  BY <1>2, AppendProperties DEF Value
<1>5. QED
  BY <1>1, <1>2, <1>3, <1>4 DEF NextItem, Taken, Value, got

(* ItemsPuts is what its recursive definition says.                         *)
LEMMA ItemsPutsSteps ==
  ASSUME NEW st \in PackState, NEW of \in Seq(Scalar), NEW v \in Seq(ItemsOf(of))
  PROVE  /\ ItemsPuts(st, of, v) \in [0 .. Len(v) -> PackState]
         /\ ItemsPuts(st, of, v)[0] = st
         /\ \A i \in 1 .. Len(v) :
              ItemsPuts(st, of, v)[i] = PutItem(ItemsPuts(st, of, v)[i - 1], of, v[i])
<1> DEFINE n    == Len(v)
           S    == PackState
           base == st
           step == [i \in 1 .. n |-> [s \in S |-> PutItem(s, of, v[i])]]
           f    == ItemsPuts(st, of, v)
           G    == {i \in 0 .. n : f[i] \in S}
<1>1. n \in Nat /\ base \in S
  BY LenProperties
<1>2. ASSUME NEW i \in 1 .. n, NEW s \in S
      PROVE  PutItem(s, of, v[i]) \in S
  BY v[i] \in ItemsOf(of), ItemPut
<1> HIDE DEF n, S, base
<1>3. \A i \in 1 .. n : \A s \in S :
        /\ step[i][s] = PutItem(s, of, v[i])
        /\ step[i][s] \in S
  BY <1>2
<1> HIDE DEF step
<1>4. PICK g : Iterates(g, S, base, step, n)
  BY <1>1, <1>3, IterationExists
<1>5. g = [i \in 0 .. n |->
             IF i = 0 THEN base ELSE PutItem(g[i - 1], of, v[i])]
  <2>1. g = [i \in 0 .. n |-> g[i]]
    BY <1>4 DEF Iterates
  <2>2. g[0] = base
    BY <1>4 DEF Iterates
  <2>3. ASSUME NEW i \in 1 .. n
        PROVE  g[i] = PutItem(g[i - 1], of, v[i])
    <3>1. g[i - 1] \in S /\ g[i] = step[i][g[i - 1]]
      BY <1>4 DEF Iterates
    <3>2. QED
      BY <1>3, <3>1
  <2>4. ASSUME NEW i \in 0 .. n
        PROVE  g[i] = IF i = 0 THEN base ELSE PutItem(g[i - 1], of, v[i])
    <3>1. i # 0 => i \in 1 .. n
      BY <1>1
    <3>2. QED
      BY <2>2, <2>3, <3>1, Zenon
  <2>5. QED
    BY <2>1, <2>4, Zenon
<1>6. f = [i \in 0 .. n |->
             IF i = 0 THEN base ELSE PutItem(f[i - 1], of, v[i])]
  BY <1>5, Zenon DEF ItemsPuts, n, base
<1> HIDE DEF f
<1>7. /\ f[0] = base
      /\ \A i \in 1 .. n : f[i] = PutItem(f[i - 1], of, v[i])
  BY <1>1, <1>6
<1>8. 0 \in G /\ \A i \in 1 .. n : i - 1 \in G => i \in G
  BY <1>1, <1>2, <1>7
<1> HIDE DEF G
<1>9. \A i \in 0 .. n : i \in G
  BY <1>1, <1>8, Upward
<1>10. f \in [0 .. n -> S]
  BY <1>6, <1>9 DEF G
<1>11. QED
  BY <1>7, <1>10 DEF f, n, S, base

(* ItemsTakes is what its recursive definition says.                        *)
LEMMA ItemsTakesSteps ==
  ASSUME NEW type \in Type, NEW cur \in Seq(Byte), NEW k \in Nat
  PROVE  /\ ItemsTakes(type, cur, k) \in [0 .. k -> Taken(Value)]
         /\ ItemsTakes(type, cur, k)[0] = [cur |-> cur, v |-> Resized(type, k), ok |-> TRUE]
         /\ \A i \in 1 .. k :
              ItemsTakes(type, cur, k)[i] = NextItem(ItemsTakes(type, cur, k)[i - 1], type, i)
<1> DEFINE n    == k
           S    == Taken(Value)
           base == [cur |-> cur, v |-> Resized(type, k), ok |-> TRUE]
           step == [i \in 1 .. n |-> [s \in S |-> NextItem(s, type, i)]]
           f    == ItemsTakes(type, cur, k)
           G    == {i \in 0 .. n : f[i] \in S}
<1>1. n \in Nat /\ base \in S
  BY ResizedTyped DEF Taken
<1>2. ASSUME NEW i \in 1 .. n, NEW s \in S
      PROVE  NextItem(s, type, i) \in S
  BY NextItemTyped
<1> HIDE DEF n, S, base
<1>3. \A i \in 1 .. n : \A s \in S :
        /\ step[i][s] = NextItem(s, type, i)
        /\ step[i][s] \in S
  BY <1>2
<1> HIDE DEF step
<1>4. PICK g : Iterates(g, S, base, step, n)
  BY <1>1, <1>3, IterationExists
<1>5. g = [i \in 0 .. n |->
             IF i = 0 THEN base ELSE NextItem(g[i - 1], type, i)]
  <2>1. g = [i \in 0 .. n |-> g[i]]
    BY <1>4 DEF Iterates
  <2>2. g[0] = base
    BY <1>4 DEF Iterates
  <2>3. ASSUME NEW i \in 1 .. n
        PROVE  g[i] = NextItem(g[i - 1], type, i)
    <3>1. g[i - 1] \in S /\ g[i] = step[i][g[i - 1]]
      BY <1>4 DEF Iterates
    <3>2. QED
      BY <1>3, <3>1
  <2>4. ASSUME NEW i \in 0 .. n
        PROVE  g[i] = IF i = 0 THEN base ELSE NextItem(g[i - 1], type, i)
    <3>1. i # 0 => i \in 1 .. n
      BY <1>1
    <3>2. QED
      BY <2>2, <2>3, <3>1, Zenon
  <2>5. QED
    BY <2>1, <2>4, Zenon
<1>6. f = [i \in 0 .. n |->
             IF i = 0 THEN base ELSE NextItem(f[i - 1], type, i)]
  BY <1>5, Zenon DEF ItemsTakes, n, base
<1> HIDE DEF f
<1>7. /\ f[0] = base
      /\ \A i \in 1 .. n : f[i] = NextItem(f[i - 1], type, i)
  BY <1>1, <1>6
<1>8. 0 \in G /\ \A i \in 1 .. n : i - 1 \in G => i \in G
  BY <1>1, <1>2, <1>7
<1> HIDE DEF G
<1>9. \A i \in 0 .. n : i \in G
  BY <1>1, <1>8, Upward
<1>10. f \in [0 .. n -> S]
  BY <1>6, <1>9 DEF G
<1>11. QED
  BY <1>7, <1>10 DEF f, n, S, base

(* Nothing of a value, all of it, and one item more of it.                  *)
LEMMA CutEnds ==
  ASSUME NEW type \in Type, NEW v \in Seq(ItemsOf(type.of))
  PROVE  /\ CutAfter(type, v, 0, 0) = Resized(type, Len(v))
         /\ CutAfter(type, v, Len(v), 0) = v
<1>1. DOMAIN v = 1 .. Len(v) /\ Len(v) \in Nat /\ v = [i \in 1 .. Len(v) |-> v[i]]
  BY LenProperties
<1>2. CASE type.kind = "map"
  <2>1. SubSeq(v, 1, 0) = <<>> /\ SubSeq(v, 1, Len(v)) = v
    BY SubSeqEmpty, SubSeqFull
  <2>2. QED
    BY <1>2, <2>1 DEF CutAfter, Resized
<1>3. CASE type.kind # "map"
  <2>1. \A i \in 1 .. Len(v) : ~(i <= 0) /\ i <= Len(v)
    BY <1>1
  <2>2. \A i \in 1 .. Len(v) : CutItem(type.of, v[i], 0) = ZeroItem(type.of)
    BY CutItemEnds DEF Type
  <2>3. CutAfter(type, v, 0, 0) = [i \in 1 .. Len(v) |-> ZeroItem(type.of)]
    <3>1. CutAfter(type, v, 0, 0)
            = [i \in 1 .. Len(v) |-> CutItem(type.of, v[i], IF i = 0 + 1 THEN 0 ELSE 0)]
      BY <1>1, <1>3, <2>1, Zenon DEF CutAfter
    <3>2. QED
      BY <2>2, <3>1
  <2>4. CutAfter(type, v, Len(v), 0) = [i \in 1 .. Len(v) |-> v[i]]
    BY <1>1, <1>3, <2>1 DEF CutAfter
  <2>5. QED
    BY <1>1, <1>3, <2>3, <2>4 DEF Resized
<1>4. QED
  BY <1>2, <1>3

(* One more item that came whole, or in part, on top of those before it.    *)
LEMMA CutNext ==
  ASSUME NEW type \in Type, NEW v \in Seq(ItemsOf(type.of)), NEW i \in 1 .. Len(v)
  PROVE  /\ type.kind # "map" =>
              /\ [CutAfter(type, v, i - 1, 0) EXCEPT ![i] = v[i]] = CutAfter(type, v, i, 0)
              /\ \A b : [CutAfter(type, v, i - 1, 0) EXCEPT ![i] = CutItem(type.of, v[i], b)]
                          = CutAfter(type, v, i - 1, b)
         /\ type.kind = "map" =>
              Append(CutAfter(type, v, i - 1, 0), v[i]) = CutAfter(type, v, i, 0)
<1>1. DOMAIN v = 1 .. Len(v) /\ Len(v) \in Nat
  BY LenProperties
<1>2. ASSUME type.kind # "map"
      PROVE  [CutAfter(type, v, i - 1, 0) EXCEPT ![i] = v[i]] = CutAfter(type, v, i, 0)
  <2> DEFINE was == CutAfter(type, v, i - 1, 0)
             now == CutAfter(type, v, i, 0)
  <2>1. \A k \in 1 .. Len(v) : (k <= i <=> k = i \/ k <= i - 1)
    BY <1>1
  <2>2. /\ was = [k \in 1 .. Len(v) |-> was[k]]
        /\ now = [k \in 1 .. Len(v) |-> now[k]]
    BY <1>1, <1>2 DEF CutAfter
  <2>3. ASSUME NEW k \in 1 .. Len(v)
        PROVE  now[k] = IF k = i THEN v[i] ELSE was[k]
    <3>1. /\ now[k] = IF k <= i THEN v[k] ELSE CutItem(type.of, v[k], 0)
          /\ was[k] = IF k <= i - 1 THEN v[k] ELSE CutItem(type.of, v[k], 0)
      BY <1>1, <1>2 DEF CutAfter
    <3>2. QED
      BY <2>1, <3>1
  <2> HIDE DEF was, now
  <2>4. [was EXCEPT ![i] = v[i]] = [k \in 1 .. Len(v) |-> IF k = i THEN v[i] ELSE was[k]]
    BY <2>2
  <2>5. QED
    BY <2>2, <2>3, <2>4 DEF was, now
<1>3. ASSUME type.kind # "map", NEW b
      PROVE  [CutAfter(type, v, i - 1, 0) EXCEPT ![i] = CutItem(type.of, v[i], b)]
               = CutAfter(type, v, i - 1, b)
  <2> DEFINE was == CutAfter(type, v, i - 1, 0)
             now == CutAfter(type, v, i - 1, b)
             one == CutItem(type.of, v[i], b)
  <2>1. \A k \in 1 .. Len(v) : k = (i - 1) + 1 <=> k = i
    BY <1>1
  <2>2. /\ was = [k \in 1 .. Len(v) |-> was[k]]
        /\ now = [k \in 1 .. Len(v) |-> now[k]]
    BY <1>1, <1>3 DEF CutAfter
  <2>3. ASSUME NEW k \in 1 .. Len(v)
        PROVE  now[k] = IF k = i THEN one ELSE was[k]
    <3>1. /\ now[k] = IF k <= i - 1 THEN v[k]
                      ELSE CutItem(type.of, v[k], IF k = i THEN b ELSE 0)
          /\ was[k] = IF k <= i - 1 THEN v[k] ELSE CutItem(type.of, v[k], 0)
      BY <1>1, <1>3, <2>1 DEF CutAfter
    <3>2. ~(i <= i - 1)
      OBVIOUS
    <3>3. QED
      BY <3>1, <3>2
  <2> HIDE DEF was, now, one
  <2>4. [was EXCEPT ![i] = one] = [k \in 1 .. Len(v) |-> IF k = i THEN one ELSE was[k]]
    BY <2>2
  <2>5. QED
    BY <2>2, <2>3, <2>4 DEF was, now, one
<1>4. ASSUME type.kind = "map"
      PROVE  Append(CutAfter(type, v, i - 1, 0), v[i]) = CutAfter(type, v, i, 0)
  <2>1. /\ i - 1 \in Nat /\ (i - 1) + 1 = i /\ i \in 1 .. Len(v)
        /\ i - 1 <= Len(v) /\ 1 <= i
    BY <1>1
  <2>2. SubSeq(v, 1, i) = Append(SubSeq(v, 1, i - 1), v[i])
    BY <1>1, <2>1, SubSeqRecursiveSecond
  <2>3. QED
    BY <1>4, <2>2 DEF CutAfter
<1>5. QED
  BY <1>2, <1>3, <1>4

(* What is read of a value after i of its items, whatever bytes follow.     *)
ItemsRead(type, v, i, st2, bytes) ==
  \A R \in Seq(Byte) : Len(R) <= st2.len =>
    LET got == ItemsTakes(type, bytes \o R, Len(v))[i]
    IN  /\ got.cur = R /\ got.ok = st2.ok
        /\ \E a \in 0 .. i, b \in 0 .. Len(type.of) :
             got.v = CutAfter(type, v, a, b) /\ (got.ok => a = i /\ b = 0)

(* One item more.                                                           *)
LEMMA ItemsReadNext ==
  ASSUME NEW type \in Type, NEW v \in Seq(ItemsOf(type.of)), NEW i \in 1 .. Len(v),
         NEW st \in PackState, NEW st2, st2 = PutItem(st, type.of, v[i]),
         NEW p \in Seq(Byte), ItemsRead(type, v, i - 1, st, p)
  PROVE  \E q : Wrote(st, st2, q) /\ ItemsRead(type, v, i, st2, p \o q)
<1>1. type.of \in Seq(Scalar) /\ v[i] \in ItemsOf(type.of)
  BY DEF Type
<1>2. /\ i - 1 \in 0 .. i /\ i \in 0 .. i /\ i - 1 \in 0 .. Len(v) /\ i \in 0 .. Len(v)
      /\ 0 .. i - 1 \subseteq 0 .. i /\ 0 \in 0 .. Len(type.of) /\ Len(v) \in Nat
  BY <1>1, LenProperties
<1>3. ASSUME NEW R \in Seq(Byte), p \o R \in Seq(Byte)
      PROVE  ItemsTakes(type, p \o R, Len(v))[i]
               = NextItem(ItemsTakes(type, p \o R, Len(v))[i - 1], type, i)
  BY <1>2, <1>3, ItemsTakesSteps
<1>4. CASE st.ok
  <2>1. PICK q : Wrote(st, st2, q) /\ ItemRead(type.of, v[i], Len(type.of), st2, q)
    BY <1>1, <1>4, ItemSent
  <2>2. q \in Seq(Byte) /\ st2 \in PackState /\ st2.len + Len(q) = st.len
    BY <2>1 DEF Wrote
  <2>3. st2.len \in Nat /\ st2.ok \in BOOLEAN /\ Len(q) \in Nat
    BY <2>2, LenProperties DEF PackState
  <2>4. ASSUME NEW R \in Seq(Byte), Len(R) <= st2.len
        PROVE  LET got == ItemsTakes(type, (p \o q) \o R, Len(v))[i]
               IN  /\ got.cur = R /\ got.ok = st2.ok
                   /\ \E a \in 0 .. i, b \in 0 .. Len(type.of) :
                        got.v = CutAfter(type, v, a, b) /\ (got.ok => a = i /\ b = 0)
    <3>1. /\ (p \o q) \o R = p \o (q \o R) /\ q \o R \in Seq(Byte)
          /\ p \o (q \o R) \in Seq(Byte)
          /\ Len(q \o R) = Len(q) + Len(R) /\ Len(R) \in Nat
      BY <2>2, Associative, ConcatProperties, LenProperties
    <3>2. Len(q \o R) <= st.len
      BY <2>2, <2>3, <2>4, <3>1
    <3> DEFINE was == ItemsTakes(type, p \o (q \o R), Len(v))[i - 1]
               one == TakeItem(type.of, q \o R)
               got == ItemsTakes(type, p \o (q \o R), Len(v))[i]
    <3>3. /\ was.cur = q \o R /\ was.ok = st.ok
          /\ \E a \in 0 .. i - 1, b \in 0 .. Len(type.of) :
               was.v = CutAfter(type, v, a, b) /\ (was.ok => a = i - 1 /\ b = 0)
      BY <3>1, <3>2 DEF ItemsRead
    <3>4. /\ one.cur = R /\ one.ok = st2.ok
          /\ \E b \in 0 .. Len(type.of) :
               one.v = CutItem(type.of, v[i], b) /\ (one.ok => b = Len(type.of))
      BY <2>1, <2>4 DEF ItemRead, TakeItem
    <3>5. got = NextItem(was, type, i)
      BY <1>3, <3>1
    <3> HIDE DEF was, got
    <3>6. got = [cur |-> one.cur, ok |-> one.ok,
                 v |-> IF type.kind # "map" THEN [was.v EXCEPT ![i] = one.v]
                       ELSE IF one.ok THEN Append(was.v, one.v) ELSE was.v]
      BY <1>4, <3>3, <3>5 DEF NextItem
    <3> HIDE DEF one
    <3>7. was.v = CutAfter(type, v, i - 1, 0)
      BY <1>4, <3>3
    <3>8. PICK b \in 0 .. Len(type.of) :
            one.v = CutItem(type.of, v[i], b) /\ (one.ok => b = Len(type.of))
      BY <3>4
    <3>9. got.cur = R /\ got.ok = st2.ok
      BY <3>4, <3>6
    <3>10. CASE st2.ok
      <4>1. one.v = v[i]
        BY <1>1, <3>4, <3>8, <3>10, CutItemEnds
      <4>2. got.v = CutAfter(type, v, i, 0)
        BY <3>4, <3>6, <3>7, <3>10, <4>1, CutNext
      <4>3. QED
        BY <1>2, <3>1, <3>9, <4>2 DEF got
    <3>11. CASE ~st2.ok
      <4>1. CASE type.kind # "map"
        <5>1. got.v = CutAfter(type, v, i - 1, b)
          BY <3>6, <3>7, <3>8, <4>1, CutNext
        <5>2. QED
          BY <1>2, <3>1, <3>9, <3>11, <5>1 DEF got
      <4>2. CASE type.kind = "map"
        <5>1. got.v = CutAfter(type, v, i - 1, 0)
          BY <3>4, <3>6, <3>7, <3>11, <4>2
        <5>2. QED
          BY <1>2, <3>1, <3>9, <3>11, <5>1 DEF got
      <4>3. QED
        BY <4>1, <4>2
    <3>12. QED
      BY <3>10, <3>11
  <2>5. ItemsRead(type, v, i, st2, p \o q)
    BY <2>4 DEF ItemsRead
  <2>6. QED
    BY <2>1, <2>5
<1>5. CASE ~st.ok
  <2>1. st2 = st
    BY <1>1, <1>5, ItemPut
  <2>2. Wrote(st, st2, <<>>) /\ p \o <<>> = p
    BY <2>1, WroteNothing, ConcatEmptySeq
  <2>3. ASSUME NEW R \in Seq(Byte), Len(R) <= st2.len
        PROVE  LET got == ItemsTakes(type, p \o R, Len(v))[i]
               IN  /\ got.cur = R /\ got.ok = st2.ok
                   /\ \E a \in 0 .. i, b \in 0 .. Len(type.of) :
                        got.v = CutAfter(type, v, a, b) /\ (got.ok => a = i /\ b = 0)
    <3> DEFINE was == ItemsTakes(type, p \o R, Len(v))[i - 1]
               got == ItemsTakes(type, p \o R, Len(v))[i]
    <3>1. p \o R \in Seq(Byte)
      BY ConcatProperties
    <3>2. got = NextItem(was, type, i)
      BY <1>3, <3>1
    <3>3. /\ was.cur = R /\ was.ok = st.ok
          /\ \E a \in 0 .. i - 1, b \in 0 .. Len(type.of) :
               was.v = CutAfter(type, v, a, b) /\ (was.ok => a = i - 1 /\ b = 0)
      BY <2>1, <2>3 DEF ItemsRead
    <3> HIDE DEF was, got
    <3>4. got = was
      BY <1>5, <3>2, <3>3 DEF NextItem
    <3>5. QED
      BY <1>2, <1>5, <2>1, <3>3, <3>4 DEF got
  <2>4. ItemsRead(type, v, i, st2, p)
    BY <2>3 DEF ItemsRead
  <2>5. QED
    BY <2>2, <2>4
<1>6. QED
  BY <1>4, <1>5

(* The items of a value, where nothing has failed yet.                      *)
LEMMA ItemsSent ==
  ASSUME NEW type \in Type, NEW v \in Seq(ItemsOf(type.of)), NEW st \in PackState, st.ok
  PROVE  LET st2 == ItemsPuts(st, type.of, v)[Len(v)]
         IN  \E bytes : Wrote(st, st2, bytes) /\ ItemsRead(type, v, Len(v), st2, bytes)
<1> DEFINE n   == Len(v)
           put == ItemsPuts(st, type.of, v)
           G   == {i \in 0 .. n : \E p : Wrote(st, put[i], p) /\ ItemsRead(type, v, i, put[i], p)}
<1>0. type.of \in Seq(Scalar)
  BY DEF Type
<1>1. n \in Nat
  BY LenProperties
<1>2. /\ put \in [0 .. n -> PackState] /\ put[0] = st
      /\ \A i \in 1 .. n : put[i] = PutItem(put[i - 1], type.of, v[i])
  BY <1>0, ItemsPutsSteps
<1> HIDE DEF put
<1>3. 0 \in G
  <2>1. Wrote(st, put[0], <<>>)
    BY <1>2, WroteNothing
  <2>2. ASSUME NEW R \in Seq(Byte)
        PROVE  LET got == ItemsTakes(type, <<>> \o R, Len(v))[0]
               IN  /\ got.cur = R /\ got.ok = put[0].ok
                   /\ \E a \in 0 .. 0, b \in 0 .. Len(type.of) :
                        got.v = CutAfter(type, v, a, b) /\ (got.ok => a = 0 /\ b = 0)
    <3>1. <<>> \o R = R
      BY ConcatEmptySeq
    <3>2. ItemsTakes(type, R, Len(v))[0] = [cur |-> R, v |-> Resized(type, Len(v)), ok |-> TRUE]
      BY <1>1, ItemsTakesSteps
    <3>3. put[0].ok = TRUE
      BY <1>2 DEF PackState
    <3>4. 0 \in 0 .. 0 /\ 0 \in 0 .. Len(type.of)
      BY <1>0, LenProperties
    <3>5. CutAfter(type, v, 0, 0) = Resized(type, Len(v))
      BY CutEnds
    <3> DEFINE got == ItemsTakes(type, <<>> \o R, Len(v))[0]
    <3>6. got = [cur |-> R, v |-> CutAfter(type, v, 0, 0), ok |-> put[0].ok]
      BY <3>1, <3>2, <3>3, <3>5, Zenon
    <3> HIDE DEF got
    <3>7. QED
      BY <3>4, <3>6 DEF got
  <2>3. ItemsRead(type, v, 0, put[0], <<>>)
    BY <2>2 DEF ItemsRead
  <2>4. QED
    BY <1>1, <2>1, <2>3
<1>4. ASSUME NEW i \in 1 .. n, i - 1 \in G PROVE i \in G
  <2>1. PICK p : Wrote(st, put[i - 1], p) /\ ItemsRead(type, v, i - 1, put[i - 1], p)
    BY <1>4
  <2>2. /\ p \in Seq(Byte) /\ put[i - 1] \in PackState
        /\ put[i] = PutItem(put[i - 1], type.of, v[i])
    BY <1>2, <2>1 DEF Wrote
  <2>3. PICK q : Wrote(put[i - 1], put[i], q) /\ ItemsRead(type, v, i, put[i], p \o q)
    BY <2>1, <2>2, ItemsReadNext
  <2>4. Wrote(st, put[i], p \o q)
    BY <2>1, <2>3, WroteBoth
  <2>5. i \in 0 .. n
    BY <1>1
  <2>6. QED
    BY <2>3, <2>4, <2>5
<1> HIDE DEF G, n
<1>5. n \in G
  <2>1. \A i \in 0 .. n : i \in G
    BY <1>1, <1>3, <1>4, Upward
  <2>2. QED
    BY <1>1, <2>1
<1>6. \E p : Wrote(st, put[n], p) /\ ItemsRead(type, v, n, put[n], p)
  BY <1>5 DEF G
<1>7. QED
  BY <1>6 DEF put, n

(* The items after a failure are not written.                               *)
LEMMA ItemsPut ==
  ASSUME NEW st \in PackState, NEW of \in Seq(Scalar), NEW v \in Seq(ItemsOf(of))
  PROVE  /\ ItemsPuts(st, of, v)[Len(v)] \in PackState
         /\ ~st.ok => ItemsPuts(st, of, v)[Len(v)] = st
<1> DEFINE n   == Len(v)
           put == ItemsPuts(st, of, v)
           G   == {i \in 0 .. n : put[i] = st}
<1>1. n \in Nat /\ \A i \in 1 .. n : v[i] \in ItemsOf(of)
  BY LenProperties
<1>2. /\ put \in [0 .. n -> PackState] /\ put[0] = st
      /\ \A i \in 1 .. n : put[i] = PutItem(put[i - 1], of, v[i])
  BY ItemsPutsSteps
<1> HIDE DEF n, put
<1>3. ASSUME ~st.ok PROVE put[n] = st
  <2>1. 0 \in G
    BY <1>1, <1>2
  <2>2. ASSUME NEW i \in 1 .. n, i - 1 \in G PROVE i \in G
    <3>1. put[i] = PutItem(st, of, v[i])
      BY <1>2, <2>2
    <3>2. put[i] = st
      BY <1>1, <1>3, <3>1, ItemPut
    <3>3. QED
      BY <3>2
  <2> HIDE DEF G
  <2>3. n \in Nat
    BY <1>1
  <2>4. \A i \in 0 .. n : i \in G
    BY <2>1, <2>2, <2>3, Upward
  <2>5. QED
    BY <2>3, <2>4 DEF G
<1>4. put[n] \in PackState
  BY <1>1, <1>2
<1>5. QED
  BY <1>3, <1>4 DEF put, n

ItemSizes(of, v) == [i \in DOMAIN v |-> ItemSize(of, v[i])]

(* The bytes the items of a value take.                                     *)
LEMMA ItemsFits ==
  ASSUME NEW st \in PackState, NEW of \in Seq(Scalar), NEW v \in Seq(ItemsOf(of))
  PROVE  /\ Total(ItemSizes(of, v)) \in Nat
         /\ /\ st.ok
            /\ v = <<>> \/ "enum" \notin Range(of)
            /\ Total(ItemSizes(of, v)) <= st.len
            => /\ ItemsPuts(st, of, v)[Len(v)].ok
               /\ ItemsPuts(st, of, v)[Len(v)].len = st.len - Total(ItemSizes(of, v))
<1> DEFINE n     == Len(v)
           put   == ItemsPuts(st, of, v)
           sizes == ItemSizes(of, v)
           sum   == Sums(sizes)
           G     == {i \in 0 .. n : put[i].ok /\ put[i].len = st.len - sum[i]}
<1>1. n \in Nat /\ DOMAIN v = 1 .. n /\ \A i \in 1 .. n : v[i] \in ItemsOf(of)
  BY LenProperties
<1>2. /\ put \in [0 .. n -> PackState] /\ put[0] = st
      /\ \A i \in 1 .. n : put[i] = PutItem(put[i - 1], of, v[i])
  BY ItemsPutsSteps
<1>3. \A i \in 1 .. n : sizes[i] = ItemSize(of, v[i])
  BY <1>1 DEF ItemSizes
<1>4. \A i \in 1 .. n : sizes[i] \in Nat
  BY <1>1, <1>3, ItemFits
<1>5. sizes \in [1 .. n -> Nat]
  BY <1>1, <1>4 DEF ItemSizes
<1>6. sizes \in Seq(Nat) /\ Len(sizes) = n
  BY <1>1, <1>5, SeqDef, LenProperties
<1>7. v = <<>> => n = 0
  BY EmptySeq
<1> HIDE DEF n, put, sizes
<1>8. /\ sum[0] = 0
      /\ \A i \in 1 .. n : sum[i] = sum[i - 1] + sizes[i]
  BY <1>6, SumsSteps
<1>9. /\ Total(sizes) \in Nat /\ Total(sizes) = sum[n]
      /\ \A i \in 0 .. n : sum[i] \in Nat /\ sum[i] <= Total(sizes)
  BY <1>6, SumsGrow DEF Total
<1> HIDE DEF sum
<1>10. ASSUME st.ok, v = <<>> \/ "enum" \notin Range(of), Total(sizes) <= st.len
       PROVE  put[n].ok /\ put[n].len = st.len - Total(sizes)
  <2>1. st.len \in Nat
    BY DEF PackState
  <2>2. 0 \in G
    BY <1>1, <1>2, <1>8, <1>10, <2>1
  <2>3. ASSUME NEW i \in 1 .. n, i - 1 \in G PROVE i \in G
    <3>1. put[i - 1].ok /\ put[i - 1].len = st.len - sum[i - 1]
      BY <2>3
    <3>2. "enum" \notin Range(of)
      BY <1>7, <1>10
    <3>3. i - 1 \in 0 .. n /\ i \in 0 .. n
      BY <1>1
    <3>4. put[i - 1] \in PackState
      BY <1>2, <3>3
    <3>5. /\ sum[i] = sum[i - 1] + sizes[i] /\ sizes[i] \in Nat
          /\ sum[i - 1] \in Nat /\ sum[i] <= st.len
      BY <1>4, <1>8, <1>9, <1>10, <2>1, <3>3
    <3>6. ItemSize(of, v[i]) <= put[i - 1].len
      BY <1>3, <2>1, <3>1, <3>5
    <3>7. put[i].ok /\ put[i].len = put[i - 1].len - sizes[i]
      BY <1>1, <1>2, <1>3, <3>1, <3>2, <3>4, <3>6, ItemFits
    <3>8. put[i].len = st.len - sum[i]
      BY <2>1, <3>1, <3>5, <3>7
    <3>9. QED
      BY <3>3, <3>7, <3>8
  <2> HIDE DEF G
  <2>4. n \in Nat
    BY <1>1
  <2>5. \A i \in 0 .. n : i \in G
    BY <2>2, <2>3, <2>4, Upward
  <2>6. QED
    BY <1>9, <2>4, <2>5 DEF G
<1>11. QED
  BY <1>9, <1>10 DEF put, n, sizes

(* The values of a type.                                                    *)
LEMMA ValueTyped ==
  ASSUME NEW type \in Type, NEW v \in ValuesOf(type)
  PROVE  /\ v \in Seq(ItemsOf(type.of)) /\ Len(v) \in Nat
         /\ IsMany(type) => HasWidth(Len(v), LenWidth)
         /\ ~IsMany(type) => Len(v) = 1
<1>1. PICK n \in (IF IsMany(type) THEN 0 .. MaxItems ELSE {1}) : v \in [1 .. n -> ItemsOf(type.of)]
  BY DEF ValuesOf
<1>2. MaxItems \in Nat
  BY PackAssumption
<1>3. n \in Nat
  BY <1>1, <1>2
<1>4. v \in Seq(ItemsOf(type.of)) /\ Len(v) = n
  BY <1>1, <1>3, SeqDef, LenProperties
<1>5. IsMany(type) => HasWidth(n, LenWidth)
  <2>1. \A m \in 0 .. MaxItems : HasWidth(m, LenWidth)
    BY PackAssumption
  <2>2. QED
    BY <1>1, <2>1
<1>6. QED
  BY <1>1, <1>3, <1>4, <1>5

(* What is read of a field, whatever bytes follow.                          *)
FieldRead(type, v, st2, bytes) ==
  \A R \in Seq(Byte) : Len(R) <= st2.len =>
    LET got == TakeField(type, bytes \o R)
    IN  got.cur = R /\ IsCut(type, v, got.v) /\ (st2.ok => got.v = v)

(* What all the items made of the value is what the field is.               *)
LEMMA AllItemsRead ==
  ASSUME NEW type \in Type, NEW v \in Seq(ItemsOf(type.of)), NEW st2 \in PackState,
         NEW bytes \in Seq(Byte), ItemsRead(type, v, Len(v), st2, bytes),
         NEW R \in Seq(Byte), Len(R) <= st2.len
  PROVE  LET got == ItemsTakes(type, bytes \o R, Len(v))[Len(v)]
         IN  got.cur = R /\ IsCut(type, v, got.v) /\ (st2.ok => got.v = v)
<1> DEFINE got == ItemsTakes(type, bytes \o R, Len(v))[Len(v)]
<1>1. /\ got.cur = R /\ got.ok = st2.ok
      /\ \E a \in 0 .. Len(v), b \in 0 .. Len(type.of) :
           got.v = CutAfter(type, v, a, b) /\ (got.ok => a = Len(v) /\ b = 0)
  BY DEF ItemsRead
<1> HIDE DEF got
<1>2. IsCut(type, v, got.v)
  BY <1>1 DEF IsCut
<1>3. st2.ok => got.v = v
  BY <1>1, CutEnds
<1>4. QED
  BY <1>1, <1>2, <1>3 DEF got

(* A field: it comes back whole or with its end lost.                       *)
LEMMA FieldSent ==
  ASSUME NEW st \in PackState, NEW type \in Type, NEW v \in ValuesOf(type)
  PROVE  \E bytes : /\ Wrote(st, PutField(st, type, v), bytes)
                    /\ FieldRead(type, v, PutField(st, type, v), bytes)
<1> DEFINE st0 == [st EXCEPT !.ok = TRUE]
           st2 == PutField(st, type, v)
<1>1. st0 \in PackState /\ st0.ok /\ st0.cur = st.cur /\ st0.len = st.len
  BY DEF PackState
<1>2. ASSUME NEW p, NEW s, Wrote(st0, s, p) PROVE Wrote(st, s, p)
  BY <1>1, <1>2 DEF Wrote
<1>3. /\ v \in Seq(ItemsOf(type.of)) /\ Len(v) \in Nat
      /\ IsMany(type) => HasWidth(Len(v), LenWidth)
      /\ ~IsMany(type) => Len(v) = 1
  BY ValueTyped
<1>4. type.of \in Seq(Scalar)
  BY DEF Type
<1>5. CASE ~IsMany(type)
  <2>1. st2 = ItemsPuts(st0, type.of, v)[Len(v)]
    BY <1>5 DEF PutField, Counted
  <2> HIDE DEF st0, st2
  <2>2. PICK p : Wrote(st0, st2, p) /\ ItemsRead(type, v, Len(v), st2, p)
    BY <1>1, <1>3, <2>1, ItemsSent
  <2>3. p \in Seq(Byte) /\ st2 \in PackState
    BY <2>2 DEF Wrote
  <2>4. ASSUME NEW R \in Seq(Byte), Len(R) <= st2.len
        PROVE  LET got == TakeField(type, p \o R)
               IN  got.cur = R /\ IsCut(type, v, got.v) /\ (st2.ok => got.v = v)
    <3>1. TakeField(type, p \o R) = ItemsTakes(type, p \o R, Len(v))[Len(v)]
      BY <1>3, <1>5 DEF TakeField
    <3>2. QED
      BY <1>3, <2>2, <2>3, <2>4, <3>1, AllItemsRead
  <2>5. FieldRead(type, v, st2, p)
    BY <2>4 DEF FieldRead
  <2>6. QED
    BY <1>2, <2>2, <2>5 DEF st2
<1>6. CASE IsMany(type)
  <2> DEFINE b   == ToBytes(Len(v), LenWidth)
             st1 == Put(st0, b)
  <2>1. st2 = ItemsPuts(st1, type.of, v)[Len(v)]
    BY <1>6 DEF PutField, Counted
  <2>2. b \in Seq(Byte) /\ Len(b) = LenWidth
    BY <1>3, Widths, BytesTyped
  <2>3. ASSUME NEW R \in Seq(Byte)
        PROVE  TakeNum(b \o R, LenWidth) = [cur |-> R, v |-> Len(v), ok |-> TRUE]
    BY <1>3, <1>6, Widths, TakeNumOf
  <2> HIDE DEF b, st0, st2
  <2>4. /\ st1 \in PackState
        /\ st1.ok <=> Len(b) <= st0.len
        /\ st1.ok => Wrote(st0, st1, b)
        /\ ~st1.ok => Wrote(st0, st1, <<>>)
    BY <1>1, <2>2, PutOne
  <2> HIDE DEF st1
  <2>5. CASE st1.ok
    <3>1. PICK q : Wrote(st1, st2, q) /\ ItemsRead(type, v, Len(v), st2, q)
      BY <1>3, <2>1, <2>4, <2>5, ItemsSent
    <3>2. q \in Seq(Byte) /\ st2 \in PackState /\ Wrote(st0, st2, b \o q)
      <4>1. q \in Seq(Byte) /\ st2 \in PackState
        BY <3>1 DEF Wrote
      <4>2. Wrote(st0, st2, b \o q)
        BY <1>1, <2>4, <2>5, <3>1, WroteBoth
      <4>3. QED
        BY <4>1, <4>2
    <3>3. ASSUME NEW R \in Seq(Byte), Len(R) <= st2.len
          PROVE  LET got == TakeField(type, (b \o q) \o R)
                 IN  got.cur = R /\ IsCut(type, v, got.v) /\ (st2.ok => got.v = v)
      <4>1. (b \o q) \o R = b \o (q \o R) /\ q \o R \in Seq(Byte)
        BY <2>2, <3>2, Associative, ConcatProperties
      <4>2. TakeNum(b \o (q \o R), LenWidth) = [cur |-> q \o R, v |-> Len(v), ok |-> TRUE]
        BY <2>3, <4>1
      <4>3. TakeField(type, b \o (q \o R)) = ItemsTakes(type, q \o R, Len(v))[Len(v)]
        BY <1>6, <4>2 DEF TakeField
      <4>4. QED
        BY <1>3, <3>1, <3>2, <3>3, <4>1, <4>3, AllItemsRead
    <3>4. FieldRead(type, v, st2, b \o q)
      BY <3>3 DEF FieldRead
    <3>5. QED
      BY <1>2, <3>2, <3>4 DEF st2
  <2>6. CASE ~st1.ok
    <3>1. st2 = st1
      BY <1>3, <1>4, <2>1, <2>4, <2>6, ItemsPut
    <3>2. Wrote(st0, st2, <<>>)
      BY <2>4, <2>6, <3>1
    <3>3. ASSUME NEW R \in Seq(Byte), Len(R) <= st2.len
          PROVE  LET got == TakeField(type, <<>> \o R)
                 IN  got.cur = R /\ IsCut(type, v, got.v) /\ (st2.ok => got.v = v)
      <4>1. <<>> \o R = R /\ Len(R) \in Nat
        BY ConcatEmptySeq, LenProperties
      <4>2. st2.len = st0.len /\ st0.len \in Nat
        BY <1>1, <3>2, EmptySeq DEF Wrote, PackState
      <4>3. Len(R) < LenWidth
        BY <2>2, <2>4, <2>6, <3>3, <4>1, <4>2, Widths
      <4>4. TakeNum(R, LenWidth).ok = FALSE
        BY <4>3, Widths, TakeNumShort
      <4>5. TakeField(type, R) = [cur |-> R, v |-> <<>>, ok |-> FALSE]
        BY <1>6, <4>4 DEF TakeField
      <4>6. IsCut(type, v, <<>>)
        BY <1>6 DEF IsCut, Default
      <4>7. QED
        BY <2>6, <3>1, <4>1, <4>5, <4>6
    <3>4. FieldRead(type, v, st2, <<>>)
      BY <3>3 DEF FieldRead
    <3>5. QED
      BY <1>2, <3>2, <3>4 DEF st2
  <2>7. QED
    BY <2>5, <2>6
<1>7. QED
  BY <1>5, <1>6

(* The bytes a field takes.                                                 *)
LEMMA FieldFits ==
  ASSUME NEW st \in PackState, NEW type \in Type, NEW v \in ValuesOf(type)
  PROVE  /\ FieldSize(type, v) \in Nat
         /\ HasPack(type, v) /\ FieldSize(type, v) <= st.len
            => /\ PutField(st, type, v).ok
               /\ PutField(st, type, v).len = st.len - FieldSize(type, v)
<1> DEFINE st0 == [st EXCEPT !.ok = TRUE]
           sum == Total(ItemSizes(type.of, v))
<1>1. st0 \in PackState /\ st0.ok /\ st0.len = st.len /\ st.len \in Nat
  BY DEF PackState
<1>2. v \in Seq(ItemsOf(type.of)) /\ Len(v) \in Nat /\ type.of \in Seq(Scalar)
  BY ValueTyped DEF Type
<1>3. FieldSize(type, v) = (IF IsMany(type) THEN LenWidth ELSE 0) + sum
  BY DEF FieldSize, ItemSizes
<1>4. sum \in Nat
  BY <1>1, <1>2, ItemsFits
<1>5. FieldSize(type, v) \in Nat
  BY <1>3, <1>4, Widths
<1>6. ASSUME HasPack(type, v), FieldSize(type, v) <= st.len
      PROVE  /\ PutField(st, type, v).ok
             /\ PutField(st, type, v).len = st.len - FieldSize(type, v)
  <2>1. v = <<>> \/ "enum" \notin Range(type.of)
    BY <1>6 DEF HasPack
  <2>2. CASE ~IsMany(type)
    <3>1. PutField(st, type, v) = ItemsPuts(st0, type.of, v)[Len(v)]
      BY <2>2 DEF PutField, Counted
    <3>2. sum <= st0.len /\ FieldSize(type, v) = sum
      BY <1>1, <1>3, <1>4, <1>6, <2>2
    <3> HIDE DEF st0
    <3>3. QED
      BY <1>1, <1>2, <2>1, <3>1, <3>2, ItemsFits
  <2>3. CASE IsMany(type)
    <3> DEFINE b   == ToBytes(Len(v), LenWidth)
               st1 == Put(st0, b)
    <3>1. PutField(st, type, v) = ItemsPuts(st1, type.of, v)[Len(v)]
      BY <2>3 DEF PutField, Counted
    <3>2. b \in Seq(Byte) /\ Len(b) = LenWidth
      BY <1>2, Widths, BytesTyped
    <3>3. FieldSize(type, v) = LenWidth + sum
      BY <1>3, <2>3
    <3> HIDE DEF st0, b, sum
    <3>4. Len(b) <= st0.len
      BY <1>1, <1>4, <1>6, <3>2, <3>3, Widths
    <3>5. st1.ok /\ st1 \in PackState /\ st1.len + Len(b) = st0.len
      BY <1>1, <3>2, <3>4, PutOne DEF Wrote
    <3>6. st1.len \in Nat
      BY <3>5 DEF PackState
    <3> HIDE DEF st1
    <3>7. sum <= st1.len /\ st1.len - sum = st.len - FieldSize(type, v)
      BY <1>1, <1>4, <1>6, <3>2, <3>3, <3>5, <3>6, Widths
    <3>8. QED
      BY <1>2, <2>1, <3>1, <3>5, <3>7, ItemsFits DEF sum
  <2>4. QED
    BY <2>2, <2>3
<1>7. QED
  BY <1>5, <1>6

-----------------------------------------------------------------------------
(* Objects.                                                                 *)

(* What PackAssumption says of one class.                                   *)
LEMMA TableTyped ==
  ASSUME NEW t \in Tables
  PROVE  /\ t.id \in Nat /\ HasWidth(t.id, 2)
         /\ t.types \in Seq(Type) /\ Len(t.types) \in Nat /\ Len(t.types) < 255
         /\ DOMAIN t.types = 1 .. Len(t.types)
         /\ \A i \in 1 .. Len(t.types) : t.types[i] \in Type
<1>1. /\ t.id \in Nat /\ HasWidth(t.id, 2)
      /\ t.types \in Seq(Type) /\ Len(t.types) < 255
  BY PackAssumption
<1>2. QED
  BY <1>1, LenProperties

(* An object has a value for each field of its class.                       *)
LEMMA ObjectTyped ==
  ASSUME NEW t \in Tables, NEW o \in Objects(t)
  PROVE  /\ o = [id |-> t.id, fields |-> o.fields]
         /\ o.id = t.id /\ DOMAIN o.fields = DOMAIN t.types
         /\ o.fields = [i \in DOMAIN t.types |-> o.fields[i]]
         /\ \A i \in 1 .. Len(t.types) : o.fields[i] \in ValuesOf(t.types[i])
<1> DEFINE sets == [i \in DOMAIN t.types |-> ValuesOf(t.types[i])]
<1>1. PICK w \in OneOfEach(sets) : o = [id |-> t.id, fields |-> w]
  BY DEF Objects
<1>2. DOMAIN sets = DOMAIN t.types /\ DOMAIN t.types = 1 .. Len(t.types)
  BY TableTyped
<1>3. \A i \in DOMAIN t.types : sets[i] = ValuesOf(t.types[i])
  OBVIOUS
<1> HIDE DEF sets
<1>4. w \in [DOMAIN t.types -> UNION Range(sets)] /\ \A i \in DOMAIN t.types : w[i] \in sets[i]
  BY <1>2 DEF OneOfEach
<1>5. o.fields = w
  BY <1>1
<1>6. w = [i \in DOMAIN t.types |-> w[i]]
  BY <1>4
<1>7. \A i \in 1 .. Len(t.types) : w[i] \in ValuesOf(t.types[i])
  BY <1>2, <1>3, <1>4
<1>8. o.id = t.id /\ DOMAIN o.fields = DOMAIN t.types
  BY <1>1, <1>4
<1>9. QED
  BY <1>1, <1>5, <1>6, <1>7, <1>8

(* SentAmong is what its recursive definition says.                         *)
LEMMA SentAmongSteps ==
  ASSUME NEW t \in Tables, NEW o
  PROVE  /\ SentAmong(t, o) \in [0 .. Len(t.types) -> Seq(1 .. Len(t.types))]
         /\ SentAmong(t, o)[0] = <<>>
         /\ \A i \in 1 .. Len(t.types) :
              SentAmong(t, o)[i] = IF IsSent(t, o, i) THEN Append(SentAmong(t, o)[i - 1], i) ELSE SentAmong(t, o)[i - 1]
<1> DEFINE n    == Len(t.types)
           S    == Seq(1 .. Len(t.types))
           base == <<>>
           step == [i \in 1 .. n |-> [s \in S |-> (IF IsSent(t, o, i) THEN Append(s, i) ELSE s)]]
           f    == SentAmong(t, o)
           G    == {i \in 0 .. n : f[i] \in S}
<1>1. n \in Nat /\ base \in S
  <2>1. Len(t.types) \in Nat
    BY TableTyped
  <2>2. <<>> \in Seq(1 .. Len(t.types))
    BY EmptySeq
  <2>3. QED
    BY <2>1, <2>2
<1>2. ASSUME NEW i \in 1 .. n, NEW s \in S
      PROVE  (IF IsSent(t, o, i) THEN Append(s, i) ELSE s) \in S
  <2>1. i \in 1 .. Len(t.types) /\ s \in Seq(1 .. Len(t.types))
    OBVIOUS
  <2>2. Append(s, i) \in Seq(1 .. Len(t.types))
    BY <2>1, AppendProperties
  <2>3. QED
    BY <2>1, <2>2
<1> HIDE DEF n, S, base
<1>3. \A i \in 1 .. n : \A s \in S :
        /\ step[i][s] = (IF IsSent(t, o, i) THEN Append(s, i) ELSE s)
        /\ step[i][s] \in S
  BY <1>2
<1> HIDE DEF step
<1>4. PICK g : Iterates(g, S, base, step, n)
  BY <1>1, <1>3, IterationExists
<1>5. g = [i \in 0 .. n |->
             IF i = 0 THEN base ELSE IF IsSent(t, o, i) THEN Append(g[i - 1], i) ELSE g[i - 1]]
  <2>1. g = [i \in 0 .. n |-> g[i]]
    BY <1>4 DEF Iterates
  <2>2. g[0] = base
    BY <1>4 DEF Iterates
  <2>3. ASSUME NEW i \in 1 .. n
        PROVE  g[i] = IF IsSent(t, o, i) THEN Append(g[i - 1], i) ELSE g[i - 1]
    <3>1. g[i - 1] \in S /\ g[i] = step[i][g[i - 1]]
      BY <1>4 DEF Iterates
    <3>2. QED
      BY <1>3, <3>1
  <2>4. ASSUME NEW i \in 0 .. n
        PROVE  g[i] = IF i = 0 THEN base ELSE IF IsSent(t, o, i) THEN Append(g[i - 1], i) ELSE g[i - 1]
    <3>1. i # 0 => i \in 1 .. n
      BY <1>1
    <3>2. QED
      BY <2>2, <2>3, <3>1, Zenon
  <2>5. QED
    BY <2>1, <2>4, Zenon
<1>6. f = [i \in 0 .. n |->
             IF i = 0 THEN base ELSE IF IsSent(t, o, i) THEN Append(f[i - 1], i) ELSE f[i - 1]]
  BY <1>5, Zenon DEF SentAmong, n, base
<1> HIDE DEF f
<1>7. /\ f[0] = base
      /\ \A i \in 1 .. n : f[i] = (IF IsSent(t, o, i) THEN Append(f[i - 1], i) ELSE f[i - 1])
  <2>1. n \in Nat
    BY <1>1
  <2>2. 0 \in 0 .. n /\ \A i \in 1 .. n : i \in 0 .. n /\ i # 0
    BY <2>1
  <2>3. QED
    BY <1>6, <2>2, Zenon
<1>8. 0 \in G /\ \A i \in 1 .. n : i - 1 \in G => i \in G
  BY <1>1, <1>2, <1>7
<1> HIDE DEF G
<1>9. \A i \in 0 .. n : i \in G
  BY <1>1, <1>8, Upward
<1>10. f \in [0 .. n -> S]
  BY <1>6, <1>9 DEF G
<1>11. QED
  BY <1>7, <1>10 DEF f, n, S, base

(* Some of the fields, and of the others the peer knows the value.          *)
LEMMA FieldIdxTyped ==
  ASSUME NEW t \in Tables, NEW o
  PROVE  LET idx == FieldIdx(t, o)
         IN  /\ idx \in Seq(1 .. Len(t.types)) /\ Len(idx) \in Nat
             /\ Len(idx) <= Len(t.types)
             /\ \A i \in 1 .. Len(t.types) :
                  IsSent(t, o, i) => \E m \in 1 .. Len(idx) : idx[m] = i
<1> DEFINE n == Len(t.types)
           f == SentAmong(t, o)
           Has(q, k) == /\ Len(q) <= k
                        /\ \A i \in 1 .. k : IsSent(t, o, i) => \E m \in 1 .. Len(q) : q[m] = i
           G == {k \in 0 .. n : Has(f[k], k)}
<1>1. n \in Nat
  BY TableTyped
<1>2. f \in [0 .. n -> Seq(1 .. n)]
  BY SentAmongSteps
<1>3. /\ f[0] = <<>>
      /\ \A i \in 1 .. n : f[i] = IF IsSent(t, o, i) THEN Append(f[i - 1], i) ELSE f[i - 1]
  BY SentAmongSteps
<1> HIDE DEF n, f
<1>4. 0 \in G
  BY <1>1, <1>3, EmptySeq
<1>5. ASSUME NEW k \in 1 .. n, k - 1 \in G PROVE k \in G
  <2> DEFINE p == f[k - 1]
             q == f[k]
  <2>1. p \in Seq(1 .. n) /\ Len(p) \in Nat
    BY <1>1, <1>2, k - 1 \in 0 .. n, LenProperties
  <2>2. Has(p, k - 1)
    BY <1>5
  <2>3. q = IF IsSent(t, o, k) THEN Append(p, k) ELSE p
    BY <1>3
  <2>4. /\ Len(Append(p, k)) = Len(p) + 1 /\ Append(p, k)[Len(p) + 1] = k
        /\ \A m \in 1 .. Len(p) : Append(p, k)[m] = p[m]
    BY <2>1, AppendProperties
  <2> HIDE DEF p, q
  <2>5. Len(q) <= k
    BY <1>1, <2>1, <2>2, <2>3, <2>4
  <2>6. ASSUME NEW i \in 1 .. k, IsSent(t, o, i)
        PROVE  \E m \in 1 .. Len(q) : q[m] = i
    <3>1. CASE i = k
      BY <2>1, <2>3, <2>4, <2>6, <3>1, Len(p) + 1 \in 1 .. Len(p) + 1
    <3>2. CASE i # k
      <4>1. i \in 1 .. k - 1
        BY <3>2
      <4>2. PICK m \in 1 .. Len(p) : p[m] = i
        BY <2>2, <2>6, <4>1
      <4>3. m \in 1 .. Len(p) + 1
        BY <2>1
      <4>4. m \in 1 .. Len(q) /\ q[m] = i
        BY <2>3, <2>4, <4>2, <4>3
      <4>5. QED
        BY <4>4
    <3>3. QED
      BY <3>1, <3>2
  <2>7. k \in 0 .. n
    BY <1>1
  <2>8. QED
    BY <2>5, <2>6, <2>7 DEF q
<1> HIDE DEF G
<1>6. \A k \in 0 .. n : k \in G
  BY <1>1, <1>4, <1>5, Upward
<1>7. n \in G /\ f[n] \in Seq(1 .. n) /\ Len(f[n]) \in Nat
  BY <1>1, <1>2, <1>6, n \in 0 .. n, LenProperties
<1>8. QED
  BY <1>7 DEF FieldIdx, G, n, f

(* The fields that are packed, in any order.                                *)
Idx(t) == {idx \in Seq(1 .. Len(t.types)) : Len(idx) <= Len(t.types)}

(* The places of the fields that are sent: fewer than 255, each a field.    *)
LEMMA IdxTyped ==
  ASSUME NEW t \in Tables, NEW idx \in Idx(t)
  PROVE  /\ Len(idx) \in 0 .. 254 /\ DOMAIN idx = 1 .. Len(idx)
         /\ \A m \in 1 .. Len(idx) : idx[m] \in 1 .. Len(t.types)
<1>1. Len(idx) <= Len(t.types) /\ idx \in Seq(1 .. Len(t.types))
  BY DEF Idx
<1>2. Len(idx) \in Nat /\ DOMAIN idx = 1 .. Len(idx) /\ \A m \in 1 .. Len(idx) : idx[m] \in 1 .. Len(t.types)
  BY <1>1, LenProperties
<1>3. Len(t.types) \in Nat /\ Len(t.types) < 255
  BY TableTyped
<1>4. Len(idx) \in 0 .. 254
  <2>1. Len(idx) \in Nat /\ Len(idx) <= Len(t.types)
    BY <1>1, <1>2
  <2>2. \A a, b \in Nat : a <= b /\ b < 255 => a \in 0 .. 254
    OBVIOUS
  <2>3. QED
    BY <1>3, <2>1, <2>2, Zenon
<1>5. QED
  BY <1>2, <1>4

(* Packing a field leaves bytes and room.                                   *)
LEMMA PutFieldTyped ==
  ASSUME NEW st \in PackState, NEW type \in Type, NEW v \in ValuesOf(type)
  PROVE  PutField(st, type, v) \in PackState
BY FieldSent DEF Wrote

(* Whatever the bytes are, what is read of them is a value and a rest.      *)
LEMMA TakeFieldTyped ==
  ASSUME NEW type \in Type, NEW cur \in Seq(Byte)
  PROVE  TakeField(type, cur) \in Taken(Value)
<1> DEFINE size == TakeNum(cur, LenWidth)
<1>1. size \in Taken(Nat)
  BY Widths, TakeNumTyped
<1> HIDE DEF size
<1>2. size.cur \in Seq(Byte) /\ size.v \in Nat
  BY <1>1 DEF Taken
<1>3. ASSUME NEW c \in Seq(Byte), NEW k \in Nat
      PROVE  ItemsTakes(type, c, k)[k] \in Taken(Value)
  <2>1. k \in 0 .. k
    OBVIOUS
  <2>2. ItemsTakes(type, c, k) \in [0 .. k -> Taken(Value)]
    BY ItemsTakesSteps
  <2>3. QED
    BY <2>1, <2>2
<1>4. [cur |-> cur, v |-> <<>>, ok |-> FALSE] \in Taken(Value)
  BY EmptySeq DEF Taken, Value
<1>5. QED
  BY <1>2, <1>3, <1>4 DEF TakeField, size

(* An object that is being unpacked.                                        *)
Reading(t) == [cur : Seq(Byte), fields : [DOMAIN t.types -> Value]]

(* The object of the factory.                                               *)
LEMMA DefaultsTyped ==
  ASSUME NEW t \in Tables
  PROVE  [i \in DOMAIN t.types |-> Default(t.types[i])] \in [DOMAIN t.types -> Value]
<1>1. ASSUME NEW i \in DOMAIN t.types PROVE Default(t.types[i]) \in Value
  <2>1. t.types[i].of \in Seq(Scalar)
    BY TableTyped DEF Type
  <2>2. ZeroItem(t.types[i].of) \in Item
    BY <2>1, ZeroItemTyped
  <2>3. QED
    BY <2>2, EmptySeq DEF Default, Value
<1>2. QED
  BY <1>1

(* Reading a field leaves an object and a rest.                             *)
LEMMA NextFieldTyped ==
  ASSUME NEW t \in Tables, NEW st \in Reading(t), NEW i \in 1 .. Len(t.types)
  PROVE  NextField(st, t, i) \in Reading(t)
<1> DEFINE got == TakeField(t.types[i], st.cur)
<1>1. t.types[i] \in Type /\ st.cur \in Seq(Byte) /\ st.fields \in [DOMAIN t.types -> Value]
  BY TableTyped DEF Reading
<1>2. got.cur \in Seq(Byte) /\ got.v \in Value
  BY <1>1, TakeFieldTyped DEF Taken
<1> HIDE DEF got
<1>3. [st.fields EXCEPT ![i] = got.v] \in [DOMAIN t.types -> Value]
  BY <1>1, <1>2
<1>4. QED
  BY <1>2, <1>3 DEF NextField, Reading, got

(* FieldsPuts is what its recursive definition says.                        *)
LEMMA FieldsPutsSteps ==
  ASSUME NEW st \in PackState, NEW t \in Tables, NEW o \in Objects(t), NEW idx \in Idx(t)
  PROVE  /\ FieldsPuts(st, t, o, idx) \in [0 .. Len(idx) -> PackState]
         /\ FieldsPuts(st, t, o, idx)[0] = st
         /\ \A m \in 1 .. Len(idx) :
              FieldsPuts(st, t, o, idx)[m] = PutField(FieldsPuts(st, t, o, idx)[m - 1], t.types[idx[m]], o.fields[idx[m]])
<1> DEFINE n    == Len(idx)
           S    == PackState
           base == st
           step == [m \in 1 .. n |-> [s \in S |-> PutField(s, t.types[idx[m]], o.fields[idx[m]])]]
           f    == FieldsPuts(st, t, o, idx)
           G    == {m \in 0 .. n : f[m] \in S}
<1>1. n \in Nat /\ base \in S
  <2>1. Len(idx) \in 0 .. 254
    BY IdxTyped
  <2>2. QED
    BY <2>1
<1>2. ASSUME NEW m \in 1 .. n, NEW s \in S
      PROVE  PutField(s, t.types[idx[m]], o.fields[idx[m]]) \in S
  <2>1. idx[m] \in 1 .. Len(t.types)
    BY IdxTyped
  <2>2. t.types[idx[m]] \in Type /\ o.fields[idx[m]] \in ValuesOf(t.types[idx[m]])
    BY <2>1, TableTyped, ObjectTyped
  <2>3. QED
    BY <2>2, PutFieldTyped
<1> HIDE DEF n, S, base
<1>3. \A m \in 1 .. n : \A s \in S :
        /\ step[m][s] = PutField(s, t.types[idx[m]], o.fields[idx[m]])
        /\ step[m][s] \in S
  BY <1>2
<1> HIDE DEF step
<1>4. PICK g : Iterates(g, S, base, step, n)
  BY <1>1, <1>3, IterationExists
<1>5. g = [m \in 0 .. n |->
             IF m = 0 THEN base ELSE PutField(g[m - 1], t.types[idx[m]], o.fields[idx[m]])]
  <2>1. g = [m \in 0 .. n |-> g[m]]
    BY <1>4 DEF Iterates
  <2>2. g[0] = base
    BY <1>4 DEF Iterates
  <2>3. ASSUME NEW m \in 1 .. n
        PROVE  g[m] = PutField(g[m - 1], t.types[idx[m]], o.fields[idx[m]])
    <3>1. g[m - 1] \in S /\ g[m] = step[m][g[m - 1]]
      BY <1>4 DEF Iterates
    <3>2. QED
      BY <1>3, <3>1
  <2>4. ASSUME NEW m \in 0 .. n
        PROVE  g[m] = IF m = 0 THEN base ELSE PutField(g[m - 1], t.types[idx[m]], o.fields[idx[m]])
    <3>1. m # 0 => m \in 1 .. n
      BY <1>1
    <3>2. QED
      BY <2>2, <2>3, <3>1, Zenon
  <2>5. QED
    BY <2>1, <2>4, Zenon
<1>6. f = [m \in 0 .. n |->
             IF m = 0 THEN base ELSE PutField(f[m - 1], t.types[idx[m]], o.fields[idx[m]])]
  BY <1>5, Zenon DEF FieldsPuts, n, base
<1> HIDE DEF f
<1>7. /\ f[0] = base
      /\ \A m \in 1 .. n : f[m] = PutField(f[m - 1], t.types[idx[m]], o.fields[idx[m]])
  BY <1>1, <1>6
<1>8. 0 \in G /\ \A m \in 1 .. n : m - 1 \in G => m \in G
  BY <1>1, <1>2, <1>7
<1> HIDE DEF G
<1>9. \A m \in 0 .. n : m \in G
  BY <1>1, <1>8, Upward
<1>10. f \in [0 .. n -> S]
  BY <1>6, <1>9 DEF G
<1>11. QED
  BY <1>7, <1>10 DEF f, n, S, base

(* FieldsTakes is what its recursive definition says.                       *)
LEMMA FieldsTakesSteps ==
  ASSUME NEW t \in Tables, NEW idx \in Idx(t), NEW cur \in Seq(Byte)
  PROVE  /\ FieldsTakes(t, idx, cur) \in [0 .. Len(idx) -> Reading(t)]
         /\ FieldsTakes(t, idx, cur)[0] = [cur |-> cur, fields |-> [i \in DOMAIN t.types |-> Default(t.types[i])]]
         /\ \A m \in 1 .. Len(idx) :
              FieldsTakes(t, idx, cur)[m] = NextField(FieldsTakes(t, idx, cur)[m - 1], t, idx[m])
<1> DEFINE n    == Len(idx)
           S    == Reading(t)
           base == [cur |-> cur, fields |-> [i \in DOMAIN t.types |-> Default(t.types[i])]]
           step == [m \in 1 .. n |-> [s \in S |-> NextField(s, t, idx[m])]]
           f    == FieldsTakes(t, idx, cur)
           G    == {m \in 0 .. n : f[m] \in S}
<1>1. n \in Nat /\ base \in S
  <2>1. Len(idx) \in 0 .. 254
    BY IdxTyped, Zenon
  <2>2. base \in S
    BY DefaultsTyped DEF Reading
  <2>3. \A k \in 0 .. 254 : k \in Nat
    OBVIOUS
  <2>4. QED
    BY <2>1, <2>2, <2>3, Zenon
<1>2. ASSUME NEW m \in 1 .. n, NEW s \in S
      PROVE  NextField(s, t, idx[m]) \in S
  BY IdxTyped, NextFieldTyped
<1> HIDE DEF n, S, base
<1>3. \A m \in 1 .. n : \A s \in S :
        /\ step[m][s] = NextField(s, t, idx[m])
        /\ step[m][s] \in S
  BY <1>2
<1> HIDE DEF step
<1>4. PICK g : Iterates(g, S, base, step, n)
  BY <1>1, <1>3, IterationExists
<1>5. g = [m \in 0 .. n |->
             IF m = 0 THEN base ELSE NextField(g[m - 1], t, idx[m])]
  <2>1. g = [m \in 0 .. n |-> g[m]]
    BY <1>4 DEF Iterates
  <2>2. g[0] = base
    BY <1>4 DEF Iterates
  <2>3. ASSUME NEW m \in 1 .. n
        PROVE  g[m] = NextField(g[m - 1], t, idx[m])
    <3>1. g[m - 1] \in S /\ g[m] = step[m][g[m - 1]]
      BY <1>4 DEF Iterates
    <3>2. QED
      BY <1>3, <3>1
  <2>4. ASSUME NEW m \in 0 .. n
        PROVE  g[m] = IF m = 0 THEN base ELSE NextField(g[m - 1], t, idx[m])
    <3>1. m # 0 => m \in 1 .. n
      BY <1>1
    <3>2. QED
      BY <2>2, <2>3, <3>1, Zenon
  <2>5. QED
    BY <2>1, <2>4, Zenon
<1>6. f = [m \in 0 .. n |->
             IF m = 0 THEN base ELSE NextField(f[m - 1], t, idx[m])]
  BY <1>5, Zenon DEF FieldsTakes, n, base
<1> HIDE DEF f
<1>7. /\ f[0] = base
      /\ \A m \in 1 .. n : f[m] = NextField(f[m - 1], t, idx[m])
  BY <1>1, <1>6
<1>8. 0 \in G /\ \A m \in 1 .. n : m - 1 \in G => m \in G
  BY <1>1, <1>2, <1>7
<1> HIDE DEF G
<1>9. \A m \in 0 .. n : m \in G
  BY <1>1, <1>8, Upward
<1>10. f \in [0 .. n -> S]
  BY <1>6, <1>9 DEF G
<1>11. QED
  BY <1>7, <1>10 DEF f, n, S, base

(* What is read of an object after m of the fields that were sent, whatever *)
(* bytes follow; whole: none of the fields was cut.                         *)
FieldsRead(t, o, idx, m, whole, st2, bytes) ==
  \A R \in Seq(Byte) : Len(R) <= st2.len =>
    LET got == FieldsTakes(t, idx, bytes \o R)[m]
    IN  /\ got.cur = R
        /\ \A i \in 1 .. Len(t.types) : IsCut(t.types[i], o.fields[i], got.fields[i])
        /\ whole => \A i \in 1 .. Len(t.types) :
                      got.fields[i] = IF \E k \in 1 .. m : idx[k] = i THEN o.fields[i]
                                      ELSE Default(t.types[i])

(* One field more.                                                          *)
LEMMA FieldsReadNext ==
  ASSUME NEW t \in Tables, NEW o \in Objects(t), NEW idx \in Idx(t),
         NEW m \in 1 .. Len(idx), NEW whole, NEW st \in PackState,
         NEW st2, st2 = PutField(st, t.types[idx[m]], o.fields[idx[m]]),
         whole => st2.ok,
         NEW p \in Seq(Byte), FieldsRead(t, o, idx, m - 1, whole, st, p)
  PROVE  \E q : Wrote(st, st2, q) /\ FieldsRead(t, o, idx, m, whole, st2, p \o q)
<1> DEFINE j    == idx[m]
           type == t.types[j]
           v    == o.fields[j]
<1>1. j \in 1 .. Len(t.types) /\ m - 1 \in 0 .. Len(idx) /\ m \in 0 .. Len(idx)
  <2> HIDE DEF j
  <2>1. Len(idx) \in 0 .. 254 /\ idx[m] \in 1 .. Len(t.types)
    BY IdxTyped, ZenonT(60)
  <2>2. \A a, b : b \in 0 .. 254 /\ a \in 1 .. b => a - 1 \in 0 .. b /\ a \in 0 .. b
    OBVIOUS
  <2>3. QED
    BY <2>1, <2>2, Zenon DEF j
<1>2. type \in Type /\ v \in ValuesOf(type)
  BY <1>1, TableTyped, ObjectTyped
<1>3. PICK q : Wrote(st, st2, q) /\ FieldRead(type, v, st2, q)
  BY <1>2, FieldSent
<1>4. q \in Seq(Byte) /\ st2 \in PackState /\ st2.len + Len(q) = st.len
  BY <1>3 DEF Wrote
<1>5. st2.len \in Nat /\ Len(q) \in Nat
  BY <1>4, LenProperties DEF PackState
<1>6. \A k \in 1 .. m : k = m \/ k \in 1 .. m - 1
  OBVIOUS
<1>7. \A k \in 1 .. m - 1 : k \in 1 .. m
  OBVIOUS
<1>8. m \in 1 .. m
  OBVIOUS
<1> HIDE DEF type, v, j
<1>9. ASSUME NEW R \in Seq(Byte), Len(R) <= st2.len
      PROVE  LET got == FieldsTakes(t, idx, (p \o q) \o R)[m]
             IN  /\ got.cur = R
                 /\ \A i \in 1 .. Len(t.types) : IsCut(t.types[i], o.fields[i], got.fields[i])
                 /\ whole => \A i \in 1 .. Len(t.types) :
                      got.fields[i] = IF \E k \in 1 .. m : idx[k] = i THEN o.fields[i]
                                      ELSE Default(t.types[i])
  <2>1. /\ (p \o q) \o R = p \o (q \o R) /\ q \o R \in Seq(Byte)
        /\ p \o (q \o R) \in Seq(Byte)
        /\ Len(q \o R) = Len(q) + Len(R) /\ Len(R) \in Nat
    <3>1. q \o R \in Seq(Byte) /\ Len(q \o R) = Len(q) + Len(R) /\ Len(R) \in Nat
      BY <1>4, ConcatProperties, LenProperties
    <3>2. p \o (q \o R) \in Seq(Byte)
      BY <3>1, ConcatProperties
    <3>3. (p \o q) \o R = p \o (q \o R)
      BY <1>4, Associative
    <3>4. QED
      BY <3>1, <3>2, <3>3
  <2>2. Len(q \o R) <= st.len
    BY <1>4, <1>5, <1>9, <2>1
  <2> DEFINE was == FieldsTakes(t, idx, p \o (q \o R))[m - 1]
             one == TakeField(type, q \o R)
             got == FieldsTakes(t, idx, p \o (q \o R))[m]
  <2>3. /\ was.cur = q \o R
        /\ \A i \in 1 .. Len(t.types) : IsCut(t.types[i], o.fields[i], was.fields[i])
        /\ whole => \A i \in 1 .. Len(t.types) :
             was.fields[i] = IF \E k \in 1 .. m - 1 : idx[k] = i THEN o.fields[i]
                             ELSE Default(t.types[i])
    BY <2>1, <2>2 DEF FieldsRead
  <2>4. one.cur = R /\ IsCut(type, v, one.v) /\ (st2.ok => one.v = v)
    BY <1>3, <1>9 DEF FieldRead
  <2>5. got = NextField(was, t, idx[m])
    BY <2>1, FieldsTakesSteps
  <2>6. was \in Reading(t)
    <3>1. FieldsTakes(t, idx, p \o (q \o R)) \in [0 .. Len(idx) -> Reading(t)]
      BY <2>1, FieldsTakesSteps
    <3>2. QED
      BY <1>1, <3>1
  <2> HIDE DEF was, got
  <2>7. got = [cur |-> one.cur, fields |-> [was.fields EXCEPT ![j] = one.v]]
    BY <2>3, <2>5 DEF NextField, j, type
  <2> HIDE DEF one
  <2>8. was.fields \in [DOMAIN t.types -> Value] /\ DOMAIN t.types = 1 .. Len(t.types)
    BY <2>6, TableTyped DEF Reading
  <2>9. ASSUME NEW i \in 1 .. Len(t.types)
        PROVE  got.fields[i] = IF i = j THEN one.v ELSE was.fields[i]
    BY <2>7, <2>8
  <2>10. ASSUME NEW i \in 1 .. Len(t.types)
         PROVE  IsCut(t.types[i], o.fields[i], got.fields[i])
    <3>1. CASE i = j
      BY <2>4, <2>9, <3>1 DEF type, v
    <3>2. CASE i # j
      BY <2>3, <2>9, <3>2
    <3>3. QED
      BY <3>1, <3>2
  <2>11. ASSUME whole, NEW i \in 1 .. Len(t.types)
         PROVE  got.fields[i] = IF \E k \in 1 .. m : idx[k] = i THEN o.fields[i]
                                ELSE Default(t.types[i])
    <3>1. CASE i = j
      <4>1. \E k \in 1 .. m : idx[k] = i
        BY <1>8, <3>1 DEF j
      <4>2. got.fields[i] = o.fields[i]
        BY <2>4, <2>9, <2>11, <3>1 DEF v
      <4>3. QED
        BY <4>1, <4>2
    <3>2. CASE i # j
      <4>1. (\E k \in 1 .. m : idx[k] = i) <=> (\E k \in 1 .. m - 1 : idx[k] = i)
        BY <1>6, <1>7, <3>2 DEF j
      <4>2. got.fields[i] = was.fields[i]
        BY <2>9, <3>2
      <4>3. was.fields[i] = IF \E k \in 1 .. m - 1 : idx[k] = i THEN o.fields[i]
                            ELSE Default(t.types[i])
        BY <2>3, <2>11
      <4>4. QED
        BY <4>1, <4>2, <4>3
    <3>3. QED
      BY <3>1, <3>2
  <2>12. QED
    BY <2>1, <2>4, <2>7, <2>10, <2>11 DEF got
<1>10. FieldsRead(t, o, idx, m, whole, st2, p \o q)
  BY <1>9 DEF FieldsRead
<1>11. QED
  BY <1>3, <1>10

(* All the fields that were sent.                                           *)
LEMMA FieldsSent ==
  ASSUME NEW t \in Tables, NEW o \in Objects(t), NEW idx \in Idx(t),
         NEW whole, NEW st \in PackState,
         whole => \A m \in 1 .. Len(idx) : FieldsPuts(st, t, o, idx)[m].ok
  PROVE  LET st2 == FieldsPuts(st, t, o, idx)[Len(idx)]
         IN  \E bytes : /\ Wrote(st, st2, bytes)
                        /\ FieldsRead(t, o, idx, Len(idx), whole, st2, bytes)
<1> DEFINE n   == Len(idx)
           put == FieldsPuts(st, t, o, idx)
           G   == {m \in 0 .. n : \E p : /\ Wrote(st, put[m], p)
                                         /\ FieldsRead(t, o, idx, m, whole, put[m], p)}
<1>1. n \in Nat
  BY IdxTyped, SMTT(60)
<1>2. /\ put \in [0 .. n -> PackState] /\ put[0] = st
      /\ \A m \in 1 .. n : put[m] = PutField(put[m - 1], t.types[idx[m]], o.fields[idx[m]])
  BY FieldsPutsSteps
<1>3. whole => \A m \in 1 .. n : put[m].ok
  OBVIOUS
<1> HIDE DEF put
<1>4. 0 \in G
  <2>1. Wrote(st, put[0], <<>>)
    BY <1>2, WroteNothing
  <2>2. ASSUME NEW R \in Seq(Byte)
        PROVE  LET got == FieldsTakes(t, idx, <<>> \o R)[0]
               IN  /\ got.cur = R
                   /\ \A i \in 1 .. Len(t.types) : got.fields[i] = Default(t.types[i])
    <3>1. <<>> \o R = R
      BY ConcatEmptySeq
    <3>2. FieldsTakes(t, idx, R)[0]
            = [cur |-> R, fields |-> [i \in DOMAIN t.types |-> Default(t.types[i])]]
      BY FieldsTakesSteps
    <3>3. DOMAIN t.types = 1 .. Len(t.types)
      BY TableTyped
    <3>4. QED
      BY <3>1, <3>2, <3>3
  <2>3. \A i \in 1 .. Len(t.types) : IsCut(t.types[i], o.fields[i], Default(t.types[i]))
    BY DEF IsCut
  <2>4. ~ \E k \in 1 .. 0 : TRUE
    OBVIOUS
  <2>5. FieldsRead(t, o, idx, 0, whole, put[0], <<>>)
    BY <2>2, <2>3, <2>4 DEF FieldsRead
  <2>6. QED
    BY <1>1, <2>1, <2>5
<1>5. ASSUME NEW m \in 1 .. n, m - 1 \in G PROVE m \in G
  <2>1. PICK p : Wrote(st, put[m - 1], p) /\ FieldsRead(t, o, idx, m - 1, whole, put[m - 1], p)
    BY <1>5
  <2>2. /\ p \in Seq(Byte) /\ put[m - 1] \in PackState
        /\ put[m] = PutField(put[m - 1], t.types[idx[m]], o.fields[idx[m]])
    BY <1>2, <2>1 DEF Wrote
  <2>3. whole => put[m].ok
    BY <1>3
  <2>4. PICK q : /\ Wrote(put[m - 1], put[m], q)
                 /\ FieldsRead(t, o, idx, m, whole, put[m], p \o q)
    BY <2>1, <2>2, <2>3, FieldsReadNext
  <2>5. Wrote(st, put[m], p \o q)
    BY <2>1, <2>4, WroteBoth
  <2>6. m \in 0 .. n
    BY <1>1
  <2>7. QED
    BY <2>4, <2>5, <2>6
<1> HIDE DEF G, n
<1>6. n \in G
  <2>1. \A m \in 0 .. n : m \in G
    BY <1>1, <1>4, <1>5, Upward
  <2>2. QED
    BY <1>1, <2>1
<1>7. \E p : Wrote(st, put[n], p) /\ FieldsRead(t, o, idx, n, whole, put[n], p)
  BY <1>6 DEF G
<1>8. QED
  BY <1>7 DEF put, n

AllHavePack(t, o) == \A i \in DOMAIN t.types : HasPack(t.types[i], o.fields[i])

FieldSizes(t, o, idx) == [m \in DOMAIN idx |-> FieldSize(t.types[idx[m]], o.fields[idx[m]])]

(* The bytes the fields take.                                               *)
LEMMA FieldsFits ==
  ASSUME NEW t \in Tables, NEW o \in Objects(t), NEW idx \in Idx(t), NEW st \in PackState
  PROVE  LET put == FieldsPuts(st, t, o, idx)
             sum == Total(FieldSizes(t, o, idx))
         IN  /\ sum \in Nat
             /\ AllHavePack(t, o) /\ sum <= st.len
                => /\ \A m \in 1 .. Len(idx) : put[m].ok
                   /\ put[Len(idx)].len = st.len - sum
<1> DEFINE n     == Len(idx)
           put   == FieldsPuts(st, t, o, idx)
           sizes == FieldSizes(t, o, idx)
           sum   == Sums(sizes)
           G     == {m \in 0 .. n : (m # 0 => put[m].ok) /\ put[m].len = st.len - sum[m]}
           type(m) == t.types[idx[m]]
           v(m)  == o.fields[idx[m]]
<1>1. n \in Nat /\ DOMAIN idx = 1 .. n
  BY IdxTyped
<1>2. /\ put \in [0 .. n -> PackState] /\ put[0] = st
      /\ \A m \in 1 .. n : put[m] = PutField(put[m - 1], type(m), v(m))
  BY FieldsPutsSteps
<1>3. ASSUME NEW m \in 1 .. n
      PROVE  type(m) \in Type /\ v(m) \in ValuesOf(type(m)) /\ idx[m] \in DOMAIN t.types
  <2>1. idx[m] \in 1 .. Len(t.types)
    BY IdxTyped
  <2>2. QED
    BY <2>1, TableTyped, ObjectTyped
<1>4. \A m \in 1 .. n : sizes[m] = FieldSize(type(m), v(m))
  BY <1>1 DEF FieldSizes
<1>5. \A m \in 1 .. n : sizes[m] \in Nat
  BY <1>3, <1>4, FieldFits
<1>6. sizes \in [1 .. n -> Nat]
  BY <1>1, <1>5 DEF FieldSizes
<1>7. sizes \in Seq(Nat) /\ Len(sizes) = n
  BY <1>1, <1>6, SeqDef, LenProperties
<1> HIDE DEF n, put, sizes
<1>8. /\ sum[0] = 0
      /\ \A m \in 1 .. n : sum[m] = sum[m - 1] + sizes[m]
  BY <1>7, SumsSteps
<1>9. /\ Total(sizes) \in Nat /\ Total(sizes) = sum[n]
      /\ \A m \in 0 .. n : sum[m] \in Nat /\ sum[m] <= Total(sizes)
  BY <1>7, SumsGrow DEF Total
<1> HIDE DEF sum
<1>10. ASSUME AllHavePack(t, o), Total(sizes) <= st.len
       PROVE  (\A m \in 1 .. n : put[m].ok) /\ put[n].len = st.len - Total(sizes)
  <2>1. st.len \in Nat
    BY DEF PackState
  <2>2. 0 \in G
    BY <1>1, <1>2, <1>8, <2>1
  <2>3. ASSUME NEW m \in 1 .. n, m - 1 \in G PROVE m \in G
    <3>1. put[m - 1].len = st.len - sum[m - 1]
      BY <2>3
    <3>2. HasPack(type(m), v(m)) /\ type(m) \in Type /\ v(m) \in ValuesOf(type(m))
      BY <1>3, <1>10 DEF AllHavePack
    <3>3. m - 1 \in 0 .. n /\ m \in 0 .. n
      BY <1>1
    <3>4. put[m - 1] \in PackState
      BY <1>2, <3>3
    <3>5. /\ sum[m] = sum[m - 1] + sizes[m] /\ sizes[m] \in Nat
          /\ sum[m - 1] \in Nat /\ sum[m] <= st.len
      BY <1>5, <1>8, <1>9, <1>10, <2>1, <3>3
    <3>6. FieldSize(type(m), v(m)) <= put[m - 1].len
      BY <1>4, <2>1, <3>1, <3>5
    <3>7. put[m].ok /\ put[m].len = put[m - 1].len - sizes[m]
      BY <1>2, <1>4, <3>2, <3>4, <3>6, FieldFits
    <3>8. put[m].len = st.len - sum[m]
      BY <2>1, <3>1, <3>5, <3>7
    <3>9. QED
      BY <3>3, <3>7, <3>8
  <2> HIDE DEF G
  <2>4. n \in Nat
    BY <1>1
  <2>5. \A m \in 0 .. n : m \in G
    BY <2>2, <2>3, <2>4, Upward
  <2>6. \A m \in 1 .. n : put[m].ok
    BY <2>4, <2>5 DEF G
  <2>7. put[n].len = st.len - sum[n]
    BY <2>4, <2>5 DEF G
  <2>8. QED
    BY <1>9, <2>6, <2>7
<1>11. QED
  BY <1>9, <1>10 DEF put, n, sizes

(* What is in front, and what is behind it.                                 *)
LEMMA FrontAndRest ==
  ASSUME NEW a \in Seq(Byte), NEW R \in Seq(Byte)
  PROVE  /\ SubSeq(a \o R, 1, Len(a)) = a
         /\ SubSeq(a \o R, Len(a) + 1, Len(a \o R)) = R
<1> DEFINE c == a \o R
<1>1. Len(a) <= Len(c)
  BY ConcatProperties, LenProperties
<1>2. TakeBytes(c, Len(a)) = [cur |-> R, v |-> a, ok |-> TRUE]
  BY TakeBytesOf
<1> HIDE DEF c
<1>3. TakeBytes(c, Len(a)) = [cur |-> SubSeq(c, Len(a) + 1, Len(c)),
                              v |-> SubSeq(c, 1, Len(a)), ok |-> TRUE]
  BY <1>1 DEF TakeBytes
<1>4. QED
  BY <1>2, <1>3 DEF c

(* The header and whatever comes after it.                                  *)
LEMMA HeaderRead ==
  ASSUME NEW t \in Tables, NEW idx \in Idx(t), NEW X \in Seq(Byte)
  PROVE  LET head == Header(t, idx)
             w    == head \o X
         IN  /\ head \in Seq(Byte) /\ Len(head) = 3 + Len(idx)
             /\ FromBytes(SubSeq(w, 1, 2)) = t.id
             /\ w[3] = Len(idx)
             /\ [i \in 1 .. Len(idx) |-> w[3 + i] + 1] = idx
             /\ SubSeq(w, 4 + Len(idx), Len(w)) = X
<1> DEFINE n == Len(idx)
           a == ToBytes(t.id, 2)
           b == <<n>>
           c == [m \in DOMAIN idx |-> idx[m] - 1]
           head == Header(t, idx)
           w == head \o X
<1>1. n \in Nat /\ n \in Byte /\ DOMAIN idx = 1 .. n
  <2>1. n \in 0 .. 254 /\ DOMAIN idx = 1 .. n
    BY IdxTyped
  <2>2. \A k \in 0 .. 254 : k \in Nat /\ k \in Byte
    BY DEF Byte
  <2>3. QED
    BY <2>1, <2>2, Zenon
<1>2. \A m \in 1 .. n : idx[m] \in Nat /\ idx[m] - 1 \in Byte
  <2>1. Len(t.types) \in Nat /\ Len(t.types) < 255
    BY TableTyped
  <2>2. \A m \in 1 .. n : idx[m] \in 1 .. Len(t.types)
    BY IdxTyped
  <2>3. \A k \in 1 .. Len(t.types) : k \in Nat /\ k - 1 \in Byte
    BY <2>1 DEF Byte
  <2>4. QED
    BY <2>2, <2>3
<1>3. a \in Seq(Byte) /\ Len(a) = 2 /\ FromBytes(a) = t.id
  <2>1. t.id \in Nat /\ HasWidth(t.id, 2) /\ 2 \in Nat
    BY TableTyped
  <2>2. QED
    BY <2>1, BytesTyped, NumberBack
<1>4. b \in Seq(Byte) /\ Len(b) = 1 /\ b[1] = n
  BY <1>1
<1>5. /\ c \in Seq(Byte) /\ Len(c) = n
      /\ \A m \in 1 .. n : c[m] = idx[m] - 1
  <2>1. c \in [1 .. n -> Byte] /\ \A m \in 1 .. n : c[m] = idx[m] - 1
    BY <1>1, <1>2
  <2> HIDE DEF c
  <2>2. QED
    BY <1>1, <2>1, SeqDef, LenProperties
<1>6. head = (a \o b) \o c
  BY DEF Header
<1>7. idx = [i \in 1 .. n |-> idx[i]]
  BY <1>1, LenProperties DEF Idx
<1> HIDE DEF n, a, b, c, head
<1>8. /\ a \o b \in Seq(Byte) /\ Len(a \o b) = 3 /\ (a \o b)[3] = n
  <2>1. a \in Seq(Byte) /\ b \in Seq(Byte)
    BY <1>3, <1>4
  <2>2. Len(a) = 2 /\ Len(b) = 1
    BY <1>3, <1>4
  <2>3. /\ a \o b \in Seq(Byte) /\ Len(a \o b) = Len(a) + Len(b)
        /\ \A i \in 1 .. Len(a) + Len(b) :
             (a \o b)[i] = IF i <= Len(a) THEN a[i] ELSE b[i - Len(a)]
    BY <2>1, ConcatProperties
  <2>4. Len(a \o b) = 3 /\ (a \o b)[3] = b[1]
    BY <2>2, <2>3
  <2>5. QED
    BY <1>4, <2>3, <2>4
<1>9. /\ head \in Seq(Byte) /\ Len(head) = 3 + n /\ head[3] = n
      /\ \A m \in 1 .. n : head[3 + m] = idx[m] - 1
  <2>1. /\ head \in Seq(Byte) /\ Len(head) = 3 + n
        /\ \A i \in 1 .. 3 + n : head[i] = IF i <= 3 THEN (a \o b)[i] ELSE c[i - 3]
    BY <1>5, <1>6, <1>8, ConcatProperties, SMTT(60)
  <2>2. head[3] = n
    BY <1>1, <1>8, <2>1
  <2>3. ASSUME NEW m \in 1 .. n PROVE head[3 + m] = idx[m] - 1
    <3>1. 3 + m \in 1 .. 3 + n /\ ~(3 + m <= 3) /\ (3 + m) - 3 = m
      BY <1>1
    <3>2. QED
      BY <1>5, <2>1, <3>1
  <2>4. QED
    BY <2>1, <2>2, <2>3
<1>10. \A i \in 1 .. 3 + n : w[i] = head[i]
  BY <1>1, <1>9, ConcatProperties
<1>11. w[3] = n
  BY <1>1, <1>9, <1>10
<1>12. [i \in 1 .. n |-> w[3 + i] + 1] = idx
  <2>1. ASSUME NEW i \in 1 .. n PROVE w[3 + i] + 1 = idx[i]
    <3>1. 3 + i \in 1 .. 3 + n
      BY <1>1
    <3>2. w[3 + i] = idx[i] - 1
      BY <1>9, <1>10, <3>1
    <3>3. QED
      BY <1>2, <3>2
  <2>2. QED
    BY <1>7, <2>1
<1>13. SubSeq(w, 4 + n, Len(w)) = X
  <2>1. 4 + n = (3 + n) + 1
    BY <1>1
  <2>2. QED
    BY <1>9, <2>1, FrontAndRest
<1>14. FromBytes(SubSeq(w, 1, 2)) = t.id
  <2>1. b \o c \in Seq(Byte) /\ (b \o c) \o X \in Seq(Byte)
    BY <1>4, <1>5, ConcatProperties
  <2>2. w = a \o ((b \o c) \o X)
    <3>1. head = a \o (b \o c)
      BY <1>3, <1>4, <1>5, <1>6, Associative
    <3>2. QED
      BY <1>3, <2>1, <3>1, Associative
  <2>3. SubSeq(w, 1, 2) = a
    BY <1>3, <2>1, <2>2, FrontAndRest, ZenonT(60)
  <2>4. QED
    BY <1>3, <2>3
<1>15. QED
  BY <1>9, <1>11, <1>12, <1>13, <1>14 DEF n, head

IsWhole(t, o, r) == AllHavePack(t, o) /\ ObjectSize(t, o) <= r

(* What Pack makes of an object, and what Unpack makes of that.             *)
LEMMA ObjectSent ==
  ASSUME NEW t \in Tables, NEW o \in Objects(t), NEW r \in Nat,
         3 + Len(FieldIdx(t, o)) < r
  PROVE  LET idx  == FieldIdx(t, o)
             w    == Packed(t, o, r)
             read == FieldsTakes(t, idx, SubSeq(w, 4 + Len(idx), Len(w)))[Len(idx)]
         IN  /\ w \in Seq(Byte) /\ Len(w) <= r
             /\ FromBytes(SubSeq(w, 1, 2)) = t.id
             /\ w[3] = Len(idx)
             /\ [i \in 1 .. Len(idx) |-> w[3 + i] + 1] = idx
             /\ DOMAIN read.fields = DOMAIN t.types
             /\ \A i \in 1 .. Len(t.types) : IsCut(t.types[i], o.fields[i], read.fields[i])
             /\ IsWhole(t, o, r) => /\ read.cur = <<EndFlag(t, Len(idx))>>
                                    /\ read.fields = o.fields
<1> DEFINE idx  == FieldIdx(t, o)
           n    == Len(idx)
           head == Header(t, idx)
           st   == [cur |-> head, len |-> r - Len(head), ok |-> TRUE]
           put  == FieldsPuts(st, t, o, idx)
           body == put[n]
           open == [body EXCEPT !.ok = TRUE]
           flag == <<EndFlag(t, n)>>
           last == Put(open, flag)
           w    == Packed(t, o, r)
           whole == IsWhole(t, o, r)
           sum  == Total(FieldSizes(t, o, idx))
           read == FieldsTakes(t, idx, SubSeq(w, 4 + n, Len(w)))[n]
<1>1. /\ idx \in Seq(1 .. Len(t.types)) /\ n \in Nat /\ idx \in Idx(t)
      /\ \A i \in 1 .. Len(t.types) : IsSent(t, o, i) => \E m \in 1 .. n : idx[m] = i
  BY FieldIdxTyped DEF Idx
<1>2. w = last.cur
  BY DEF Packed
<1>3. whole => AllHavePack(t, o) /\ 3 + n + sum + 1 <= r
  <2>1. SentSizes(t, o) = FieldSizes(t, o, idx)
    BY DEF SentSizes, FieldSizes
  <2>2. ObjectSize(t, o) = 2 + 1 + n + sum + 1
    BY <2>1 DEF ObjectSize
  <2> HIDE DEF idx, sum, n
  <2>3. 2 + 1 + n = 3 + n
    BY <1>1
  <2>4. QED
    BY <2>2, <2>3 DEF IsWhole
<1>4. ASSUME NEW i \in 1 .. Len(t.types), ~IsSent(t, o, i)
      PROVE  o.fields[i] = Default(t.types[i])
  BY <1>4 DEF IsSent
<1> HIDE DEF idx, w
<1>5. head \in Seq(Byte) /\ Len(head) = 3 + n
  BY <1>1, EmptySeq, HeaderRead
<1>6. 3 + n < r
  BY DEF idx
<1>7. st \in PackState /\ st.len = r - (3 + n) /\ st.len \in Nat /\ st.cur = head
  BY <1>1, <1>5, <1>6 DEF PackState
<1> HIDE DEF head, st, n, sum, whole
<1>8. sum \in Nat
  BY <1>1, <1>7, FieldsFits DEF sum
<1>9. whole => (\A m \in 1 .. n : put[m].ok) /\ body.len = st.len - sum
  <2>1. whole => sum <= st.len
    BY <1>1, <1>3, <1>7, <1>8
  <2>2. QED
    BY <1>1, <1>3, <1>7, <2>1, FieldsFits DEF sum, n
<1>10. PICK p : Wrote(st, body, p) /\ FieldsRead(t, o, idx, n, whole, body, p)
  BY <1>1, <1>7, <1>9, FieldsSent DEF n
<1> HIDE DEF put
<1>11. p \in Seq(Byte) /\ body \in PackState /\ body.cur = head \o p /\ body.len + Len(p) = st.len
  BY <1>7, <1>10 DEF Wrote
<1>12. body.len \in Nat /\ Len(p) \in Nat
  BY <1>11, LenProperties DEF PackState
<1> HIDE DEF body
<1>13. open \in PackState /\ open.ok /\ open.cur = body.cur /\ open.len = body.len
  BY <1>11 DEF PackState
<1>14. flag \in Seq(Byte) /\ Len(flag) = 1
  <2>1. EndFlag(t, n) \in Byte
    <3>1. t.id \in Nat
      BY TableTyped
    <3>2. n + t.id \in Nat
      BY <1>1, <3>1
    <3>3. \A k \in Nat : k % 256 \in Byte
      BY DEF Byte
    <3>4. QED
      BY <3>2, <3>3, Zenon DEF EndFlag
  <2>2. QED
    BY <2>1
<1> HIDE DEF flag, open
<1>15. PICK f \in {flag, <<>>} : Wrote(open, last, f) /\ (1 <= body.len => f = flag)
  BY <1>13, <1>14, PutOne
<1> HIDE DEF last
<1>16. f \in Seq(Byte) /\ last.cur = body.cur \o f /\ last.len + Len(f) = body.len /\ last.len \in Nat
  BY <1>13, <1>15 DEF Wrote, PackState
<1>17. Len(f) \in Nat /\ Len(f) <= body.len
  BY <1>12, <1>16, LenProperties
<1>18. /\ p \o f \in Seq(Byte) /\ Len(p \o f) = Len(p) + Len(f)
       /\ w = head \o (p \o f)
  <2>1. p \o f \in Seq(Byte) /\ Len(p \o f) = Len(p) + Len(f)
    BY <1>11, <1>16, ConcatProperties
  <2>2. (head \o p) \o f = head \o (p \o f)
    BY <1>5, <1>11, <1>16, Associative
  <2>3. QED
    BY <1>2, <1>11, <1>16, <2>1, <2>2
<1>19. w \in Seq(Byte) /\ Len(w) = (3 + n) + (Len(p) + Len(f))
  <2> DEFINE X == p \o f
  <2>1. X \in Seq(Byte) /\ Len(X) = Len(p) + Len(f) /\ w = head \o X
    BY <1>18
  <2> HIDE DEF X
  <2>2. head \o X \in Seq(Byte) /\ Len(head \o X) = Len(head) + Len(X)
    BY <1>5, <2>1, ConcatProperties
  <2>3. QED
    BY <1>5, <2>1, <2>2
<1>20. Len(w) <= r
  BY <1>1, <1>6, <1>7, <1>11, <1>12, <1>17, <1>19
<1>21. /\ FromBytes(SubSeq(w, 1, 2)) = t.id
       /\ w[3] = n
       /\ [i \in 1 .. n |-> w[3 + i] + 1] = idx
       /\ SubSeq(w, 4 + n, Len(w)) = p \o f
  <2> DEFINE X == p \o f
  <2>1. X \in Seq(Byte) /\ w = Header(t, idx) \o X
    BY <1>18 DEF head
  <2> HIDE DEF X
  <2> DEFINE v == Header(t, idx) \o X
  <2>2. t \in Tables /\ idx \in Idx(t)
    BY <1>1
  <2>3. /\ FromBytes(SubSeq(v, 1, 2)) = t.id
        /\ v[3] = Len(idx)
        /\ [i \in 1 .. Len(idx) |-> v[3 + i] + 1] = idx
        /\ SubSeq(v, 4 + Len(idx), Len(v)) = X
    BY ONLY <2>1, <2>2, HeaderRead
  <2>4. w = v
    BY <2>1
  <2>5. QED
    BY <2>3, <2>4 DEF X, n
<1>22. read = FieldsTakes(t, idx, p \o f)[n]
  BY <1>21
<1>23. n \in 0 .. n
  BY <1>1
<1>24. read \in Reading(t)
  <2>1. FieldsTakes(t, idx, p \o f) \in [0 .. n -> Reading(t)]
    BY <1>1, <1>18, FieldsTakesSteps DEF n
  <2>2. QED
    BY <1>22, <1>23, <2>1
<1> HIDE DEF read
<1>25. /\ read.cur = f
       /\ \A i \in 1 .. Len(t.types) : IsCut(t.types[i], o.fields[i], read.fields[i])
       /\ whole => \A i \in 1 .. Len(t.types) :
            read.fields[i] = IF \E k \in 1 .. n : idx[k] = i THEN o.fields[i]
                             ELSE Default(t.types[i])
  BY <1>10, <1>16, <1>17, <1>22 DEF FieldsRead
<1>26. read.fields \in [DOMAIN t.types -> Value] /\ DOMAIN t.types = 1 .. Len(t.types)
  BY <1>24, TableTyped DEF Reading
<1>27. ASSUME whole PROVE read.cur = flag /\ read.fields = o.fields
  <2>1. 1 <= body.len
    BY <1>1, <1>3, <1>7, <1>8, <1>9, <1>12, <1>27
  <2>2. ASSUME NEW i \in 1 .. Len(t.types) PROVE read.fields[i] = o.fields[i]
    <3>1. CASE \E k \in 1 .. n : idx[k] = i
      BY <1>25, <1>27, <3>1
    <3>2. CASE ~ \E k \in 1 .. n : idx[k] = i
      <4>1. ~IsSent(t, o, i)
        BY <1>1, <3>2
      <4>2. QED
        BY <1>4, <1>25, <1>27, <3>2, <4>1
    <3>3. QED
      BY <3>1, <3>2
  <2>3. o.fields = [i \in DOMAIN t.types |-> o.fields[i]]
    BY ObjectTyped
  <2>4. read.fields = [i \in DOMAIN t.types |-> read.fields[i]]
    BY <1>26
  <2>5. read.fields = o.fields
    BY <1>26, <2>2, <2>3, <2>4
  <2>6. QED
    BY <1>15, <1>25, <2>1, <2>5
<1>28. DOMAIN read.fields = DOMAIN t.types
  BY <1>26
<1>29. QED
  BY <1>19, <1>20, <1>21, <1>25, <1>27, <1>28 DEF read, n, idx, w, whole, flag

(* What Field::Pack makes of a field, and what Field::Unpack makes of that. *)
LEMMA ColumnSent ==
  ASSUME NEW type \in Type, NEW v \in ValuesOf(type)
  PROVE  LET w == ColumnText(type, v)
         IN  /\ w \in Seq(Byte) /\ Len(w) <= ColumnRoom
             /\ IsCut(type, v, TakeField(type, w).v)
             /\ HasPack(type, v) /\ FieldSize(type, v) <= ColumnRoom
                => TakeField(type, w).v = v
<1> DEFINE st  == [cur |-> <<>>, len |-> ColumnRoom, ok |-> TRUE]
           st2 == PutField(st, type, v)
           w   == ColumnText(type, v)
<1>1. ColumnRoom \in Nat
  BY PackAssumption
<1>2. st \in PackState /\ st.cur = <<>> /\ st.len = ColumnRoom
  BY <1>1, EmptySeq DEF PackState
<1>3. w = st2.cur
  BY DEF ColumnText
<1> HIDE DEF w, st
<1>4. HasPack(type, v) /\ FieldSize(type, v) <= ColumnRoom => st2.ok
  BY <1>2, FieldFits
<1>5. PICK p : Wrote(st, st2, p) /\ FieldRead(type, v, st2, p)
  BY <1>2, FieldSent
<1> HIDE DEF st2
<1>6. /\ p \in Seq(Byte) /\ st2.cur = <<>> \o p
      /\ st2.len + Len(p) = ColumnRoom /\ st2.len \in Nat
  BY <1>2, <1>5 DEF Wrote, PackState
<1>7. <<>> \o p = p /\ p \o <<>> = p /\ Len(p) \in Nat /\ <<>> \in Seq(Byte) /\ Len(<<>>) = 0
  BY <1>6, ConcatEmptySeq, EmptySeq, LenProperties
<1>8. w = p /\ Len(p) <= ColumnRoom
  BY <1>1, <1>3, <1>6, <1>7
<1>9. LET got == TakeField(type, p \o <<>>)
      IN  IsCut(type, v, got.v) /\ (st2.ok => got.v = v)
  <2>1. <<>> \in Seq(Byte) /\ Len(<<>>) <= st2.len
    BY <1>6, <1>7
  <2>2. FieldRead(type, v, st2, p)
    BY <1>5
  <2>3. QED
    BY <2>1, <2>2, Zenon DEF FieldRead
<1>10. QED
  BY <1>4, <1>6, <1>7, <1>8, <1>9 DEF w

-----------------------------------------------------------------------------
(* The inductive invariant: until they are read the bytes are those that    *)
(* Pack made of the object, or Field::Pack of a field of it.                *)

Explored ==
  /\ stage \in {"new", "packed", "failed", "unpacked", "stored", "loaded"}
  /\ table \in Tables /\ obj \in Objects(table) /\ room \in 0 .. MaxRoom

Unread ==
  /\ stage = "new" => wire = <<>> /\ column = 0 /\ back = Null
  /\ stage = "packed" => /\ HeaderFits(Len(FieldIdx(table, obj)))
                         /\ wire = Packed(table, obj, room)
                         /\ column = 0 /\ back = Null
  /\ stage = "stored" => /\ column \in DOMAIN table.types
                         /\ wire = ColumnText(table.types[column], obj.fields[column])
                         /\ back = Null

PackInv ==
  /\ Explored
  /\ Unread
  /\ PackTypeOK
  /\ RoundTrip
  /\ NoForeignBytes
  /\ ColumnKept

(* The sum of the flag is not cut when it is under 256.                     *)
LEMMA FlagNotCut ==
  \A k, id \in Nat : (id % 256) + k < 256 => (k + id) % 256 = k + (id % 256)
<1> SUFFICES ASSUME NEW k \in Nat, NEW id \in Nat, (id % 256) + k < 256
             PROVE  (k + id) % 256 = k + (id % 256)
  OBVIOUS
<1> DEFINE r == id % 256
           q == id \div 256
<1>1. q \in Nat /\ r \in Nat /\ id = 256 * q + r
  OBVIOUS
<1> HIDE DEF q, r
<1>2. k + id = 256 * q + (k + r)
  BY <1>1
<1>3. \A a \in Nat : a < 256 => (256 * q + a) % 256 = a
  BY <1>1
<1>4. k + r \in Nat /\ k + r < 256
  BY <1>1 DEF r
<1>5. QED
  BY <1>2, <1>3, <1>4 DEF r

(* One step after the other: the object as the user made it ...             *)
LEMMA InvInit ==
  Init => PackInv
<1> SUFFICES ASSUME Init PROVE PackInv
  OBVIOUS
<1>1. /\ stage = "new" /\ table \in Tables /\ obj \in Objects(table)
      /\ room \in 0 .. MaxRoom /\ wire = <<>> /\ column = 0 /\ back = Null
  BY DEF Init
<1>2. Explored /\ Unread
  BY <1>1 DEF Explored, Unread
<1>3. obj.id = table.id /\ DOMAIN obj.fields = DOMAIN table.types
  <2>1. table \in Tables /\ obj \in Objects(table)
    BY <1>1
  <2>2. QED
    BY <2>1, ObjectTyped, Zenon
<1>4. MaxRoom \in Nat /\ ColumnRoom \in Nat /\ Len(table.types) \in Nat
  BY <1>1, PackAssumption, TableTyped
<1>5. <<>> \in Seq(Byte) /\ Len(<<>>) = 0
  BY EmptySeq
<1>6. PackTypeOK
  BY <1>1, <1>3, <1>4, <1>5 DEF PackTypeOK
<1>7. RoundTrip /\ NoForeignBytes /\ ColumnKept
  BY <1>1 DEF RoundTrip, NoForeignBytes, ColumnKept
<1>8. QED
  BY <1>2, <1>6, <1>7 DEF PackInv

(* The facts about the state that every step needs.                         *)
LEMMA Constants ==
  ASSUME PackInv
  PROVE  /\ table \in Tables /\ obj \in Objects(table) /\ room \in Nat
         /\ obj.id = table.id /\ DOMAIN obj.fields = DOMAIN table.types
         /\ DOMAIN table.types = 1 .. Len(table.types)
         /\ Len(table.types) \in Nat /\ ColumnRoom \in Nat /\ MaxRoom \in Nat
<1>1. table \in Tables /\ obj \in Objects(table) /\ room \in 0 .. MaxRoom
  BY DEF PackInv, Explored
<1>2. obj.id = table.id /\ DOMAIN obj.fields = DOMAIN table.types
  BY DEF PackInv, PackTypeOK
<1>3. MaxRoom \in Nat /\ ColumnRoom \in Nat
  BY PackAssumption
<1>4. QED
  BY <1>1, <1>2, <1>3, TableTyped

(* ... packed: within the room, and the wire is what Pack made of it ...    *)
LEMMA PackKeepsInv ==
  ASSUME PackInv, Pack
  PROVE  PackInv'
<1> DEFINE num == Len(FieldIdx(table, obj))
<1>1. /\ table \in Tables /\ obj \in Objects(table) /\ room \in Nat
      /\ Len(table.types) \in Nat /\ ColumnRoom \in Nat
  BY Constants
<1>2. /\ stage = "new" /\ column = 0 /\ back = Null
      /\ UNCHANGED <<table, obj, room, column, back>>
  BY DEF Pack, PackInv, Unread
<1>3. stage' = "packed" \/ stage' = "failed"
  BY DEF Pack
<1>4. stage' = "packed" => HeaderFits(num) /\ wire' = Packed(table, obj, room)
  BY DEF Pack
<1>5. wire' \in Seq(Byte) /\ Len(wire') <= room
  <2>1. CASE wire' = <<>>
    BY <1>1, <2>1, EmptySeq
  <2>2. CASE HeaderFits(num) /\ wire' = Packed(table, obj, room)
    <3>1. num \in Nat
      BY <1>1, FieldIdxTyped
    <3>2. 3 + num < room
      BY <1>1, <2>2, <3>1 DEF HeaderFits
    <3>3. QED
      BY <1>1, <2>2, <3>2, ObjectSent
  <2>3. QED
    BY <2>1, <2>2 DEF Pack
<1>6. Explored'
  BY <1>2, <1>3 DEF PackInv, Explored
<1>7. Unread'
  BY <1>2, <1>3, <1>4 DEF Unread, HeaderFits
<1>8. PackTypeOK'
  BY <1>2, <1>3, <1>5 DEF PackInv, PackTypeOK
<1>9. (RoundTrip /\ NoForeignBytes /\ ColumnKept)'
  BY <1>3 DEF RoundTrip, NoForeignBytes, ColumnKept
<1>10. QED
  BY <1>6, <1>7, <1>8, <1>9 DEF PackInv

(* ... and read by the peer, with any byte for an end flag that did not     *)
(* come.                                                                    *)
LEMMA UnpackKeepsInv ==
  ASSUME PackInv, Unpack
  PROVE  PackInv'
<1> DEFINE idx  == FieldIdx(table, obj)
           num  == Len(idx)
           read == FieldsTakes(table, idx, SubSeq(wire, 4 + num, Len(wire)))[num]
           whole == IsWhole(table, obj, room)
<1>1. /\ table \in Tables /\ obj \in Objects(table) /\ room \in Nat
      /\ DOMAIN table.types = 1 .. Len(table.types)
      /\ obj.id = table.id
  BY Constants
<1>2. /\ stage = "packed" /\ wire = Packed(table, obj, room) /\ column = 0 /\ HeaderFits(num)
      /\ UNCHANGED <<table, obj, room, wire, column>> /\ stage' = "unpacked"
  BY DEF Unpack, PackInv, Unread
<1>3. num \in Nat /\ 3 + num < room
  <2>1. num \in Nat
    BY <1>1, FieldIdxTyped
  <2>2. QED
    BY <1>1, <1>2, <2>1 DEF HeaderFits
<1>4. /\ FromBytes(SubSeq(wire, 1, 2)) = table.id
      /\ wire[3] = num
      /\ [i \in 1 .. num |-> wire[3 + i] + 1] = idx
      /\ DOMAIN read.fields = DOMAIN table.types
      /\ \A i \in 1 .. Len(table.types) : IsCut(table.types[i], obj.fields[i], read.fields[i])
      /\ whole => read.cur = <<EndFlag(table, num)>> /\ read.fields = obj.fields
  <2>1. table \in Tables /\ obj \in Objects(table) /\ room \in Nat
    BY <1>1
  <2>2. 3 + Len(FieldIdx(table, obj)) < room
    BY <1>3
  <2>3. wire = Packed(table, obj, room)
    BY <1>2
  <2> DEFINE Comes(w) ==
        LET got == FieldsTakes(table, idx, SubSeq(w, 4 + num, Len(w)))[num]
        IN  /\ FromBytes(SubSeq(w, 1, 2)) = table.id
            /\ w[3] = num
            /\ [i \in 1 .. num |-> w[3 + i] + 1] = idx
            /\ DOMAIN got.fields = DOMAIN table.types
            /\ \A i \in 1 .. Len(table.types) :
                 IsCut(table.types[i], obj.fields[i], got.fields[i])
            /\ whole => got.cur = <<EndFlag(table, num)>> /\ got.fields = obj.fields
  <2>4. Comes(Packed(table, obj, room))
    BY <2>1, <2>2, ObjectSent
  <2>5. Comes(wire)
    BY <2>3, <2>4, Zenon
  <2>6. QED
    BY <2>5
<1>5. (CHOOSE u \in Tables : u.id = table.id) = table
  <2>1. \A u \in Tables : u.id = table.id => u = table
    BY <1>1, PackAssumption
  <2>2. QED
    BY <1>1, <2>1
<1> HIDE DEF idx
<1>6. PICK flag \in (IF read.cur = <<>> THEN Byte ELSE {read.cur[1]}) :
        back' = IF Accepts(flag, num, table.id) THEN [id |-> table.id, fields |-> read.fields]
                ELSE Null
  <2> DEFINE id1   == FromBytes(SubSeq(wire, 1, 2))
             num1  == wire[3]
             t1    == CHOOSE u \in Tables : u.id = id1
             idx1  == [i \in 1 .. num1 |-> wire[3 + i] + 1]
             read1 == FieldsTakes(t1, idx1, SubSeq(wire, 4 + num1, Len(wire)))[num1]
  <2>1. \E flag \in (IF read1.cur = <<>> THEN Byte ELSE {read1.cur[1]}) :
          back' = IF Accepts(flag, num1, id1) THEN [id |-> id1, fields |-> read1.fields]
                  ELSE Null
    BY DEF Unpack
  <2>2. id1 = table.id /\ num1 = num
    BY <1>4
  <2>3. t1 = table
    BY <1>5, <2>2
  <2>4. idx1 = idx
    BY <1>4
  <2>5. read1 = read
    BY <2>2, <2>3, <2>4
  <2> HIDE DEF id1, num1, t1, idx1, read1, read, num
  <2>6. QED
    BY <2>1, <2>2, <2>5
<1> HIDE DEF read, num, whole
<1>7. back' = Null \/ back' = [id |-> table.id, fields |-> read.fields]
  BY <1>6
<1>8. Explored' /\ Unread'
  BY <1>2 DEF PackInv, Explored, Unread
<1>9. PackTypeOK'
  <2>1. back' = Null \/ (back'.id = table.id /\ DOMAIN back'.fields = DOMAIN table.types)
    BY <1>4, <1>7
  <2>2. QED
    BY <1>2, <2>1 DEF PackInv, PackTypeOK
<1>10. NoForeignBytes'
  <2>1. ASSUME back' # Null, NEW i \in DOMAIN table.types
        PROVE  IsCut(table.types[i], obj.fields[i], back'.fields[i])
    BY <1>1, <1>4, <1>7, <2>1
  <2>2. QED
    BY <1>2, <2>1 DEF NoForeignBytes
<1>11. RoundTrip'
  <2>1. ASSUME Fits, FlagFits, AllHavePack(table, obj) PROVE back' = obj
    <3>1. whole
      BY <2>1 DEF whole, IsWhole, Fits
    <3>2. read.cur = <<EndFlag(table, num)>> /\ read.fields = obj.fields
      BY <1>4, <3>1
    <3>3. flag = EndFlag(table, num)
      BY <1>6, <3>2
    <3>4. table.id \in Nat
      BY <1>1, TableTyped
    <3>5. (table.id % 256) + num < 256
      BY <2>1 DEF FlagFits, num, idx
    <3>6. flag = num + (table.id % 256)
      <4>1. num \in Nat
        BY <1>3
      <4>2. (num + table.id) % 256 = num + (table.id % 256)
        BY ONLY <3>4, <3>5, <4>1, FlagNotCut, ZenonT(60)
      <4>3. QED
        BY <3>3, <4>2 DEF EndFlag
    <3>7. back' = [id |-> table.id, fields |-> obj.fields]
      BY <1>6, <3>2, <3>6 DEF Accepts
    <3>8. obj = [id |-> table.id, fields |-> obj.fields]
      BY <1>1, ObjectTyped
    <3>9. QED
      BY <3>7, <3>8
  <2>2. Fits' = Fits /\ FlagFits' = FlagFits
    BY <1>2 DEF Fits, FlagFits
  <2>3. QED
    BY <1>2, <2>1, <2>2 DEF RoundTrip, AllHavePack
<1>12. ColumnKept'
  BY <1>2 DEF ColumnKept
<1>13. QED
  BY <1>8, <1>9, <1>10, <1>11, <1>12 DEF PackInv

(* Or one column of it stored, within the buffer of Field::Pack ...         *)
LEMMA StoreColumnKeepsInv ==
  ASSUME PackInv, NEW i \in DOMAIN table.types, StoreColumn(i)
  PROVE  PackInv'
<1> DEFINE type == table.types[i]
           v    == obj.fields[i]
<1>1. /\ table \in Tables /\ obj \in Objects(table)
      /\ DOMAIN table.types = 1 .. Len(table.types) /\ Len(table.types) \in Nat
  BY Constants
<1>2. /\ stage = "new" /\ back = Null /\ stage' = "stored" /\ column' = i
      /\ wire' = ColumnText(type, v) /\ UNCHANGED <<table, obj, room, back>>
  BY DEF StoreColumn, PackInv, Unread
<1>3. type \in Type /\ v \in ValuesOf(type)
  BY <1>1, TableTyped, ObjectTyped
<1>4. wire' \in Seq(Byte) /\ Len(wire') <= ColumnRoom
  BY <1>2, <1>3, ColumnSent
<1>5. i \in 0 .. Len(table.types) /\ i # 0
  BY <1>1
<1>6. Explored' /\ Unread'
  BY <1>2 DEF PackInv, Explored, Unread
<1>7. PackTypeOK'
  BY <1>2, <1>4, <1>5 DEF PackInv, PackTypeOK
<1>8. (RoundTrip /\ NoForeignBytes /\ ColumnKept)'
  BY <1>2 DEF RoundTrip, NoForeignBytes, ColumnKept
<1>9. QED
  BY <1>6, <1>7, <1>8 DEF PackInv

(* ... and loaded into another object.                                      *)
LEMMA LoadColumnKeepsInv ==
  ASSUME PackInv, LoadColumn
  PROVE  PackInv'
<1> DEFINE type == table.types[column]
           v    == obj.fields[column]
<1>1. /\ table \in Tables /\ obj \in Objects(table)
      /\ DOMAIN table.types = 1 .. Len(table.types)
  BY Constants
<1>2. /\ stage = "stored" /\ column \in DOMAIN table.types
      /\ wire = ColumnText(type, v) /\ stage' = "loaded"
      /\ UNCHANGED <<table, obj, room, wire, column>>
  BY DEF LoadColumn, PackInv, Unread
<1>3. type \in Type /\ v \in ValuesOf(type)
  BY <1>1, <1>2, TableTyped, ObjectTyped
<1>4. /\ back'.id = table.id /\ DOMAIN back'.fields = DOMAIN table.types
      /\ back'.fields[column] = TakeField(type, wire).v
  BY <1>2 DEF LoadColumn
<1>5. /\ IsCut(type, v, back'.fields[column])
      /\ HasPack(type, v) /\ FieldSize(type, v) <= ColumnRoom => back'.fields[column] = v
  BY <1>2, <1>3, <1>4, ColumnSent
<1>6. Explored' /\ Unread'
  BY <1>2 DEF PackInv, Explored, Unread
<1>7. PackTypeOK'
  BY <1>2, <1>4 DEF PackInv, PackTypeOK
<1>8. ColumnKept'
  BY <1>2, <1>5 DEF ColumnKept
<1>9. (RoundTrip /\ NoForeignBytes)'
  BY <1>2 DEF RoundTrip, NoForeignBytes
<1>10. QED
  BY <1>6, <1>7, <1>8, <1>9 DEF PackInv

(* Every step keeps the invariant.                                          *)
LEMMA InvStep ==
  PackInv /\ [Next]_vars => PackInv'
<1> SUFFICES ASSUME PackInv, [Next]_vars PROVE PackInv'
  OBVIOUS
<1>1. CASE Pack
  BY <1>1, PackKeepsInv
<1>2. CASE Unpack
  BY <1>2, UnpackKeepsInv
<1>3. ASSUME NEW i \in DOMAIN table.types, StoreColumn(i) PROVE PackInv'
  BY <1>3, StoreColumnKeepsInv
<1>4. CASE LoadColumn
  BY <1>4, LoadColumnKeepsInv
<1>5. CASE UNCHANGED vars
  BY <1>5 DEF vars, PackInv, Explored, Unread, PackTypeOK, RoundTrip, NoForeignBytes,
              ColumnKept, HeaderFits, Fits, FlagFits
<1>6. QED
  BY <1>1, <1>2, <1>3, <1>4, <1>5 DEF Next

(* Until it is read the wire is what was packed, and what comes back is     *)
(* what the properties say.                                                 *)
THEOREM PackInvariant == Spec => []PackInv
BY InvInit, InvStep, PTL DEF Spec

-----------------------------------------------------------------------------
(* The packer stays in the room the message has left, and the unpacker      *)
(* makes an object of the class that was packed, or none: dbTable.cpp,      *)
(* TableCfg::Pack and TableCfg::Unpack.                                     *)
THEOREM PackTypeCorrect == Spec => []PackTypeOK
BY PackInvariant, PTL DEF PackInv

(* An object there is room for, with a Pack for every member and a sum of   *)
(* id and number of fields that the end flag holds, comes back as it was,   *)
(* whatever its class and its values.                                       *)
THEOREM ComesBackWhole == Spec => []RoundTrip
BY PackInvariant, PTL DEF PackInv

(* Of an object there is too little room for, every field comes back as it  *)
(* was, with its end lost or with its default: packer and unpacker never    *)
(* disagree where a field ends (L_COND of dbStructPack.h).                  *)
THEOREM NothingForeign == Spec => []NoForeignBytes
BY PackInvariant, PTL DEF PackInv

(* A struct column comes back from the database as it was stored, or when   *)
(* it is longer than the buffer of Field::Pack with its end lost.           *)
THEOREM ColumnsComeBack == Spec => []ColumnKept
BY PackInvariant, PTL DEF PackInv

=============================================================================
