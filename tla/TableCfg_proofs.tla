---------------------------- MODULE TableCfg_proofs ----------------------------
(***************************************************************************)
(* What the checks of TableCfg's constructor (dbTable.cpp) are good for,    *)
(* for every class: when no member is narrower than a word, a class that is *)
(* accepted has every member listed, in order.  The sizes the checks look   *)
(* at are defined member by member, so the proofs go by the first member at *)
(* which something would go wrong.                                          *)
(***************************************************************************)
EXTENDS TableCfg, SequenceTheorems, WellFoundedInduction, TLAPS

-----------------------------------------------------------------------------
(* The first place where something goes wrong.                              *)

Less == {p \in Nat \X Nat : p[1] < p[2]}

(* A set of natural numbers has a smallest.                                 *)
LEMMA Smallest ==
  ASSUME NEW S \in SUBSET Nat, S # {}
  PROVE  \E m \in S : \A k \in S : m <= k
<1>1. IsWellFoundedOn(Less, Nat)
  BY NatLessThanWellFounded DEF OpToRel, Less
<1>2. PICK m \in S : \A k \in S : ~(<<k, m>> \in Less)
  BY <1>1, WFMin
<1>3. ASSUME NEW k \in S PROVE m <= k
  <2>1. k \in Nat /\ m \in Nat
    OBVIOUS
  <2>2. k < m => <<k, m>> \in Less
    BY <2>1 DEF Less
  <2>3. QED
    BY <1>2, <2>1, <2>2
<1>4. QED
  BY <1>3

-----------------------------------------------------------------------------
(* Where members end.                                                       *)

(* e has the ends of the first n members.                                   *)
FirstEnds(e, n, from, members) ==
  e = [k \in 0 .. n |-> IF k = 0 THEN from
                        ELSE AlignUp(e[k - 1], members[k].align) + members[k].size]

(* There are such ends, however many members they are of.                   *)
LEMMA FirstEndsExist ==
  ASSUME NEW from, NEW members, NEW n \in Nat
  PROVE  \E e : FirstEnds(e, n, from, members)
<1> DEFINE bad == {k \in Nat : ~ \E e : FirstEnds(e, k, from, members)}
<1> SUFFICES ASSUME bad # {} PROVE FALSE
  OBVIOUS
<1>1. PICK m \in bad : \A k \in bad : m <= k
  BY Smallest
<1>2. CASE m = 0
  <2>1. FirstEnds([k \in 0 .. 0 |-> from], 0, from, members)
    BY DEF FirstEnds
  <2>2. QED
    BY <1>1, <1>2, <2>1
<1>3. CASE m # 0
  <2>1. m \in Nat /\ m - 1 \in Nat /\ m - 1 \notin bad
    BY <1>1, <1>3
  <2>2. PICK e : FirstEnds(e, m - 1, from, members)
    BY <2>1
  <2> DEFINE g == [k \in 0 .. m |->
                     IF k = m THEN AlignUp(e[m - 1], members[m].align) + members[m].size
                     ELSE e[k]]
  <2>3. \A k \in 0 .. m - 1 : g[k] = e[k] /\ k \in 0 .. m
    BY <2>1
  <2>4. \A k \in 0 .. m - 1 :
          e[k] = IF k = 0 THEN from
                 ELSE AlignUp(e[k - 1], members[k].align) + members[k].size
    BY <2>1, <2>2 DEF FirstEnds
  <2>5. g[m] = AlignUp(e[m - 1], members[m].align) + members[m].size
    BY <2>1
  <2>6. \A k \in 0 .. m :
          g[k] = IF k = 0 THEN from
                 ELSE AlignUp(g[k - 1], members[k].align) + members[k].size
    <3> SUFFICES ASSUME NEW k \in 0 .. m
                 PROVE  g[k] = IF k = 0 THEN from
                               ELSE AlignUp(g[k - 1], members[k].align) + members[k].size
      OBVIOUS
    <3> HIDE DEF g
    <3>1. CASE k = m
      BY <1>3, <2>1, <2>3, <2>5, <3>1, m - 1 \in 0 .. m - 1
    <3>2. CASE k # m /\ k # 0
      BY <2>1, <2>3, <2>4, <3>2, k \in 0 .. m - 1, k - 1 \in 0 .. m - 1
    <3>3. CASE k # m /\ k = 0
      BY <2>1, <2>3, <2>4, <3>3, k \in 0 .. m - 1
    <3>4. QED
      BY <3>1, <3>2, <3>3
  <2>7. FirstEnds(g, m, from, members)
    <3>1. g = [k \in 0 .. m |-> g[k]]
      OBVIOUS
    <3> HIDE DEF g
    <3>2. QED
      BY <2>6, <3>1 DEF FirstEnds
  <2>8. QED
    BY <1>1, <2>7
<1>4. QED
  BY <1>2, <1>3

(* MemberEnds is what its recursive definition says.                        *)
LEMMA EndsOfMembers ==
  ASSUME NEW from, NEW members \in Seq(Member)
  PROVE  LET e == MemberEnds(from, members)
         IN  /\ e[0] = from
             /\ \A k \in 1 .. Len(members) :
                  e[k] = AlignUp(e[k - 1], members[k].align) + members[k].size
<1> DEFINE e == MemberEnds(from, members)
           n == Len(members)
<1>1. n \in Nat
  BY LenProperties
<1>2. \E x : FirstEnds(x, n, from, members)
  BY <1>1, FirstEndsExist
<1>3. FirstEnds(e, n, from, members)
  BY <1>2, Zenon DEF FirstEnds, MemberEnds
<1> HIDE DEF e, n
<1>4. e[0] = from
  BY <1>1, <1>3 DEF FirstEnds
<1>5. \A k \in 1 .. n : e[k] = AlignUp(e[k - 1], members[k].align) + members[k].size
  BY <1>1, <1>3 DEF FirstEnds
<1>6. QED
  BY <1>4, <1>5 DEF e, n

-----------------------------------------------------------------------------
(* Members that are words are placed one behind the other.                  *)

(* A member of any size begins where it would have to end in whole words.   *)
LEMMA AlignWord ==
  ASSUME NEW a \in Nat, NEW s \in Nat \ {0}
  PROVE  /\ AlignUp(a, 8) \in Nat
         /\ AlignUp(s, 8) \in Nat /\ AlignUp(s, 8) >= 8
         /\ AlignUp(AlignUp(a, 8) + s, 8) = AlignUp(a, 8) + AlignUp(s, 8)
BY DEF AlignUp

(* The bytes of a word; and where the one after the first n begins.         *)
Width(m) == AlignUp(m.size, 8)
WordAt(from, members, n) == AlignUp(MemberEnds(from, members)[n], 8)

AllWords(members) ==
  /\ members \in Seq(Member)
  /\ \A i \in DOMAIN members : members[i].align = 8

(* Words end somewhere.                                                     *)
LEMMA WordEnds ==
  ASSUME NEW from \in Nat, NEW members, AllWords(members), NEW n \in 0 .. Len(members)
  PROVE  MemberEnds(from, members)[n] \in Nat
<1> DEFINE e == MemberEnds(from, members)
           bad == {k \in 0 .. Len(members) : e[k] \notin Nat}
<1>1. Len(members) \in Nat /\ DOMAIN members = 1 .. Len(members)
  BY LenProperties DEF AllWords
<1> SUFFICES ASSUME bad # {} PROVE FALSE
  OBVIOUS
<1>2. PICK m \in bad : \A k \in bad : m <= k
  <2>1. bad \in SUBSET Nat
    BY <1>1
  <2>2. QED
    BY <2>1, Smallest
<1>3. e[0] = from /\ \A k \in 1 .. Len(members) :
                       e[k] = AlignUp(e[k - 1], members[k].align) + members[k].size
  BY EndsOfMembers DEF AllWords
<1> HIDE DEF e
<1>4. m \in 0 .. Len(members) /\ e[m] \notin Nat
  BY <1>2
<1>5. m # 0 /\ m \in 1 .. Len(members) /\ m - 1 \in 0 .. Len(members)
  BY <1>1, <1>3, <1>4
<1>6. e[m - 1] \in Nat
  BY <1>1, <1>2, <1>5
<1>7. members[m].align = 8 /\ members[m].size \in Nat \ {0}
  <2>1. members[m] \in Member
    BY <1>1, <1>5 DEF AllWords
  <2>2. QED
    BY <1>1, <1>5, <2>1 DEF AllWords, Member
<1>8. e[m] \in Nat
  <2>1. e[m] = AlignUp(e[m - 1], 8) + members[m].size
    BY <1>3, <1>5, <1>7
  <2>2. AlignUp(e[m - 1], 8) \in Nat
    BY <1>6, <1>7, AlignWord
  <2>3. QED
    BY <1>7, <2>1, <2>2
<1>9. QED
  BY <1>4, <1>8

(* A word takes the whole words its size needs, one at least.               *)
LEMMA NextWord ==
  ASSUME NEW from \in Nat, NEW members, AllWords(members), NEW n \in 1 .. Len(members)
  PROVE  /\ WordAt(from, members, n - 1) \in Nat /\ WordAt(from, members, n) \in Nat
         /\ WordAt(from, members, n) = WordAt(from, members, n - 1) + Width(members[n])
         /\ Width(members[n]) \in Nat /\ Width(members[n]) >= 8
<1>1. Len(members) \in Nat /\ DOMAIN members = 1 .. Len(members)
  BY LenProperties DEF AllWords
<1> DEFINE e == MemberEnds(from, members)
           s == members[n].size
<1>2. members[n] \in Member /\ members[n].align = 8
  BY <1>1 DEF AllWords
<1>3. s \in Nat \ {0}
  BY <1>2 DEF Member
<1>4. n \in 0 .. Len(members) /\ n - 1 \in 0 .. Len(members)
  BY <1>1
<1>5. e[n - 1] \in Nat /\ e[n] \in Nat
  BY <1>4, WordEnds
<1>6. e[n] = AlignUp(e[n - 1], 8) + s
  BY <1>2, EndsOfMembers DEF AllWords
<1> HIDE DEF e, s
<1>7. AlignUp(e[n], 8) = AlignUp(e[n - 1], 8) + AlignUp(s, 8)
  BY <1>3, <1>5, <1>6, AlignWord
<1>8. AlignUp(e[n - 1], 8) \in Nat /\ AlignUp(e[n], 8) \in Nat
  BY <1>3, <1>5, AlignWord
<1>9. AlignUp(s, 8) \in Nat /\ AlignUp(s, 8) >= 8
  BY <1>3, <1>5, AlignWord
<1>10. QED
  BY <1>7, <1>8, <1>9 DEF WordAt, Width, e, s

(* From one word to a later one there are 8 bytes at least for each.        *)
LEMMA WordsApart ==
  ASSUME NEW from \in Nat, NEW members, AllWords(members),
         NEW p \in 0 .. Len(members), NEW q \in 0 .. Len(members), p <= q
  PROVE  WordAt(from, members, q) >= WordAt(from, members, p) + 8 * (q - p)
<1> DEFINE at(n) == WordAt(from, members, n)
           bad == {k \in 0 .. Len(members) : p <= k /\ ~(at(k) >= at(p) + 8 * (k - p))}
<1>1. Len(members) \in Nat
  BY LenProperties DEF AllWords
<1> SUFFICES ASSUME bad # {} PROVE FALSE
  OBVIOUS
<1>2. PICK m \in bad : \A k \in bad : m <= k
  <2>1. bad \in SUBSET Nat
    BY <1>1
  <2>2. QED
    BY <2>1, Smallest
<1>3. at(p) \in Nat
  BY <1>1, WordEnds, AlignWord, 1 \in Nat \ {0} DEF WordAt
<1>4. m \in 0 .. Len(members) /\ p <= m /\ ~(at(m) >= at(p) + 8 * (m - p))
  BY <1>2
<1>5. p # m
  BY <1>1, <1>3, <1>4
<1>6. m \in 1 .. Len(members) /\ m - 1 \in 0 .. Len(members) /\ p <= m - 1
  BY <1>1, <1>4, <1>5
<1>7. at(m - 1) >= at(p) + 8 * (m - 1 - p)
  <2>1. m - 1 \notin bad
    BY <1>1, <1>2, <1>6
  <2>2. QED
    BY <1>6, <2>1
<1>8. at(m - 1) \in Nat /\ at(m) \in Nat /\ at(m) >= at(m - 1) + 8
  <2> DEFINE w == Width(members[m])
  <2>1. at(m - 1) \in Nat /\ at(m) = at(m - 1) + w /\ w \in Nat /\ w >= 8
    BY <1>6, NextWord
  <2>2. \A a, b, c \in Nat : b = a + c /\ c >= 8 => b \in Nat /\ b >= a + 8
    OBVIOUS
  <2>3. at(m) \in Nat
    BY <1>6, NextWord
  <2> HIDE DEF at, w
  <2> QED
    BY <2>1, <2>2, <2>3
<1> HIDE DEF at
<1>9. QED
  BY <1>1, <1>3, <1>4, <1>6, <1>7, <1>8

-----------------------------------------------------------------------------
(* The class that has the listed members only.                              *)

(* What is listed is a member.                                              *)
LEMMA ListedPlace ==
  ASSUME NEW c, IsClass(c), NEW i \in DOMAIN c.list
  PROVE  c.list[i].no \in DOMAIN c.members
<1>1. c.list \in Seq([no : DOMAIN c.members, key : KeyType])
  BY DEF IsClass
<1>2. c.list[i] \in [no : DOMAIN c.members, key : KeyType]
  BY <1>1, ElementOfSeq, LenProperties
<1>3. QED
  BY <1>2

(* What is listed of words are words.                                       *)
LEMMA ListedWords ==
  ASSUME NEW c, IsClass(c), Words(c)
  PROVE  /\ AllWords(c.members) /\ AllWords(Listed(c))
         /\ Len(Listed(c)) = Len(c.list)
         /\ c.members # <<>> /\ Listed(c) # <<>>
<1>1. DOMAIN c.list = 1 .. Len(c.list) /\ Len(c.list) \in Nat
  BY LenProperties DEF IsClass
<1>2. \A i \in DOMAIN c.list : c.list[i].no \in DOMAIN c.members
  BY ListedPlace
<1>3. \A i \in DOMAIN c.members : c.members[i] \in Member /\ c.members[i].align = 8
  BY DEF IsClass, Words, Range
<1>4. \A i \in 1 .. Len(c.list) : Listed(c)[i] \in Member /\ Listed(c)[i].align = 8
  BY <1>1, <1>2, <1>3 DEF Listed
<1>5. Listed(c) \in Seq(Member) /\ Len(Listed(c)) = Len(c.list)
  <2>1. Listed(c) \in [1 .. Len(c.list) -> Member]
    BY <1>1, <1>4 DEF Listed
  <2>2. Listed(c) \in Seq(Member)
    BY <1>1, <2>1, SeqDef
  <2>3. QED
    BY <1>1, <2>1, <2>2, LenProperties
<1>6. AllWords(Listed(c))
  BY <1>1, <1>4, <1>5 DEF AllWords, Listed
<1>7. 1 \in DOMAIN c.list
  <2>1. Len(c.list) # 0
    BY EmptySeq DEF IsClass
  <2>2. QED
    BY <1>1, <2>1
<1>8. c.members # <<>> /\ Listed(c) # <<>>
  BY <1>2, <1>7 DEF Listed
<1>9. QED
  BY <1>3, <1>5, <1>6, <1>8 DEF AllWords, IsClass

(* The size of a class of words is where a further one would begin.         *)
LEMMA WordSize ==
  ASSUME NEW from \in Nat, NEW least \in {1, 8}, NEW members,
         AllWords(members), members # <<>>
  PROVE  SizeOf(from, least, members) = WordAt(from, members, Len(members))
<1>1. {m.align : m \in Range(members)} = {8}
  <2>1. members \in Seq(Member) /\ DOMAIN members = 1 .. Len(members)
    BY LenProperties DEF AllWords
  <2>2. 1 \in DOMAIN members
    BY <2>1, EmptySeq, LenProperties
  <2>3. \A i \in DOMAIN members : members[i].align = 8
    BY DEF AllWords
  <2>4. Range(members) = {members[i] : i \in DOMAIN members}
    BY DEF Range
  <2>5. QED
    BY <2>2, <2>3, <2>4
<1>2. Max({least} \cup {8}) = 8
  <2>1. 8 \in {least} \cup {8} /\ \A y \in {least} \cup {8} : y \in Nat /\ 8 >= y
    OBVIOUS
  <2>2. \A x \in {least} \cup {8} : (\A y \in {least} \cup {8} : x >= y) => x = 8
    OBVIOUS
  <2>3. QED
    BY <2>1, <2>2, Zenon DEF Max
<1>3. QED
  BY <1>1, <1>2 DEF SizeOf, WordAt, EndOf

(* When the offsets never decrease, the places of the listed words increase.*)
LEMMA OrderOfWords ==
  ASSUME NEW from \in Nat, NEW first, NEW c, IsClass(c), Words(c), InOrder(c, from, first),
         NEW i \in 2 .. Len(c.list)
  PROVE  c.list[i - 1].no < c.list[i].no
<1> DEFINE p == c.list[i - 1].no
           q == c.list[i].no
           at(n) == WordAt(from, c.members, n)
<1>1. /\ AllWords(c.members)
      /\ DOMAIN c.list = 1 .. Len(c.list) /\ Len(c.list) \in Nat
      /\ DOMAIN c.members = 1 .. Len(c.members) /\ Len(c.members) \in Nat
  BY ListedWords, LenProperties DEF IsClass
<1>2. i \in DOMAIN c.list /\ i - 1 \in DOMAIN c.list /\ i # 1 /\ i \in Nat
  BY <1>1
<1>3. p \in DOMAIN c.members /\ q \in DOMAIN c.members
  BY <1>1, <1>2, ListedPlace
<1>4. at(p - 1) <= at(q - 1)
  <2>1. Offset(from, c.members, p) <= Offset(from, c.members, q)
    BY <1>2 DEF InOrder
  <2>2. c.members[p].align = 8 /\ c.members[q].align = 8
    BY <1>1, <1>3 DEF AllWords
  <2> HIDE DEF p, q
  <2>3. QED
    BY <2>1, <2>2 DEF Offset, WordAt
<1>5. p # q
  <2>1. i # i - 1
    BY <1>2
  <2>2. QED
    BY <1>2, <2>1 DEF IsClass
<1>6. p - 1 \in 0 .. Len(c.members) /\ q - 1 \in 0 .. Len(c.members)
  <2> HIDE DEF p, q
  <2>1. QED
    BY <1>1, <1>3
<1>7. at(p - 1) \in Nat /\ at(q - 1) \in Nat
  BY <1>1, <1>3, NextWord
<1>8. q < p => at(p - 1) >= at(q - 1) + 8 * ((p - 1) - (q - 1))
  <2>1. q < p => q - 1 <= p - 1
    BY <1>1, <1>3
  <2> HIDE DEF p, q
  <2>2. QED
    BY <1>1, <1>6, <2>1, WordsApart
<1> HIDE DEF p, q, at
<1>9. p < q
  BY <1>1, <1>3, <1>4, <1>5, <1>7, <1>8
<1>10. QED
  BY <1>9 DEF p, q

(* Places that increase are apart.                                          *)
LEMMA PlacesApart ==
  ASSUME NEW n \in Nat, NEW f \in [1 .. n -> Nat],
         \A i \in 2 .. n : f[i - 1] < f[i],
         NEW i \in 1 .. n, NEW j \in 1 .. n, i <= j
  PROVE  f[j] >= f[i] + (j - i)
<1> DEFINE bad == {k \in 1 .. n : i <= k /\ ~(f[k] >= f[i] + (k - i))}
<1> SUFFICES ASSUME bad # {} PROVE FALSE
  OBVIOUS
<1>1. PICK m \in bad : \A k \in bad : m <= k
  <2>1. bad \in SUBSET Nat
    OBVIOUS
  <2>2. QED
    BY <2>1, Smallest
<1>2. m \in 1 .. n /\ i <= m /\ ~(f[m] >= f[i] + (m - i))
  BY <1>1
<1>3. i # m
  BY <1>2
<1>4. m \in 2 .. n /\ m - 1 \in 1 .. n /\ i <= m - 1 /\ m - 1 < m
  BY <1>2, <1>3
<1>5. f[m - 1] >= f[i] + (m - 1 - i)
  <2>1. m - 1 \notin bad
    BY <1>1, <1>4
  <2>2. QED
    BY <1>4, <2>1
<1>6. f[m - 1] < f[m] /\ f[m - 1] \in Nat /\ f[m] \in Nat /\ f[i] \in Nat
  BY <1>2, <1>4
<1>7. QED
  BY <1>2, <1>5, <1>6, SMTT(60)

(* 8 bytes for each word from p to before q are added to those before p.    *)
LEMMA EightEach ==
  ASSUME NEW p \in Nat, NEW q \in Nat, NEW m \in Nat, NEW w \in Nat,
         NEW atP \in Nat, NEW atBefore \in Nat, NEW listedBefore \in Nat,
         atP >= listedBefore + 8 * (p - (m - 1)),
         atBefore >= atP + 8 * (q - 1 - p)
  PROVE  atBefore + w >= (listedBefore + w) + 8 * (q - m)
OBVIOUS

(* From one listed word, the p-th of the members, to the next, the m-th of  *)
(* the listed and q-th of the members.                                      *)
LEMMA ListedNext ==
  ASSUME NEW from \in Nat, NEW members, AllWords(members), NEW listed, AllWords(listed),
         NEW m \in 1 .. Len(listed), NEW q \in 1 .. Len(members), listed[m] = members[q],
         NEW p \in 0 .. Len(members), p < q,
         WordAt(from, members, p) >= WordAt(from, listed, m - 1) + 8 * (p - (m - 1))
  PROVE  WordAt(from, members, q) >= WordAt(from, listed, m) + 8 * (q - m)
<1>1. Len(members) \in Nat /\ Len(listed) \in Nat
  BY LenProperties DEF AllWords
<1>2. p <= q - 1 /\ q - 1 \in 0 .. Len(members) /\ {p, q, m} \subseteq Nat
  BY <1>1
<1>3. WordAt(from, members, q - 1) >= WordAt(from, members, p) + 8 * (q - 1 - p)
  BY <1>1, <1>2, WordsApart
<1>4. /\ WordAt(from, members, q) = WordAt(from, members, q - 1) + Width(members[q])
      /\ Width(members[q]) \in Nat /\ WordAt(from, members, q - 1) \in Nat
  BY NextWord
<1>5. /\ WordAt(from, listed, m) = WordAt(from, listed, m - 1) + Width(members[q])
      /\ WordAt(from, listed, m - 1) \in Nat
  BY NextWord
<1>6. WordAt(from, members, p) \in Nat
  BY <1>1, WordEnds, AlignWord, 1 \in Nat \ {0} DEF WordAt
<1>7. WordAt(from, members, q - 1) + Width(members[q])
        >= (WordAt(from, listed, m - 1) + Width(members[q])) + 8 * (q - m)
  <2>1. p \in Nat /\ q \in Nat /\ m \in Nat
    BY <1>2
  <2>2. QED
    BY <1>3, <1>4, <1>5, <1>6, <2>1, EightEach
<1>8. QED
  BY <1>4, <1>5, <1>7

(* A listed word ends in the class no earlier than in the class of the      *)
(* listed words, and later by 8 bytes for each word left out before it.     *)
LEMMA ListedBehind ==
  ASSUME NEW from \in Nat, NEW first, NEW c, IsClass(c), Words(c), InOrder(c, from, first),
         NEW i \in 1 .. Len(c.list)
  PROVE  WordAt(from, c.members, c.list[i].no)
           >= WordAt(from, Listed(c), i) + 8 * (c.list[i].no - i)
<1> DEFINE n == Len(c.list)
           good(k) == WordAt(from, c.members, c.list[k].no)
                        >= WordAt(from, Listed(c), k) + 8 * (c.list[k].no - k)
           bad == {k \in 1 .. n : ~good(k)}
<1>1. /\ AllWords(c.members) /\ AllWords(Listed(c)) /\ Len(Listed(c)) = n
      /\ DOMAIN c.list = 1 .. n /\ n \in Nat
      /\ DOMAIN c.members = 1 .. Len(c.members) /\ Len(c.members) \in Nat
  BY ListedWords, LenProperties DEF IsClass
<1> SUFFICES ASSUME bad # {} PROVE FALSE
  OBVIOUS
<1>2. PICK m \in bad : \A k \in bad : m <= k
  <2>1. bad \in SUBSET Nat
    BY <1>1
  <2>2. QED
    BY <2>1, Smallest
<1>3. m \in 1 .. n /\ ~good(m)
  BY <1>2
<1>4. c.list[m].no \in 1 .. Len(c.members) /\ c.list[m].no \in Nat
  <2>1. c.list[m].no \in 1 .. Len(c.members)
    BY <1>1, <1>3, ListedPlace
  <2>2. QED
    BY <1>1, <2>1
<1>5. Listed(c)[m] = c.members[c.list[m].no]
  BY <1>1, <1>3 DEF Listed
<1>6. CASE m = 1
  <2>1. WordAt(from, c.members, 0) = AlignUp(from, 8)
    BY <1>1, EndsOfMembers DEF AllWords, WordAt
  <2>2. WordAt(from, Listed(c), 0) = AlignUp(from, 8)
    BY <1>1, EndsOfMembers DEF AllWords, WordAt
  <2>3. AlignUp(from, 8) \in Nat
    BY AlignWord, 1 \in Nat \ {0}
  <2>4. WordAt(from, c.members, 0) >= WordAt(from, Listed(c), 1 - 1) + 8 * (0 - (1 - 1))
    BY <2>1, <2>2, <2>3
  <2>5. 0 \in 0 .. Len(c.members) /\ 0 < c.list[1].no
    BY <1>1, <1>4, <1>6
  <2>6. good(1)
    BY <1>1, <1>3, <1>4, <1>5, <1>6, <2>4, <2>5, ListedNext
  <2>7. QED
    BY <1>3, <1>6, <2>6
<1>7. CASE m # 1
  <2>1. m \in 2 .. n /\ m - 1 \in 1 .. n /\ m - 1 < m
    BY <1>1, <1>3, <1>7
  <2>2. c.list[m - 1].no < c.list[m].no
    BY <2>1, OrderOfWords
  <2>3. c.list[m - 1].no \in 1 .. Len(c.members)
    BY <1>1, <2>1, ListedPlace
  <2>4. c.list[m - 1].no \in 0 .. Len(c.members)
    BY <1>1, <2>3
  <2>5. m - 1 \notin bad
    <3> HIDE DEF bad
    <3>1. ~(m <= m - 1)
      BY <1>1, <2>1
    <3>2. QED
      BY <1>2, <3>1
  <2>6. good(m - 1)
    BY <2>1, <2>5
  <2>7. good(m)
    BY <1>1, <1>3, <1>4, <1>5, <2>2, <2>4, <2>6, ListedNext
  <2>8. QED
    BY <1>3, <2>7
<1>8. QED
  BY <1>6, <1>7

-----------------------------------------------------------------------------
(* What the checks are good for.                                            *)

(* A class, or struct, of words whose listing is in the order of offsets    *)
(* and makes a class as large has every member listed, in its place:        *)
(* CheckMissField, CheckStructField and the L_ASSERTs of InitTableCfg.      *)
THEOREM WordsComplete ==
  ASSUME NEW from \in Nat, NEW first, NEW least \in {1, 8}, NEW c, IsClass(c), Words(c),
         InOrder(c, from, first),
         SizeOf(from, least, Listed(c)) = SizeOf(from, least, c.members)
  PROVE  Complete(c)
<1> DEFINE n == Len(c.list)
           all == Len(c.members)
           no == [k \in 1 .. n |-> c.list[k].no]
           at(k) == WordAt(from, c.members, k)
           listedAt(k) == WordAt(from, Listed(c), k)
<1>1. /\ AllWords(c.members) /\ AllWords(Listed(c)) /\ Len(Listed(c)) = n
      /\ c.members # <<>> /\ Listed(c) # <<>>
      /\ DOMAIN c.list = 1 .. n /\ n \in Nat
      /\ DOMAIN c.members = 1 .. all /\ all \in Nat
  BY ListedWords, LenProperties DEF IsClass
<1>2. n # 0
  BY <1>1, EmptySeq, LenProperties DEF AllWords
<1>3. \A k \in 1 .. n : no[k] \in 1 .. all
  BY <1>1, ListedPlace
<1>4. \A k \in 2 .. n : no[k - 1] < no[k]
  BY <1>1, OrderOfWords
<1>5. no \in [1 .. n -> Nat]
  <2> HIDE DEF n, all
  <2>1. \A k \in 1 .. n : no[k] \in Nat
    BY <1>1, <1>3
  <2>2. QED
    BY <2>1
<1>6. 1 \in 1 .. n /\ n \in 1 .. n
  BY <1>1, <1>2
<1>7. listedAt(n) = at(all)
  BY <1>1, WordSize
<1>8. at(no[n]) >= listedAt(n) + 8 * (no[n] - n)
  BY <1>6, ListedBehind
<1>9. at(all) >= at(no[n]) + 8 * (all - no[n])
  <2>1. no[n] \in 0 .. all /\ all \in 0 .. all /\ no[n] <= all
    <3> HIDE DEF no, n, all
    <3>1. QED
      BY <1>1, <1>3, <1>6
  <2> HIDE DEF no
  <2>2. QED
    BY <1>1, <2>1, WordsApart
<1>10. at(all) \in Nat /\ at(no[n]) \in Nat
  <2>1. \A k \in 0 .. all : at(k) \in Nat
    BY <1>1, WordEnds, AlignWord, 1 \in Nat \ {0} DEF WordAt
  <2> HIDE DEF no, at, n, all
  <2>2. all \in 0 .. all /\ no[n] \in 0 .. all
    BY <1>1, <1>3, <1>6
  <2>3. QED
    BY <2>1, <2>2
<1> HIDE DEF at, listedAt, no, n, all
<1>11. no[n] \in Nat /\ all <= n
  BY <1>1, <1>5, <1>6, <1>7, <1>8, <1>9, <1>10
<1>12. ASSUME NEW k \in 1 .. n PROVE no[k] = k
  <2>1. n \in Nat /\ 1 <= k /\ k <= n
    BY <1>1
  <2>2. no[k] >= no[1] + (k - 1)
    BY <1>4, <1>5, <1>6, <2>1, PlacesApart
  <2>3. no[n] >= no[k] + (n - k)
    BY <1>4, <1>5, <1>6, <2>1, PlacesApart
  <2>4. no[1] >= 1 /\ no[n] <= all /\ no[1] \in Nat /\ no[k] \in Nat
    BY <1>1, <1>3, <1>5, <1>6
  <2>5. QED
    BY <1>1, <1>11, <2>2, <2>3, <2>4
<1>13. all = n
  BY <1>1, <1>3, <1>6, <1>11, <1>12
<1>14. QED
  BY <1>1, <1>12, <1>13 DEF Complete, no, n, all
=============================================================================
