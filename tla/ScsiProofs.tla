----------------------------- MODULE ScsiProofs -----------------------------
(***************************************************************************)
(* DataReported and AnswersTrue, for every client and every controller.    *)
(* The invariant is ScsiInv; each handler has a lemma that it keeps it.    *)
(*                                                                         *)
(* The hard step is MODE SELECT.  The handler walks over bytes, the client *)
(* has thought of pages: WalkFinds shows that, wherever the CDB cuts the   *)
(* list, the walk ends well exactly when no page is cut, and then with the *)
(* settings of the caching pages, in order; SentBackWalk, that it finds no *)
(* setting to change in what MODE SENSE returned.  PageBytes, PageEnd and  *)
(* Walk are recursive functions: each is shown to exist and to unfold as   *)
(* written by induction over the numbers of a set, NatInductionOnSet.      *)
(***************************************************************************)
EXTENDS ScsiInv, SequenceTheorems, WellFoundedInduction, TLAPS

-----------------------------------------------------------------------------
(* Induction over the natural numbers, for a set instead of a predicate.   *)

LEMMA NatInductionOnSet ==
  ASSUME NEW S, 0 \in S, \A k \in Nat : k \in S => k + 1 \in S
  PROVE  Nat \subseteq S
<1> DEFINE R == OpToRel(<, Nat)
<1> DEFINE T == Nat \ S
<1>1. R = {p \in Nat \X Nat : p[1] < p[2]}
  BY DEF OpToRel
<1>2. IsWellFoundedOn(R, Nat)
  BY NatLessThanWellFounded
<1>3. SUFFICES ASSUME T # {} PROVE FALSE
  OBVIOUS
<1>4. T \in SUBSET Nat
  OBVIOUS
<1> HIDE DEF R, T
<1>5. PICK s \in T : \A t \in T : ~(<<t, s>> \in R)
  BY <1>2, <1>3, <1>4, WFMin
<1>6. s \in Nat /\ s \notin S
  BY <1>4, <1>5 DEF T
<1>7. s # 0 /\ s - 1 \in Nat
  BY <1>6
<1>8. s - 1 \notin S
  BY <1>6, <1>7
<1>9. s - 1 \in T
  BY <1>7, <1>8 DEF T
<1>10. <<s - 1, s>> \in R
  BY <1>1, <1>6, <1>7
<1> QED
  BY <1>5, <1>9, <1>10

\* The same up to a bound.
LEMMA InductionUpTo ==
  ASSUME NEW n \in Nat, NEW S, 0 \in S, \A k \in 0 .. n - 1 : k \in S => k + 1 \in S
  PROVE  0 .. n \subseteq S
<1> DEFINE T == {k \in Nat : k <= n => k \in S}
<1>1. 0 \in T
  OBVIOUS
<1>2. ASSUME NEW k \in Nat, k \in T PROVE k + 1 \in T
  <2>1. SUFFICES ASSUME k + 1 <= n PROVE k + 1 \in S
    OBVIOUS
  <2>2. k \in 0 .. n - 1 /\ k \in S
    BY <1>2, <2>1
  <2> QED
    BY <2>2
<1> HIDE DEF T
<1>3. Nat \subseteq T
  BY <1>1, <1>2, NatInductionOnSet
<1> QED
  BY <1>3 DEF T

\* An index into the bytes of a page.
LEMMA WithinBytes ==
  ASSUME NEW a \in Nat, NEW l \in Nat, NEW n \in Nat, a + 2 + l <= n
  PROVE  a + 1 \in 1 .. n /\ a + 2 \in 1 .. n /\ (l >= 1 => a + 3 \in 1 .. n)
OBVIOUS

\* Bytes are numbers.
LEMMA ByteValues ==
  /\ \A x \in Byte : x \in Nat /\ x < 256
  /\ \A x \in TwoBytes : x \in Nat
  /\ \A x \in PageCode : x \in Nat /\ x < 64
<1>1. \A x \in Byte : x \in Nat /\ x < 256
  BY DEF Byte
<1>2. \A x \in TwoBytes : x \in Nat
  <2> DEFINE m == 65535
  <2>1. TwoBytes = 0 .. m
    BY DEF TwoBytes
  <2> HIDE DEF m
  <2> QED
    BY <2>1
<1>3. \A x \in PageCode : x \in Nat /\ x < 64
  BY DEF PageCode
<1> QED
  BY <1>1, <1>2, <1>3

\* The constants, one by one.
LEMMA ConstantTypes ==
  /\ Word \in Nat \ {0} /\ Totals \subseteq Nat \ {0}
  /\ SerialLen \in Nat /\ NsidDigits \in Nat /\ MaxRanges \in Nat
  /\ \A n \in Lengths : n \in Nat
  /\ PageLists \subseteq Seq(ModePage)
<1>1. Lengths \subseteq TwoBytes /\ NsidDigits \in 1 .. 10
  BY ScsiAssumption
<1>2. \A n \in Lengths : n \in Nat
  BY <1>1, ByteValues
<1>3. PageLists \subseteq Seq(ModePage)
  BY ScsiAssumption DEF ModePage
<1> QED
  BY ScsiAssumption, <1>1, <1>2, <1>3

-----------------------------------------------------------------------------
(* The bytes of mode pages.                                                *)

\* c is b with v appended.
Joins(c, b, v) ==
  /\ c = b \o v
  /\ Len(c) = Len(b) + Len(v)
  /\ \A i \in 1 .. Len(b) : c[i] = b[i]
  /\ \A i \in 1 .. Len(v) : c[Len(b) + i] = v[i]

\* There is such a sequence.
LEMMA Appended ==
  ASSUME NEW b \in Seq(Nat), NEW v \in Seq(Nat)
  PROVE  \E c \in Seq(Nat) : Joins(c, b, v)
<1>1. /\ b \o v \in Seq(Nat)
      /\ Len(b \o v) = Len(b) + Len(v)
      /\ \A i \in 1 .. Len(b) + Len(v) :
           (b \o v)[i] = IF i <= Len(b) THEN b[i] ELSE v[i - Len(b)]
  BY ConcatProperties
<1>2. Len(b) \in Nat /\ Len(v) \in Nat
  OBVIOUS
<1>3. ASSUME NEW i \in 1 .. Len(b) PROVE (b \o v)[i] = b[i]
  <2>1. i \in 1 .. Len(b) + Len(v) /\ i <= Len(b)
    BY <1>2
  <2> QED
    BY <1>1, <2>1
<1>4. ASSUME NEW i \in 1 .. Len(v) PROVE (b \o v)[Len(b) + i] = v[i]
  <2>1. /\ Len(b) + i \in 1 .. Len(b) + Len(v) /\ ~(Len(b) + i <= Len(b))
        /\ (Len(b) + i) - Len(b) = i
    BY <1>2
  <2> QED
    BY <1>1, <2>1
<1> QED
  BY <1>1, <1>3, <1>4 DEF Joins

\* The same for two of them, the first of two elements.
JoinsAll(d, b, v, w) ==
  /\ d = b \o v \o w
  /\ Len(d) = Len(b) + 2 + Len(w)
  /\ \A i \in 1 .. Len(b) : d[i] = b[i]
  /\ d[Len(b) + 1] = v[1]
  /\ d[Len(b) + 2] = v[2]
  /\ \A i \in 1 .. Len(w) : d[Len(b) + 2 + i] = w[i]

\* There is such a sequence.
LEMMA AppendedAll ==
  ASSUME NEW b \in Seq(Nat), NEW v \in Seq(Nat), NEW w \in Seq(Nat), Len(v) = 2
  PROVE  \E d \in Seq(Nat) : JoinsAll(d, b, v, w)
<1>1. PICK c \in Seq(Nat) : Joins(c, b, v)
  BY Appended
<1>2. PICK d \in Seq(Nat) : Joins(d, c, w)
  BY Appended
<1>3. Len(b) \in Nat /\ Len(w) \in Nat /\ Len(c) = Len(b) + 2
  BY <1>1 DEF Joins
<1>4. \A i \in 1 .. Len(b) : d[i] = b[i]
  BY <1>1, <1>2, <1>3 DEF Joins
<1>5. d[Len(b) + 1] = v[1] /\ d[Len(b) + 2] = v[2]
  BY <1>1, <1>2, <1>3 DEF Joins
<1>6. \A i \in 1 .. Len(w) : d[Len(b) + 2 + i] = w[i]
  BY <1>2, <1>3 DEF Joins
<1>7. Len(d) = Len(b) + 2 + Len(w)
  BY <1>2, <1>3 DEF Joins
<1>8. d = b \o v \o w
  BY <1>1, <1>2 DEF Joins
<1> QED
  BY <1>2, <1>4, <1>5, <1>6, <1>7, <1>8 DEF JoinsAll

\* The fields of a page are numbers.
LEMMA PageFields ==
  ASSUME NEW p \in ModePage
  PROVE  p.code \in Nat /\ p.len \in Nat /\ p.code < 64 /\ p.wce \in BOOLEAN
BY ByteValues DEF ModePage

\* The bytes so far and those of one page more.
WithPage(bytes, p) ==
  bytes \o <<p.code, p.len>>
        \o [b \in 1 .. p.len |-> IF b = 1 /\ p.wce THEN 4 ELSE 0]

\* bytes is the recursive function of PageBytes, up to page n.
IsBytes(bytes, pages, n) ==
  bytes = [k \in 0 .. n |->
             IF k = 0 THEN <<>> ELSE WithPage(bytes[k - 1], pages[k])]

\* There is such a function for every list of pages.
LEMMA BytesExist ==
  ASSUME NEW pages
  PROVE  \A n \in Nat : \E bytes : IsBytes(bytes, pages, n)
<1> DEFINE S == {n \in Nat : \E bytes : IsBytes(bytes, pages, n)}
<1>1. 0 \in S
  <2> DEFINE g == [k \in 0 .. 0 |-> <<>>]
  <2>1. IsBytes(g, pages, 0)
    BY DEF IsBytes
  <2> QED
    BY <2>1
<1>2. ASSUME NEW n \in Nat, n \in S PROVE n + 1 \in S
  <2>1. PICK g : IsBytes(g, pages, n)
    BY <1>2
  <2> DEFINE h == [k \in 0 .. n + 1 |->
                     IF k <= n THEN g[k] ELSE WithPage(g[n], pages[n + 1])]
  <2>2. \A k \in 0 .. n : h[k] = g[k]
    OBVIOUS
  <2>3. h[n + 1] = WithPage(h[n], pages[n + 1])
    OBVIOUS
  <2>4. \A k \in 0 .. n : g[k] = IF k = 0 THEN <<>> ELSE WithPage(g[k - 1], pages[k])
    BY <2>1 DEF IsBytes
  <2>5. ASSUME NEW k \in 0 .. n + 1
        PROVE  h[k] = IF k = 0 THEN <<>> ELSE WithPage(h[k - 1], pages[k])
    <3>1. CASE k = n + 1
      <4>1. k # 0 /\ k - 1 = n
        BY <3>1
      <4> QED
        BY <2>3, <3>1, <4>1
    <3>2. CASE k \in 0 .. n
      <4>1. k = 0 \/ k - 1 \in 0 .. n
        BY <3>2
      <4> QED
        BY <2>2, <2>4, <3>2, <4>1
    <3> QED
      BY <3>1, <3>2
  <2>6. h = [k \in 0 .. n + 1 |-> h[k]]
    OBVIOUS
  <2> HIDE DEF h
  <2>7. IsBytes(h, pages, n + 1)
    BY <2>5, <2>6 DEF IsBytes
  <2> QED
    BY <2>7
<1> HIDE DEF S
<1>3. Nat \subseteq S
  BY <1>1, <1>2, NatInductionOnSet
<1> QED
  BY <1>3 DEF S

(* PageBytes, unfolded.                                                    *)
LEMMA PageBytesUnfold ==
  ASSUME NEW pages, Len(pages) \in Nat
  PROVE  \E bytes : /\ IsBytes(bytes, pages, Len(pages))
                    /\ PageBytes(pages) = bytes[Len(pages)]
<1> DEFINE bytes == CHOOSE g : g = [k \in 0 .. Len(pages) |->
        IF k = 0 THEN <<>>
        ELSE g[k - 1] \o <<pages[k].code, pages[k].len>>
               \o [b \in 1 .. pages[k].len |->
                     IF b = 1 /\ pages[k].wce THEN 4 ELSE 0]]
<1>1. \E g : IsBytes(g, pages, Len(pages))
  BY BytesExist
<1>2. IsBytes(bytes, pages, Len(pages))
  BY Zenon, <1>1 DEF IsBytes, WithPage
<1>3. PageBytes(pages) = bytes[Len(pages)]
  BY DEF PageBytes
<1> QED
  BY Zenon, <1>2, <1>3

(* Where each page begins, and its first bytes.                            *)
LEMMA PagesLaidOut ==
  ASSUME NEW pages \in Seq(ModePage)
  PROVE  /\ PageBytes(pages) \in Seq(Nat)
         /\ \E at \in [0 .. Len(pages) -> Nat] :
              /\ at[0] = 0 /\ at[Len(pages)] = Len(PageBytes(pages))
              /\ \A k \in 1 .. Len(pages) :
                   /\ at[k] = at[k - 1] + 2 + pages[k].len
                   /\ at[k] <= Len(PageBytes(pages))
                   /\ PageBytes(pages)[at[k - 1] + 1] = pages[k].code
                   /\ PageBytes(pages)[at[k - 1] + 2] = pages[k].len
                   /\ pages[k].len >= 1 =>
                        PageBytes(pages)[at[k - 1] + 3] = IF pages[k].wce THEN 4 ELSE 0
<1>0. Len(pages) \in Nat /\ \A k \in 1 .. Len(pages) : pages[k] \in ModePage
  OBVIOUS
<1>1. PICK bytes : /\ IsBytes(bytes, pages, Len(pages))
                   /\ PageBytes(pages) = bytes[Len(pages)]
  BY <1>0, PageBytesUnfold
<1>2. /\ bytes[0] = <<>>
      /\ \A k \in 1 .. Len(pages) : bytes[k] = WithPage(bytes[k - 1], pages[k])
  BY <1>0, <1>1 DEF IsBytes
<1> DEFINE S == {k \in 0 .. Len(pages) : bytes[k] \in Seq(Nat)}
<1>3. 0 .. Len(pages) \subseteq S
  <2>1. 0 \in S
    <3>1. <<>> \in Seq(Nat) /\ 0 \in 0 .. Len(pages)
      BY <1>0
    <3> QED
      BY <1>2, <3>1
  <2>2. ASSUME NEW k \in 0 .. Len(pages) - 1, k \in S PROVE k + 1 \in S
    <3>1. k + 1 \in 1 .. Len(pages) /\ (k + 1) - 1 = k /\ k \in 0 .. Len(pages)
      BY <1>0
    <3>2. PICK p \in ModePage : p = pages[k + 1]
      BY <1>0, <3>1
    <3>3. bytes[k + 1] = WithPage(bytes[k], p)
      BY <1>2, <3>1, <3>2
    <3>4. bytes[k] \in Seq(Nat)
      BY <2>2
    <3>5. p.code \in Nat /\ p.len \in Nat
      BY <3>2, PageFields
    <3>6. <<p.code, p.len>> \in Seq(Nat)
      BY <3>5
    <3>7. [b \in 1 .. p.len |-> IF b = 1 /\ p.wce THEN 4 ELSE 0] \in Seq(Nat)
      BY <3>5
    <3>8. bytes[k + 1] \in Seq(Nat)
      BY <3>3, <3>4, <3>6, <3>7 DEF WithPage
    <3> QED
      BY <3>1, <3>8
  <2> HIDE DEF S
  <2> QED
    BY <1>0, <2>1, <2>2, InductionUpTo
<1>4. \A k \in 0 .. Len(pages) : bytes[k] \in Seq(Nat)
  BY <1>3
<1> HIDE DEF S
<1>5. ASSUME NEW k \in 1 .. Len(pages)
      PROVE  /\ Len(bytes[k]) = Len(bytes[k - 1]) + 2 + pages[k].len
             /\ \A i \in 1 .. Len(bytes[k - 1]) : bytes[k][i] = bytes[k - 1][i]
             /\ bytes[k][Len(bytes[k - 1]) + 1] = pages[k].code
             /\ bytes[k][Len(bytes[k - 1]) + 2] = pages[k].len
             /\ pages[k].len >= 1 =>
                  bytes[k][Len(bytes[k - 1]) + 3] = IF pages[k].wce THEN 4 ELSE 0
  <2>1. PICK p \in ModePage : p = pages[k]
    BY <1>0
  <2>2. PICK b \in Seq(Nat) : b = bytes[k - 1]
    BY <1>0, <1>4
  <2>3. bytes[k] = WithPage(b, p)
    BY <1>2, <2>1, <2>2
  <2>4. p.len \in Nat /\ p.code \in Nat
    BY <2>1, PageFields
  <2> DEFINE w == [i \in 1 .. p.len |-> IF i = 1 /\ p.wce THEN 4 ELSE 0]
             v == <<p.code, p.len>>
  <2>5. w \in Seq(Nat) /\ Len(w) = p.len /\ (p.len >= 1 => w[1] = IF p.wce THEN 4 ELSE 0)
    BY <2>4
  <2>6. v \in Seq(Nat) /\ Len(v) = 2 /\ v[1] = p.code /\ v[2] = p.len
    BY <2>4
  <2>7. WithPage(b, p) = b \o v \o w
    BY DEF WithPage
  <2> HIDE DEF v, w
  <2>8. PICK d \in Seq(Nat) : JoinsAll(d, b, v, w)
    BY <2>2, <2>5, <2>6, AppendedAll
  <2>9. bytes[k] = d
    BY <2>3, <2>7, <2>8 DEF JoinsAll
  <2>10. p.len >= 1 => d[Len(b) + 3] = w[1]
    <3>1. SUFFICES ASSUME p.len >= 1 PROVE d[Len(b) + 3] = w[1]
      OBVIOUS
    <3>2. 1 \in 1 .. Len(w) /\ Len(b) \in Nat
      BY <2>2, <2>4, <2>5, <3>1
    <3>3. Len(b) + 2 + 1 = Len(b) + 3
      BY <3>2
    <3> QED
      BY <2>8, <3>2, <3>3 DEF JoinsAll
  <2> QED
    BY <2>1, <2>2, <2>5, <2>6, <2>8, <2>9, <2>10 DEF JoinsAll
<1> DEFINE n == Len(pages)
    at == [k \in 0 .. n |-> Len(bytes[k])]
<1>6. ASSUME NEW k \in 0 .. n
      PROVE  \A m \in k .. n : /\ Len(bytes[k]) <= Len(bytes[m])
                               /\ \A i \in 1 .. Len(bytes[k]) : bytes[m][i] = bytes[k][i]
  <2> DEFINE T == {d \in 0 .. n - k : /\ Len(bytes[k]) <= Len(bytes[k + d])
                                     /\ \A i \in 1 .. Len(bytes[k]) : bytes[k + d][i] = bytes[k][i]}
  <2>0. n - k \in Nat /\ Len(bytes[k]) \in Nat
    BY <1>0, <1>4
  <2>1. 0 \in T
    BY <2>0
  <2>2. ASSUME NEW d \in 0 .. (n - k) - 1, d \in T PROVE d + 1 \in T
    <3>1. k + (d + 1) \in 1 .. n /\ (k + (d + 1)) - 1 = k + d /\ k + d \in 0 .. n /\ d + 1 \in 0 .. n - k
      BY <1>0, <2>0
    <3>2. PICK m \in 1 .. n : m = k + (d + 1)
      BY <3>1
    <3>3. m - 1 = k + d /\ m \in 1 .. Len(pages)
      BY <3>1, <3>2
    <3>4. /\ Len(bytes[m]) = Len(bytes[k + d]) + 2 + pages[m].len
          /\ \A i \in 1 .. Len(bytes[k + d]) : bytes[m][i] = bytes[k + d][i]
      BY <1>5, <3>3
    <3>5. pages[m].len \in Nat /\ Len(bytes[k + d]) \in Nat
      <4>1. pages[m] \in ModePage /\ bytes[k + d] \in Seq(Nat)
        BY <1>0, <1>4, <3>1, <3>3
      <4> QED
        BY <4>1, PageFields
    <3>6. /\ Len(bytes[k]) <= Len(bytes[k + d])
          /\ \A i \in 1 .. Len(bytes[k]) : bytes[k + d][i] = bytes[k][i]
      BY <2>2
    <3>7. Len(bytes[k]) <= Len(bytes[m])
      BY SMTT(30), <2>0, <3>4, <3>5, <3>6
    <3>8. \A i \in 1 .. Len(bytes[k]) : i \in 1 .. Len(bytes[k + d])
      BY SMTT(30), <2>0, <3>5, <3>6
    <3>9. \A i \in 1 .. Len(bytes[k]) : bytes[m][i] = bytes[k][i]
      BY <3>4, <3>6, <3>8
    <3> QED
      BY <3>1, <3>2, <3>7, <3>9
  <2>3. 0 .. n - k \subseteq T
    <3> HIDE DEF T, n
    <3> QED
      BY <2>0, <2>1, <2>2, InductionUpTo
  <2>4. TAKE m \in k .. n
  <2>5. m - k \in 0 .. n - k /\ k + (m - k) = m
    BY <1>0
  <2>6. m - k \in T
    BY <2>3, <2>5
  <2> QED
    BY <2>5, <2>6
<1>7. at \in [0 .. n -> Nat] /\ at[0] = 0 /\ at[n] = Len(bytes[n])
  BY <1>0, <1>2, <1>4
<1>8. ASSUME NEW k \in 1 .. n
      PROVE  /\ at[k] = at[k - 1] + 2 + pages[k].len
             /\ at[k] <= Len(bytes[n])
             /\ bytes[n][at[k - 1] + 1] = pages[k].code
             /\ bytes[n][at[k - 1] + 2] = pages[k].len
             /\ pages[k].len >= 1 =>
                  bytes[n][at[k - 1] + 3] = IF pages[k].wce THEN 4 ELSE 0
  <2>1. k \in 0 .. n /\ k - 1 \in 0 .. n /\ n \in k .. n /\ k \in 1 .. Len(pages)
    BY <1>0
  <2>2. at[k] = Len(bytes[k]) /\ at[k - 1] = Len(bytes[k - 1])
    BY <2>1
  <2>3. /\ Len(bytes[k]) <= Len(bytes[n])
        /\ \A i \in 1 .. Len(bytes[k]) : bytes[n][i] = bytes[k][i]
    BY <1>6, <2>1
  <2>4. pages[k].len \in Nat /\ Len(bytes[k - 1]) \in Nat
    <3>1. pages[k] \in ModePage /\ bytes[k - 1] \in Seq(Nat)
      BY <1>0, <1>4, <2>1
    <3> QED
      BY <3>1, PageFields
  <2> HIDE DEF at, n
  <2>5. /\ at[k - 1] + 1 \in 1 .. Len(bytes[k]) /\ at[k - 1] + 2 \in 1 .. Len(bytes[k])
        /\ pages[k].len >= 1 => at[k - 1] + 3 \in 1 .. Len(bytes[k])
    <3>1. Len(bytes[k]) = at[k - 1] + 2 + pages[k].len /\ at[k - 1] \in Nat
      BY <1>5, <2>1, <2>2, <2>4
    <3>2. PICK a \in Nat, l \in Nat, m \in Nat :
            a = at[k - 1] /\ l = pages[k].len /\ m = Len(bytes[k])
      BY <2>4, <3>1
    <3>3. a + 2 + l <= m
      BY <3>1, <3>2
    <3>4. a + 1 \in 1 .. m /\ a + 2 \in 1 .. m /\ (l >= 1 => a + 3 \in 1 .. m)
      BY <3>2, <3>3, WithinBytes
    <3> QED
      BY <3>2, <3>4
  <2>6. /\ Len(bytes[k]) = at[k - 1] + 2 + pages[k].len
        /\ bytes[k][at[k - 1] + 1] = pages[k].code
        /\ bytes[k][at[k - 1] + 2] = pages[k].len
        /\ pages[k].len >= 1 =>
             bytes[k][at[k - 1] + 3] = IF pages[k].wce THEN 4 ELSE 0
    BY <1>5, <2>1, <2>2
  <2>7. /\ bytes[n][at[k - 1] + 1] = bytes[k][at[k - 1] + 1]
        /\ bytes[n][at[k - 1] + 2] = bytes[k][at[k - 1] + 2]
        /\ pages[k].len >= 1 => bytes[n][at[k - 1] + 3] = bytes[k][at[k - 1] + 3]
    BY <2>3, <2>5
  <2> QED
    BY <2>2, <2>3, <2>6, <2>7
<1> HIDE DEF at
<1>9. n \in 0 .. n /\ PageBytes(pages) = bytes[n] /\ bytes[n] \in Seq(Nat)
  BY <1>0, <1>1, <1>4
<1> QED
  BY Zenon, <1>7, <1>8, <1>9

-----------------------------------------------------------------------------
(* Where the pages of a command end.                                       *)

\* end is the recursive function of PageEnd, up to page n.
IsEnd(end, n) ==
  end = [j \in 0 .. n |-> IF j = 0 THEN HeaderLen(cmd.is10) + cmd.bd
                          ELSE end[j - 1] + 2 + cmd.pages[j].len]

\* There is such a function up to every page.
LEMMA EndExists == \A n \in Nat : \E end : IsEnd(end, n)
<1> DEFINE S == {n \in Nat : \E end : IsEnd(end, n)}
<1>1. 0 \in S
  <2> DEFINE g == [j \in 0 .. 0 |-> HeaderLen(cmd.is10) + cmd.bd]
  <2>1. IsEnd(g, 0)
    BY DEF IsEnd
  <2> QED
    BY <2>1
<1>2. ASSUME NEW n \in Nat, n \in S PROVE n + 1 \in S
  <2>1. PICK g : IsEnd(g, n)
    BY <1>2
  <2> DEFINE h == [j \in 0 .. n + 1 |->
                     IF j <= n THEN g[j] ELSE g[n] + 2 + cmd.pages[n + 1].len]
  <2>2. \A j \in 0 .. n : h[j] = g[j]
    OBVIOUS
  <2>3. h[n + 1] = h[n] + 2 + cmd.pages[n + 1].len
    OBVIOUS
  <2>4. \A j \in 0 .. n : g[j] = IF j = 0 THEN HeaderLen(cmd.is10) + cmd.bd
                                 ELSE g[j - 1] + 2 + cmd.pages[j].len
    BY <2>1 DEF IsEnd
  <2>5. ASSUME NEW j \in 0 .. n + 1
        PROVE  h[j] = IF j = 0 THEN HeaderLen(cmd.is10) + cmd.bd
                      ELSE h[j - 1] + 2 + cmd.pages[j].len
    <3>1. CASE j = n + 1
      <4>1. j # 0 /\ j - 1 = n
        BY <3>1
      <4> QED
        BY <2>3, <3>1, <4>1
    <3>2. CASE j \in 0 .. n
      <4>1. j = 0 \/ j - 1 \in 0 .. n
        BY <3>2
      <4> QED
        BY <2>2, <2>4, <3>2, <4>1
    <3> QED
      BY <3>1, <3>2
  <2>6. h = [j \in 0 .. n + 1 |-> h[j]]
    OBVIOUS
  <2> HIDE DEF h
  <2>7. IsEnd(h, n + 1)
    BY <2>5, <2>6 DEF IsEnd
  <2> QED
    BY <2>7
<1> HIDE DEF S
<1>3. Nat \subseteq S
  BY <1>1, <1>2, NatInductionOnSet
<1> QED
  BY <1>3 DEF S

\* However far it goes, it says the same of a page.
LEMMA EndUnique ==
  ASSUME NEW m \in Nat, NEW n \in Nat, m <= n, NEW f, NEW g, IsEnd(f, n), IsEnd(g, m)
  PROVE  \A j \in 0 .. m : f[j] = g[j]
<1> DEFINE S == {j \in 0 .. m : f[j] = g[j]}
<1>1. /\ f[0] = HeaderLen(cmd.is10) + cmd.bd /\ g[0] = HeaderLen(cmd.is10) + cmd.bd
      /\ \A j \in 1 .. m : /\ f[j] = f[j - 1] + 2 + cmd.pages[j].len
                           /\ g[j] = g[j - 1] + 2 + cmd.pages[j].len
  <2>1. \A j \in 0 .. m : j \in 0 .. n
    OBVIOUS
  <2>2. 0 \in 0 .. m /\ \A j \in 1 .. m : j \in 0 .. m /\ j # 0
    OBVIOUS
  <2> QED
    BY <2>1, <2>2 DEF IsEnd
<1>2. 0 \in S
  BY <1>1
<1>3. ASSUME NEW j \in 0 .. m - 1, j \in S PROVE j + 1 \in S
  <2>1. j + 1 \in 1 .. m /\ (j + 1) - 1 = j /\ j + 1 \in 0 .. m
    OBVIOUS
  <2> QED
    BY <1>1, <1>3, <2>1
<1> HIDE DEF S
<1>4. 0 .. m \subseteq S
  BY <1>2, <1>3, InductionUpTo
<1> QED
  BY <1>4 DEF S

\* PageEnd is the function it is written as.
LEMMA PageEndUnfold ==
  ASSUME NEW k \in Nat
  PROVE  \E end : IsEnd(end, k) /\ PageEnd(k) = end[k]
<1> DEFINE end == CHOOSE e : e = [j \in 0 .. k |->
                    IF j = 0 THEN HeaderLen(cmd.is10) + cmd.bd
                    ELSE e[j - 1] + 2 + cmd.pages[j].len]
<1>1. \E e : IsEnd(e, k)
  BY EndExists
<1>2. IsEnd(end, k)
  BY <1>1 DEF IsEnd
<1>3. PageEnd(k) = end[k]
  BY DEF PageEnd
<1> QED
  BY <1>2, <1>3

\* Where each page ends, from where the one before it does.
LEMMA PageEnds ==
  /\ PageEnd(0) = HeaderLen(cmd.is10) + cmd.bd
  /\ \A k \in Nat \ {0} : PageEnd(k) = PageEnd(k - 1) + 2 + cmd.pages[k].len
<1>1. PageEnd(0) = HeaderLen(cmd.is10) + cmd.bd
  <2>1. PICK e : IsEnd(e, 0) /\ PageEnd(0) = e[0]
    BY PageEndUnfold
  <2> QED
    BY <2>1 DEF IsEnd
<1>2. ASSUME NEW k \in Nat \ {0}
      PROVE  PageEnd(k) = PageEnd(k - 1) + 2 + cmd.pages[k].len
  <2>0. PICK m \in Nat : m = k - 1
    OBVIOUS
  <2>1. PICK f : IsEnd(f, k) /\ PageEnd(k) = f[k]
    BY PageEndUnfold
  <2>2. PICK g : IsEnd(g, m) /\ PageEnd(m) = g[m]
    BY <2>0, PageEndUnfold
  <2>3. m <= k /\ m \in 0 .. m /\ k \in Nat /\ m \in Nat
    BY <2>0
  <2>4. f[m] = g[m]
    BY <2>1, <2>2, <2>3, EndUnique
  <2>5. f[k] = f[m] + 2 + cmd.pages[k].len
    BY <2>0, <2>1 DEF IsEnd
  <2> QED
    BY <2>0, <2>1, <2>2, <2>4, <2>5
<1> QED
  BY <1>1, <1>2

-----------------------------------------------------------------------------
(* The walk over the mode pages.                                           *)

\* One step of the walk, given what it finds further on.
WalkAt(walk, o) ==
  IF o + 2 > cmd.len THEN <<>>
  ELSE IF o + 2 + In(o + 1) > cmd.len THEN NULL
  ELSE LET rest == walk[o + 2 + In(o + 1)]
       IN  IF rest = NULL THEN NULL
           ELSE IF In(o) % 64 = 8 /\ In(o + 1) >= 1
           THEN <<(In(o + 2) \div 4) % 2 = 1>> \o rest ELSE rest

IsWalk(walk) == walk = [o \in Nat |-> WalkAt(walk, o)]

\* The bytes that the CDB counts are there.
InBuffer == cmd.len \in Nat /\ \A o \in 0 .. cmd.len - 1 : In(o) \in Nat

\* A step looks only further on.
LEMMA WalkLooksAhead ==
  ASSUME InBuffer, NEW f, NEW g, NEW o \in Nat, \A p \in Nat : p > o => f[p] = g[p]
  PROVE  WalkAt(f, o) = WalkAt(g, o)
<1>1. CASE o + 2 > cmd.len
  BY <1>1 DEF WalkAt
<1>2. CASE ~(o + 2 > cmd.len)
  <2>1. In(o + 1) \in Nat
    BY <1>2 DEF InBuffer
  <2>2. o + 2 + In(o + 1) \in Nat /\ o + 2 + In(o + 1) > o
    BY <2>1
  <2>3. f[o + 2 + In(o + 1)] = g[o + 2 + In(o + 1)]
    BY <2>2
  <2> QED
    BY <1>2, <2>3 DEF WalkAt
<1> QED
  BY <1>1, <1>2

\* There is such a function for every command.
LEMMA WalkExists ==
  ASSUME InBuffer
  PROVE  \E walk : IsWalk(walk)
<1> DEFINE Holds(g, m) == \A o \in Nat : o + m >= cmd.len => g[o] = WalkAt(g, o)
<1> DEFINE S == {m \in Nat : \E g : Holds(g, m)}
<1>0. cmd.len \in Nat
  BY DEF InBuffer
<1>1. 0 \in S
  <2> DEFINE g == [o \in Nat |-> <<>>]
  <2>1. ASSUME NEW o \in Nat, o >= cmd.len PROVE g[o] = WalkAt(g, o)
    BY <1>0, <2>1 DEF WalkAt
  <2> HIDE DEF g
  <2>2. Holds(g, 0)
    BY <2>1
  <2> QED
    BY <2>2
<1>2. ASSUME NEW m \in Nat, m \in S PROVE m + 1 \in S
  <2>1. PICK g : Holds(g, m)
    BY <1>2
  <2> DEFINE h == [o \in Nat |-> IF o + m >= cmd.len THEN g[o] ELSE WalkAt(g, o)]
  <2>2. ASSUME NEW o \in Nat, o + (m + 1) >= cmd.len PROVE h[o] = WalkAt(h, o)
    <3>1. \A p \in Nat : p > o => p + m >= cmd.len
      BY <1>0, <2>2
    <3>2. \A p \in Nat : p > o => h[p] = g[p]
      BY <3>1
    <3>3. h[o] = WalkAt(g, o)
      BY <2>1
    <3> HIDE DEF h
    <3>4. WalkAt(h, o) = WalkAt(g, o)
      BY <3>2, WalkLooksAhead
    <3> QED
      BY <3>3, <3>4
  <2> HIDE DEF h
  <2>3. Holds(h, m + 1)
    BY <2>2
  <2> HIDE DEF Holds
  <2> QED
    BY <2>3
<1> HIDE DEF S, Holds
<1>3. Nat \subseteq S
  BY <1>1, <1>2, NatInductionOnSet
<1>4. PICK g : Holds(g, cmd.len)
  BY <1>0, <1>3 DEF S
<1> DEFINE h == [o \in Nat |-> g[o]]
<1>5. ASSUME NEW o \in Nat PROVE h[o] = WalkAt(h, o)
  <2>1. g[o] = WalkAt(g, o)
    BY <1>0, <1>4 DEF Holds
  <2>2. \A p \in Nat : p > o => h[p] = g[p]
    OBVIOUS
  <2>3. h[o] = g[o]
    OBVIOUS
  <2> HIDE DEF h
  <2>4. WalkAt(h, o) = WalkAt(g, o)
    BY <2>2, WalkLooksAhead
  <2> QED
    BY <2>1, <2>3, <2>4
<1>6. h = [o \in Nat |-> h[o]]
  OBVIOUS
<1> HIDE DEF h
<1>7. IsWalk(h)
  BY <1>5, <1>6 DEF IsWalk
<1> QED
  BY <1>7

\* Walk is the function it is written as.
LEMMA WalkUnfold ==
  ASSUME InBuffer
  PROVE  \E walk : /\ \A o \in Nat : walk[o] = WalkAt(walk, o)
                   /\ \A off : Walk(off) = walk[off]
<1> DEFINE walk == CHOOSE w : w = [o \in Nat |->
  IF o + 2 > cmd.len THEN <<>>
  ELSE IF o + 2 + In(o + 1) > cmd.len THEN NULL
  ELSE LET rest == w[o + 2 + In(o + 1)]
       IN  IF rest = NULL THEN NULL
           ELSE IF In(o) % 64 = 8 /\ In(o + 1) >= 1
           THEN <<(In(o + 2) \div 4) % 2 = 1>> \o rest ELSE rest]
<1>1. \E w : IsWalk(w)
  BY WalkExists
<1>2. IsWalk(walk)
  BY Zenon, <1>1 DEF IsWalk, WalkAt
<1>3. \A off : Walk(off) = walk[off]
  BY DEF Walk
<1> HIDE DEF walk
<1>4. \A o \in Nat : walk[o] = WalkAt(walk, o)
  BY <1>2 DEF IsWalk
<1> QED
  BY <1>3, <1>4

-----------------------------------------------------------------------------
(* A parameter list with the pages in full.                                *)

Listed ==
  /\ cmd \in Command
  /\ cmd.in = ListBytes(cmd.is10, cmd.bd, cmd.pages)

\* The fields of a command.
LEMMA CommandFields ==
  ASSUME cmd \in Command
  PROVE  /\ cmd.len \in Nat /\ cmd.page \in Nat /\ cmd.is10 \in BOOLEAN
         /\ cmd.in \in Seq(Nat) /\ cmd.bd \in {0, 8}
         /\ cmd.pages \in Seq(ModePage) /\ cmd.room \in BOOLEAN
         /\ cmd.buffer \in Nat \cup {NULL}
         /\ HeaderLen(cmd.is10) \in {4, 8}
BY DEF Command, HeaderLen

\* Zeros are numbers, n of them.
LEMMA ZerosSeq ==
  ASSUME NEW n \in Nat
  PROVE  Zeros(n) \in Seq(Nat) /\ Len(Zeros(n)) = n /\ \A k \in 1 .. n : Zeros(n)[k] = 0
BY DEF Zeros

(* The header counts the block descriptors; the pages follow them.         *)
LEMMA ListHeader ==
  ASSUME Listed
  PROVE  /\ BdLen = cmd.bd
         /\ Len(cmd.in) = HeaderLen(cmd.is10) + cmd.bd + Len(PageBytes(cmd.pages))
         /\ \A i \in 1 .. Len(PageBytes(cmd.pages)) :
              cmd.in[HeaderLen(cmd.is10) + cmd.bd + i] = PageBytes(cmd.pages)[i]
<1>0. /\ cmd.bd \in {0, 8} /\ cmd.is10 \in BOOLEAN
      /\ PageBytes(cmd.pages) \in Seq(Nat)
  BY CommandFields, PagesLaidOut DEF Listed
<1> DEFINE h == IF cmd.is10
                THEN <<0, 0, 0, 0, 0, 0, cmd.bd \div 256, cmd.bd % 256>>
                ELSE <<0, 0, 0, cmd.bd>>
<1>1. cmd.bd \div 256 = 0 /\ cmd.bd % 256 = cmd.bd
  BY <1>0
<1>2. /\ h \in Seq(Nat) /\ Len(h) = HeaderLen(cmd.is10)
      /\ IF cmd.is10 THEN h[7] = 0 /\ h[8] = cmd.bd ELSE h[4] = cmd.bd
  BY <1>0, <1>1 DEF HeaderLen
<1>3. cmd.in = h \o Zeros(cmd.bd) \o PageBytes(cmd.pages)
  BY DEF Listed, ListBytes
<1> HIDE DEF h
<1>4. PICK z \in Seq(Nat) : z = Zeros(cmd.bd) /\ Len(z) = cmd.bd
  BY ZenonT(40), <1>0, ZerosSeq
<1>5. PICK c \in Seq(Nat) : Joins(c, h, z)
  BY <1>2, <1>4, Appended
<1>6. PICK b \in Seq(Nat) : b = PageBytes(cmd.pages)
  BY <1>0
<1>7. PICK d \in Seq(Nat) : Joins(d, c, b)
  BY <1>5, <1>6, Appended
<1>8. cmd.in = d
  BY <1>3, <1>4, <1>5, <1>6, <1>7 DEF Joins
<1>9. HeaderLen(cmd.is10) = (IF cmd.is10 THEN 8 ELSE 4)
  BY DEF HeaderLen
<1>10. /\ Len(c) = HeaderLen(cmd.is10) + cmd.bd
       /\ \A i \in 1 .. HeaderLen(cmd.is10) : c[i] = h[i]
  BY <1>2, <1>4, <1>5 DEF Joins
<1>11. ASSUME NEW i \in 1 .. HeaderLen(cmd.is10)
       PROVE  d[i] = h[i]
  <2>1. i \in 1 .. Len(c)
    BY <1>0, <1>9, <1>10
  <2>2. d[i] = c[i]
    BY <1>7, <2>1 DEF Joins
  <2> QED
    BY <1>10, <2>2
<1>12. BdLen = cmd.bd
  <2>1. CASE cmd.is10
    <3>1. d[7] = 0 /\ d[8] = cmd.bd
      BY <1>2, <1>9, <1>11, <2>1
    <3>2. BdLen = d[7] * 256 + d[8]
      BY <1>8, <2>1 DEF BdLen, In
    <3> QED
      BY <1>0, <3>1, <3>2
  <2>2. CASE ~cmd.is10
    <3>1. d[4] = cmd.bd
      BY <1>2, <1>9, <1>11, <2>2
    <3>2. BdLen = d[4]
      BY <1>8, <2>2 DEF BdLen, In
    <3> QED
      BY <3>1, <3>2
  <2> QED
    BY <1>0, <2>1, <2>2
<1>13. /\ Len(d) = HeaderLen(cmd.is10) + cmd.bd + Len(b)
       /\ \A i \in 1 .. Len(b) : d[HeaderLen(cmd.is10) + cmd.bd + i] = b[i]
  BY <1>7, <1>10 DEF Joins
<1> QED
  BY <1>6, <1>8, <1>12, <1>13

\* A sum that the solver does not find by itself.
LEMMA Regrouped ==
  ASSUME NEW x \in Nat, NEW a \in Nat, NEW l \in Nat
  PROVE  x + (a + 2 + l) = (x + a) + 2 + l
OBVIOUS

\* Each page is where the pages before it end.
LEMMA ListPages ==
  ASSUME Listed
  PROVE  /\ \A k \in 0 .. Len(cmd.pages) : PageEnd(k) \in Nat
         /\ PageEnd(0) = HeaderLen(cmd.is10) + cmd.bd
         /\ PageEnd(Len(cmd.pages)) = Len(cmd.in)
         /\ \A k \in 1 .. Len(cmd.pages) :
              /\ cmd.pages[k] \in ModePage
              /\ PageEnd(k) = PageEnd(k - 1) + 2 + cmd.pages[k].len
              /\ In(PageEnd(k - 1)) = cmd.pages[k].code
              /\ In(PageEnd(k - 1) + 1) = cmd.pages[k].len
              /\ cmd.pages[k].len >= 1 =>
                   In(PageEnd(k - 1) + 2) = IF cmd.pages[k].wce THEN 4 ELSE 0
<1>0. PICK pages \in Seq(ModePage) : pages = cmd.pages
  BY CommandFields DEF Listed
<1> DEFINE n == Len(pages)
           b == PageBytes(pages)
           base == HeaderLen(cmd.is10) + cmd.bd
<1>1. n \in Nat /\ base \in Nat
  BY <1>0, CommandFields DEF Listed
<1>2. PICK at \in [0 .. Len(pages) -> Nat] :
              /\ at[0] = 0 /\ at[Len(pages)] = Len(PageBytes(pages))
              /\ \A k \in 1 .. Len(pages) :
                   /\ at[k] = at[k - 1] + 2 + pages[k].len
                   /\ at[k] <= Len(PageBytes(pages))
                   /\ PageBytes(pages)[at[k - 1] + 1] = pages[k].code
                   /\ PageBytes(pages)[at[k - 1] + 2] = pages[k].len
                   /\ pages[k].len >= 1 =>
                        PageBytes(pages)[at[k - 1] + 3] = IF pages[k].wce THEN 4 ELSE 0
  BY <1>0, PagesLaidOut
<1>3. /\ Len(cmd.in) = base + Len(b)
      /\ \A i \in 1 .. Len(b) : cmd.in[base + i] = b[i]
  BY <1>0, ListHeader
<1>4. b \in Seq(Nat) /\ Len(b) \in Nat
  BY <1>0, PagesLaidOut
<1>5. ASSUME NEW k \in 1 .. n
      PROVE  k \in 0 .. n /\ k - 1 \in 0 .. n /\ pages[k] \in ModePage /\ pages[k].len \in Nat
  <2>1. pages[k] \in ModePage
    BY <1>0, <1>1
  <2> QED
    BY <1>1, <2>1, PageFields
<1> DEFINE S == {k \in 0 .. n : PageEnd(k) = base + at[k]}
<1>6. 0 .. n \subseteq S
  <2>1. 0 \in S
    <3>1. PageEnd(0) = base /\ at[0] = 0 /\ 0 \in 0 .. n
      BY <1>1, <1>2, PageEnds
    <3> HIDE DEF base, n
    <3> QED
      BY <1>1, <3>1
  <2>2. ASSUME NEW k \in 0 .. n - 1, k \in S PROVE k + 1 \in S
    <3>1. k + 1 \in 1 .. n /\ (k + 1) - 1 = k /\ k + 1 \in Nat \ {0} /\ k \in 0 .. n
      BY <1>1
    <3>2. at[k + 1] = at[k] + 2 + pages[k + 1].len /\ at[k] \in Nat
      BY <1>2, <3>1
    <3>3. PageEnd(k + 1) = PageEnd(k) + 2 + pages[k + 1].len
      BY <1>0, <3>1, PageEnds
    <3>4. pages[k + 1].len \in Nat
      BY <1>5, <3>1
    <3>5. PageEnd(k) = base + at[k]
      BY <2>2
    <3> HIDE DEF base, n
    <3>6. PageEnd(k + 1) = base + at[k + 1]
      <4>1. PICK l \in Nat : l = pages[k + 1].len
        BY <3>4
      <4>2. PICK a \in Nat : a = at[k]
        BY <3>2
      <4>3. base \in Nat
        BY <1>1
      <4>4. /\ at[k + 1] = a + 2 + l /\ PageEnd(k) = base + a
            /\ PageEnd(k + 1) = PageEnd(k) + 2 + l
        BY <3>2, <3>3, <3>5, <4>1, <4>2
      <4>5. PageEnd(k + 1) = (base + a) + 2 + l
        BY <4>4
      <4>6. base + (a + 2 + l) = (base + a) + 2 + l
        BY Zenon, <4>1, <4>2, <4>3, Regrouped
      <4> QED
        BY <4>4, <4>5, <4>6
    <3> QED
      BY <1>1, <3>1, <3>6
  <2> HIDE DEF S, n
  <2> QED
    BY <1>1, <2>1, <2>2, InductionUpTo
<1>7. \A k \in 0 .. n : PageEnd(k) = base + at[k] /\ at[k] \in Nat
  BY <1>2, <1>6
<1> HIDE DEF S
<1>8. ASSUME NEW k \in 1 .. n
      PROVE  /\ PageEnd(k) = PageEnd(k - 1) + 2 + pages[k].len
             /\ In(PageEnd(k - 1)) = pages[k].code
             /\ In(PageEnd(k - 1) + 1) = pages[k].len
             /\ pages[k].len >= 1 =>
                  In(PageEnd(k - 1) + 2) = IF pages[k].wce THEN 4 ELSE 0
  <2>1. /\ at[k] = at[k - 1] + 2 + pages[k].len
        /\ at[k] <= Len(b)
        /\ b[at[k - 1] + 1] = pages[k].code
        /\ b[at[k - 1] + 2] = pages[k].len
        /\ pages[k].len >= 1 => b[at[k - 1] + 3] = IF pages[k].wce THEN 4 ELSE 0
    BY <1>2
  <2>2. PICK a \in Nat : a = at[k - 1] /\ PageEnd(k - 1) = base + a
    BY <1>5, <1>7
  <2>3. PageEnd(k) = base + at[k] /\ pages[k].len \in Nat /\ at[k] \in Nat
    BY <1>5, <1>7
  <2>4. PICK len \in Nat : len = pages[k].len
    BY <2>3
  <2> HIDE DEF base, n, b
  <2>5. /\ a + 1 \in 1 .. Len(b) /\ a + 2 \in 1 .. Len(b)
        /\ len >= 1 => a + 3 \in 1 .. Len(b)
    <3>1. PICK lb \in Nat : lb = Len(b)
      BY <1>4
    <3>2. a + 2 + len <= lb
      BY <2>1, <2>2, <2>4, <3>1
    <3>3. /\ a + 1 \in 1 .. lb /\ a + 2 \in 1 .. lb
          /\ len >= 1 => a + 3 \in 1 .. lb
      BY <2>2, <2>4, <3>1, <3>2, WithinBytes
    <3> QED
      BY <3>1, <3>3
  <2>6. /\ PageEnd(k - 1) + 1 = base + (a + 1)
        /\ (PageEnd(k - 1) + 1) + 1 = base + (a + 2)
        /\ (PageEnd(k - 1) + 2) + 1 = base + (a + 3)
    <3>0. a \in Nat
      BY <2>2
    <3>1. PICK e : e = PageEnd(k - 1) /\ e = base + a
      BY <2>2
    <3>2. PICK from \in Nat : from = base
      BY <1>1
    <3>3. e = from + a
      BY <3>1, <3>2
    <3>4. e + 1 = from + (a + 1) /\ (e + 1) + 1 = from + (a + 2) /\ (e + 2) + 1 = from + (a + 3)
      BY <3>0, <3>2, <3>3
    <3> QED
      BY <3>1, <3>2, <3>4
  <2>7. /\ cmd.in[base + (a + 1)] = b[a + 1] /\ cmd.in[base + (a + 2)] = b[a + 2]
        /\ len >= 1 => cmd.in[base + (a + 3)] = b[a + 3]
    BY <1>3, <2>5
  <2>8. /\ In(PageEnd(k - 1)) = b[a + 1]
        /\ In(PageEnd(k - 1) + 1) = b[a + 2]
        /\ len >= 1 => In(PageEnd(k - 1) + 2) = b[a + 3]
    BY <2>6, <2>7 DEF In
  <2>9. PageEnd(k) = PageEnd(k - 1) + 2 + pages[k].len
    <3>1. PageEnd(k) = base + (a + 2 + len) /\ PageEnd(k - 1) = base + a /\ base \in Nat
      BY <1>1, <2>1, <2>2, <2>3, <2>4
    <3>2. base + (a + 2 + len) = (base + a) + 2 + len
      BY Zenon, <2>2, <2>4, <3>1, Regrouped
    <3> QED
      BY <2>4, <3>1, <3>2
  <2> QED
    BY <2>1, <2>2, <2>4, <2>8, <2>9
<1>9. /\ \A k \in 0 .. n : PageEnd(k) \in Nat
      /\ PageEnd(n) = Len(cmd.in)
  <2>1. n \in 0 .. n
    BY <1>1
  <2> HIDE DEF base, n, b
  <2>2. \A k \in 0 .. n : PageEnd(k) \in Nat
    BY <1>1, <1>7
  <2>3. at[n] = Len(b)
    BY <1>2 DEF n, b
  <2> QED
    BY <1>3, <1>7, <2>1, <2>2, <2>3
<1> QED
  BY <1>0, <1>5, <1>8, <1>9, PageEnds

-----------------------------------------------------------------------------
(* What the walk finds is what the client asks for.                        *)

\* The caching pages behind page k that the CDB counts in full.
CachingFrom(k) ==
  {j \in DOMAIN cmd.pages :
     j > k /\ PageEnd(j) <= cmd.len /\ cmd.pages[j].code = 8 /\ cmd.pages[j].len >= 1}

\* found is what the walk finds behind page k.
FindsFrom(found, k) ==
  found # NULL =>
    /\ found \in Seq(BOOLEAN)
    /\ found = <<>> <=> CachingFrom(k) = {}
    /\ found # <<>> =>
         \E m \in CachingFrom(k) :
           /\ \A j \in CachingFrom(k) : j <= m
           /\ found[Len(found)] = cmd.pages[m].wce

\* A sequence with one element in front of it.
LEMMA Prefixed ==
  ASSUME NEW x \in BOOLEAN, NEW rest \in Seq(BOOLEAN)
  PROVE  /\ <<x>> \o rest \in Seq(BOOLEAN) /\ <<x>> \o rest # <<>>
         /\ (<<x>> \o rest)[Len(<<x>> \o rest)] =
              IF rest = <<>> THEN x ELSE rest[Len(rest)]
<1>1. <<x>> \in Seq(BOOLEAN) /\ Len(<<x>>) = 1 /\ <<x>>[1] = x
  OBVIOUS
<1> DEFINE one == <<x>>
<1> HIDE DEF one
<1>2. /\ one \o rest \in Seq(BOOLEAN)
      /\ Len(one \o rest) = Len(one) + Len(rest)
      /\ \A i \in 1 .. Len(one) + Len(rest) :
           (one \o rest)[i] = IF i <= Len(one) THEN one[i] ELSE rest[i - Len(one)]
  BY <1>1, ConcatProperties DEF one
<1>3. Len(one) = 1 /\ one[1] = x
  BY <1>1 DEF one
<1> DEFINE all == one \o rest
<1>4. /\ all \in Seq(BOOLEAN) /\ Len(all) = 1 + Len(rest)
      /\ \A i \in 1 .. 1 + Len(rest) : all[i] = IF i <= 1 THEN one[i] ELSE rest[i - 1]
  BY <1>2, <1>3
<1> HIDE DEF all
<1>5. all # <<>> /\ Len(rest) \in Nat /\ (rest = <<>> <=> Len(rest) = 0)
  <2>1. Len(rest) \in Nat /\ (rest = <<>> <=> Len(rest) = 0)
    BY EmptySeq
  <2>2. Len(all) # 0
    BY <1>4, <2>1
  <2> QED
    BY <2>1, <2>2
<1>6. all[Len(all)] = IF rest = <<>> THEN x ELSE rest[Len(rest)]
  <2>1. CASE rest = <<>>
    <3>1. Len(all) = 1 /\ 1 \in 1 .. 1 + Len(rest)
      BY <1>4, <1>5, <2>1
    <3> QED
      BY <1>3, <1>4, <2>1, <3>1
  <2>2. CASE rest # <<>>
    <3>1. /\ Len(all) \in 1 .. 1 + Len(rest) /\ ~(Len(all) <= 1)
          /\ Len(all) - 1 = Len(rest)
      BY <1>4, <1>5, <2>2
    <3> QED
      BY <1>4, <2>2, <3>1
  <2> QED
    BY <2>1, <2>2
<1>7. <<x>> \o rest = all
  BY DEF all, one
<1> QED
  BY <1>4, <1>5, <1>6, <1>7

\* Arithmetic on the numbers of pages, counted from the last one.
LEMMA CountDown ==
  ASSUME NEW n \in Nat
  PROVE  /\ \A d \in 0 .. n - 1 : n - (d + 1) \in 0 .. n
         /\ \A k \in 0 .. n : n - k \in 0 .. n /\ n - (n - k) = k
OBVIOUS

\* The same, from one page on.
LEMMA CountFrom ==
  ASSUME NEW n \in Nat, NEW k \in 0 .. n, NEW e \in 0 .. n - (k + 1),
         NEW j, j = (k + 1) + (e + 1), j \in 1 .. n
  PROVE  j - 1 = (k + 1) + e /\ e + 1 \in 0 .. n - (k + 1) /\ j - 1 \in 0 .. n /\ j \in 0 .. n
OBVIOUS

\* From every page on, the walk finds the settings of the caching pages to come.
LEMMA WalkFinds ==
  ASSUME Listed, InBuffer, NullIsNoSetting, cmd.len <= Len(cmd.in),
         NEW walk, \A o \in Nat : walk[o] = WalkAt(walk, o)
  PROVE  \A k \in 0 .. Len(cmd.pages) :
           PageEnd(k) <= cmd.len => FindsFrom(walk[PageEnd(k)], k)
<1> DEFINE n == Len(cmd.pages)
    Found(k) == PageEnd(k) <= cmd.len => FindsFrom(walk[PageEnd(k)], k)
    S == {d \in 0 .. n : Found(n - d)}
<1>0. /\ n \in Nat /\ DOMAIN cmd.pages = 1 .. n
      /\ \A k \in 0 .. n : PageEnd(k) \in Nat
      /\ PageEnd(n) = Len(cmd.in) /\ cmd.len \in Nat /\ Len(cmd.in) \in Nat
  BY CommandFields, ListPages DEF Listed
<1>1. <<>> # NULL /\ <<>> \in Seq(BOOLEAN)
  <2>1. <<>> \in Seq(BOOLEAN)
    BY EmptySeq
  <2>2. NULL \notin Seq(BOOLEAN)
    BY DEF NullIsNoSetting
  <2> QED
    BY <2>1, <2>2
<1>2. 0 \in S
  <2>1. SUFFICES ASSUME PageEnd(n) <= cmd.len PROVE FindsFrom(walk[PageEnd(n)], n)
    BY <1>0
  <2>2. PageEnd(n) + 2 > cmd.len
    BY <1>0
  <2>3. walk[PageEnd(n)] = <<>>
    BY <1>0, <2>2 DEF WalkAt
  <2>4. CachingFrom(n) = {}
    BY <1>0 DEF CachingFrom
  <2> QED
    BY <1>1, <2>3, <2>4 DEF FindsFrom
<1>3. ASSUME NEW d \in 0 .. n - 1, d \in S PROVE d + 1 \in S
  <2>0. PICK k \in 0 .. n : k = n - (d + 1)
    BY <1>0, CountDown
  <2>1. /\ k + 1 = n - d /\ k + 1 \in 1 .. n /\ (k + 1) - 1 = k /\ d + 1 \in 0 .. n
        /\ k + 1 \in 0 .. n
    BY <1>0, <2>0
  <2>2. Found(k + 1)
    BY <1>3, <2>1
  <2> SUFFICES ASSUME PageEnd(k) <= cmd.len PROVE FindsFrom(walk[PageEnd(k)], k)
    BY <2>0, <2>1
  <2>3. PICK p \in ModePage : p = cmd.pages[k + 1]
    BY <2>1, ListPages
  <2>4. PICK o \in Nat : o = PageEnd(k)
    BY <1>0
  <2>5. PICK q \in Nat : q = PageEnd(k + 1)
    BY <1>0, <2>1
  <2>6. /\ q = o + 2 + p.len
        /\ In(o) = p.code /\ In(o + 1) = p.len
        /\ p.len >= 1 => In(o + 2) = IF p.wce THEN 4 ELSE 0
    BY <2>1, <2>3, <2>4, <2>5, ListPages
  <2>7. p.code \in Nat /\ p.len \in Nat /\ p.code < 64 /\ p.wce \in BOOLEAN
    BY <2>3, PageFields
  <2>8. walk[o] = IF o + 2 > cmd.len THEN <<>>
                  ELSE IF q > cmd.len THEN NULL
                  ELSE IF walk[q] = NULL THEN NULL
                  ELSE IF p.code % 64 = 8 /\ p.len >= 1
                  THEN <<(In(o + 2) \div 4) % 2 = 1>> \o walk[q] ELSE walk[q]
    BY <2>4, <2>6 DEF WalkAt
  <2>9. CachingFrom(k) = CachingFrom(k + 1) \cup
                           {j \in {k + 1} : q <= cmd.len /\ p.code = 8 /\ p.len >= 1}
    <3>1. k + 1 \in DOMAIN cmd.pages
      BY <1>0, <2>1
    <3>2. \A j \in DOMAIN cmd.pages : j > k <=> j = k + 1 \/ j > k + 1
      BY <1>0
    <3> QED
      BY <1>0, <2>3, <2>5, <3>1, <3>2 DEF CachingFrom
  <2>10. \A j \in CachingFrom(k + 1) : PageEnd(j) >= q /\ PageEnd(j) <= cmd.len
    <3> DEFINE T == {e \in 0 .. n - (k + 1) : PageEnd((k + 1) + e) >= q}
    <3>1. n - (k + 1) \in Nat
      BY <1>0, <2>1
    <3>2. 0 \in T
      BY <2>5, <3>1
    <3>3. ASSUME NEW e \in 0 .. (n - (k + 1)) - 1, e \in T PROVE e + 1 \in T
      <4>1. PICK j \in 1 .. n : j = (k + 1) + (e + 1)
        BY <1>0, <3>1
      <4>2. /\ j - 1 = (k + 1) + e /\ e + 1 \in 0 .. n - (k + 1)
            /\ j - 1 \in 0 .. n /\ j \in 0 .. n
        <5>1. e \in 0 .. n - (k + 1)
          BY <3>1
        <5>2. n \in Nat /\ k \in 0 .. n
          BY <1>0, <2>0, <2>1
        <5> HIDE DEF n, T
        <5> QED
          BY <4>1, <5>1, <5>2, CountFrom
      <4>3. PageEnd(j) = PageEnd(j - 1) + 2 + cmd.pages[j].len /\ cmd.pages[j] \in ModePage
        BY ListPages
      <4>4. cmd.pages[j].len \in Nat /\ PageEnd(j - 1) \in Nat /\ PageEnd(j) \in Nat
        BY <1>0, <4>2, <4>3, PageFields
      <4>5. PageEnd(j - 1) >= q
        BY <3>3, <4>2
      <4>6. PageEnd(j) >= q
        <5>1. PICK x \in Nat : x = PageEnd(j - 1)
          BY <4>4
        <5>2. PICK y \in Nat : y = cmd.pages[j].len
          BY <4>4
        <5> QED
          BY SMTT(30), <4>3, <4>5, <5>1, <5>2
      <4> QED
        BY <4>1, <4>2, <4>6
    <3> HIDE DEF T, n
    <3>4. 0 .. n - (k + 1) \subseteq T
      BY <3>1, <3>2, <3>3, InductionUpTo
    <3>5. ASSUME NEW j \in CachingFrom(k + 1) PROVE PageEnd(j) >= q /\ PageEnd(j) <= cmd.len
      <4>1. j \in 1 .. n /\ j > k + 1 /\ PageEnd(j) <= cmd.len
        BY <1>0 DEF CachingFrom
      <4>2. j - (k + 1) \in 0 .. n - (k + 1) /\ (k + 1) + (j - (k + 1)) = j
        BY <1>0, <4>1
      <4> QED
        BY <3>4, <4>1, <4>2 DEF T
    <3> QED
      BY <3>5
  <2>11. CASE q > cmd.len
    <3>1. CachingFrom(k) = {}
      <4>1. \A j \in CachingFrom(k + 1) : PageEnd(j) \in Nat
        BY <1>0 DEF CachingFrom
      <4>2. CachingFrom(k + 1) = {}
        BY <1>0, <2>5, <2>10, <2>11, <4>1
      <4>3. ~(q <= cmd.len)
        BY <1>0, <2>5, <2>11
      <4> QED
        BY <2>9, <4>2, <4>3
    <3>2. walk[o] = <<>> \/ walk[o] = NULL
      BY <2>8, <2>11
    <3> QED
      BY <1>1, <2>4, <3>1, <3>2 DEF FindsFrom
  <2>12. CASE q <= cmd.len
    <3>1. FindsFrom(walk[q], k + 1)
      BY <2>2, <2>5, <2>12
    <3>2. ~(o + 2 > cmd.len) /\ ~(q > cmd.len)
      BY ONLY <1>0, <2>6, <2>7, <2>12
    <3>3. p.code % 64 = p.code
      BY ONLY <2>7
    <3>4. CASE walk[q] = NULL
      <4>1. walk[o] = NULL
        BY <2>8, <3>2, <3>4
      <4> QED
        BY <2>4, <4>1 DEF FindsFrom
    <3>5. CASE walk[q] # NULL /\ ~(p.code = 8 /\ p.len >= 1)
      <4>1. walk[o] = walk[q] /\ CachingFrom(k) = CachingFrom(k + 1)
        BY <2>8, <2>9, <3>2, <3>3, <3>5
      <4> QED
        BY <2>4, <3>1, <4>1 DEF FindsFrom
    <3>6. CASE walk[q] # NULL /\ p.code = 8 /\ p.len >= 1
      <4>1. ((In(o + 2) \div 4) % 2 = 1) = p.wce
        <5>1. In(o + 2) = IF p.wce THEN 4 ELSE 0
          BY <2>6, <3>6
        <5>2. (4 \div 4) % 2 = 1 /\ (0 \div 4) % 2 # 1
          OBVIOUS
        <5>3. CASE p.wce
          BY <5>1, <5>2, <5>3, <2>7
        <5>4. CASE ~p.wce
          BY <5>1, <5>2, <5>4, <2>7
        <5> QED
          BY <5>3, <5>4
      <4>2. walk[o] = <<p.wce>> \o walk[q]
        BY <2>8, <3>2, <3>3, <3>6, <4>1
      <4>3. CachingFrom(k) = CachingFrom(k + 1) \cup {k + 1}
        BY <2>9, <2>12, <3>6
      <4>4. PICK rest \in Seq(BOOLEAN) : rest = walk[q]
        BY <3>1, <3>6 DEF FindsFrom
      <4>5. PICK found \in Seq(BOOLEAN) : found = <<p.wce>> \o rest
        BY <2>7, <4>4, Prefixed
      <4>6. /\ found # <<>>
            /\ found[Len(found)] = IF rest = <<>> THEN p.wce ELSE rest[Len(rest)]
        BY <2>7, <4>4, <4>5, Prefixed
      <4>7. \A j \in CachingFrom(k + 1) : j \in Nat /\ k + 1 <= j
        BY SMTT(30), <1>0 DEF CachingFrom
      <4>8. \E m \in CachingFrom(k) : /\ \A j \in CachingFrom(k) : j <= m
                                      /\ found[Len(found)] = cmd.pages[m].wce
        <5>1. CASE rest = <<>>
          <6>1. CachingFrom(k + 1) = {}
            BY <3>1, <3>6, <4>4, <5>1 DEF FindsFrom
          <6>2. CachingFrom(k) = {k + 1} /\ k + 1 <= k + 1
            BY <2>1, <4>3, <6>1
          <6> QED
            BY <2>3, <4>6, <5>1, <6>2
        <5>2. CASE rest # <<>>
          <6>1. PICK m \in CachingFrom(k + 1) :
                  /\ \A j \in CachingFrom(k + 1) : j <= m
                  /\ rest[Len(rest)] = cmd.pages[m].wce
            BY <3>1, <3>6, <4>4, <5>2 DEF FindsFrom
          <6>2. \A j \in CachingFrom(k) : j <= m
            BY <4>3, <4>7, <6>1
          <6> QED
            BY <4>3, <4>6, <5>2, <6>1, <6>2
        <5> QED
          BY <5>1, <5>2
      <4>9. walk[PageEnd(k)] = found /\ CachingFrom(k) # {}
        BY <2>4, <4>2, <4>3, <4>4, <4>5
      <4> QED
        BY <4>5, <4>6, <4>8, <4>9 DEF FindsFrom
    <3> QED
      BY <3>4, <3>5, <3>6
  <2> QED
    BY <1>0, <2>11, <2>12
<1>4. 0 .. n \subseteq S
  <2> HIDE DEF S, n
  <2> QED
    BY <1>0, <1>2, <1>3, InductionUpTo
<1>5. ASSUME NEW k \in 0 .. n PROVE Found(k)
  <2>1. n - k \in S /\ n - (n - k) = k
    BY <1>0, <1>4, CountDown
  <2> QED
    BY <2>1
<1> QED
  BY <1>5

\* Bytes that the CDB counts and the client has.
LEMMA BytesThere ==
  ASSUME cmd \in Command, cmd.len <= Len(cmd.in)
  PROVE  InBuffer
<1>1. PICK b \in Seq(Nat) : b = cmd.in
  BY CommandFields
<1>2. cmd.len \in Nat /\ Len(b) \in Nat /\ cmd.len <= Len(b)
  BY <1>1, CommandFields
<1>3. ASSUME NEW o \in 0 .. cmd.len - 1 PROVE In(o) \in Nat
  <2>1. o + 1 \in 1 .. Len(b)
    BY <1>2
  <2>2. b[o + 1] \in Nat
    BY <1>1, <2>1
  <2> QED
    BY <1>1, <2>2 DEF In
<1> QED
  BY <1>2, <1>3 DEF InBuffer

\* MODE SELECT finds what Asked says, or refuses the list.
LEMMA WalkAsked ==
  ASSUME Listed, NullIsNoSetting, cmd.buffer = Len(cmd.in), ~BadList,
         NEW wce, wce = Walk(HeaderLen(cmd.is10) + BdLen), wce # NULL
  PROVE  /\ wce \in Seq(BOOLEAN)
         /\ wce = <<>> <=> Asked = NULL
         /\ wce # <<>> => wce[Len(wce)] = Asked
<1>0. cmd.len \in Nat /\ Len(cmd.in) \in Nat /\ Len(cmd.pages) \in Nat
      /\ DOMAIN cmd.pages = 1 .. Len(cmd.pages) /\ cmd.pages \in Seq(ModePage)
  BY CommandFields DEF Listed
<1>1. /\ cmd.len <= Len(cmd.in)
      /\ HeaderLen(cmd.is10) + BdLen <= cmd.len
      /\ BdLen = cmd.bd
  <2>1. BdLen = cmd.bd /\ cmd.bd \in {0, 8} /\ HeaderLen(cmd.is10) \in {4, 8}
    BY ListHeader, CommandFields DEF Listed
  <2> QED
    BY <1>0, <2>1 DEF BadList, NoRoomFor
<1>2. InBuffer
  BY <1>1, BytesThere DEF Listed
<1>3. PICK walk : /\ \A o \in Nat : walk[o] = WalkAt(walk, o)
                  /\ \A off : Walk(off) = walk[off]
  BY <1>2, WalkUnfold
<1>4. PageEnd(0) = HeaderLen(cmd.is10) + cmd.bd /\ 0 \in 0 .. Len(cmd.pages)
  BY <1>0, ListPages
<1>5. PageEnd(0) <= cmd.len /\ wce = walk[PageEnd(0)]
  BY <1>1, <1>3, <1>4
<1>6. FindsFrom(wce, 0)
  BY <1>1, <1>2, <1>3, <1>4, <1>5, WalkFinds
<1> DEFINE caching == {k \in DOMAIN cmd.pages :
                    /\ PageEnd(k) <= cmd.len
                    /\ cmd.pages[k].code = 8 /\ cmd.pages[k].len >= 1}
<1>7. caching = CachingFrom(0)
  BY <1>0 DEF CachingFrom
<1>8. Asked = IF caching = {} THEN NULL
              ELSE cmd.pages[CHOOSE k \in caching : \A j \in caching : j <= k].wce
  BY DEF Asked
<1>9. \A k \in caching : k \in Nat /\ cmd.pages[k].wce \in BOOLEAN
  <2>1. ASSUME NEW k \in caching PROVE k \in Nat /\ cmd.pages[k] \in ModePage
    BY <1>0
  <2> QED
    BY <2>1, PageFields
<1> HIDE DEF caching
<1>10. wce \in Seq(BOOLEAN) /\ (wce = <<>> <=> caching = {})
  BY <1>6, <1>7 DEF FindsFrom
<1>11. CASE caching = {}
  BY <1>8, <1>10, <1>11
<1>12. CASE caching # {}
  <2>1. PICK m \in caching : /\ \A j \in caching : j <= m
                             /\ wce[Len(wce)] = cmd.pages[m].wce
    BY <1>6, <1>7, <1>10, <1>12 DEF FindsFrom
  <2> DEFINE c == CHOOSE k \in caching : \A j \in caching : j <= k
  <2>2. c \in caching /\ \A j \in caching : j <= c
    BY <2>1
  <2>3. c = m
    BY <1>9, <2>1, <2>2
  <2>4. Asked = cmd.pages[m].wce
    BY <1>8, <1>12, <2>3
  <2>5. Asked # NULL
    <3>1. cmd.pages[m].wce \in BOOLEAN
      BY <1>9, <2>1
    <3> QED
      BY <2>4, <3>1 DEF NullIsNoSetting
  <2> QED
    BY <1>10, <1>12, <2>1, <2>4, <2>5
<1> QED
  BY <1>11, <1>12

\* A CDB that counts no byte asks for nothing.
LEMMA NothingAsked ==
  ASSUME Listed, cmd.len = 0
  PROVE  Asked = NULL
<1>1. ASSUME NEW k \in DOMAIN cmd.pages PROVE ~(PageEnd(k) <= cmd.len)
  <2>0. Len(cmd.pages) \in Nat /\ DOMAIN cmd.pages = 1 .. Len(cmd.pages)
    BY CommandFields DEF Listed
  <2>1. k \in 1 .. Len(cmd.pages) /\ k - 1 \in 0 .. Len(cmd.pages)
    BY <2>0
  <2>2. PICK p \in ModePage : p = cmd.pages[k]
    BY <2>1, ListPages
  <2>3. PICK x \in Nat : x = PageEnd(k - 1)
    BY <2>1, ListPages
  <2>4. PageEnd(k) = x + 2 + p.len
    BY <2>1, <2>2, <2>3, ListPages
  <2>5. p.len \in Nat
    BY <2>2, PageFields
  <2> QED
    BY <2>3, <2>4, <2>5
<1> QED
  BY <1>1 DEF Asked

-----------------------------------------------------------------------------
(* What MODE SENSE returns, and a MODE SELECT that sends it back.          *)

\* The bytes of the caching page of MODE SENSE.
LEMMA CachingPageBytes ==
  ASSUME vwc_enabled \in BOOLEAN
  PROVE  /\ CachingPage \in Seq(Nat) /\ Len(CachingPage) = 20
         /\ CachingPage[1] = 8 /\ CachingPage[2] = 18
         /\ CachingPage[3] = IF vwc_enabled THEN 4 ELSE 0
<1> DEFINE front == <<8, 18, IF vwc_enabled THEN 4 ELSE 0>>
<1>1. /\ front \in Seq(Nat) /\ Len(front) = 3 /\ front[1] = 8 /\ front[2] = 18
      /\ front[3] = IF vwc_enabled THEN 4 ELSE 0
  OBVIOUS
<1>2. CachingPage = front \o Zeros(17)
  BY DEF CachingPage
<1> HIDE DEF front
<1>3. PICK z \in Seq(Nat) : z = Zeros(17) /\ Len(z) = 17
  BY ZerosSeq
<1>4. PICK c \in Seq(Nat) : Joins(c, front, z)
  BY <1>1, <1>3, Appended
<1>5. CachingPage = c
  BY <1>2, <1>3, <1>4 DEF Joins
<1>6. Len(c) = 20 /\ \A i \in 1 .. 3 : c[i] = front[i]
  <2>1. Len(c) = Len(front) + Len(z) /\ \A i \in 1 .. Len(front) : c[i] = front[i]
    BY <1>4 DEF Joins
  <2>2. Len(front) = 3 /\ Len(z) = 17
    BY <1>1, <1>3
  <2> QED
    BY <2>1, <2>2
<1> QED
  BY <1>1, <1>5, <1>6

\* A whole header and room bytes of the caching page.
ReturnedWhole(bytes, n, room) ==
  /\ n = HeaderLen(cmd.is10) + room
  /\ bytes = ModeHeader(n) \o SubSeq(CachingPage, 1, room)

\* The bytes of a whole header and of what follows it.
LEMMA ReturnedBytes ==
  ASSUME cmd \in Command, vwc_enabled \in BOOLEAN, NEW room \in 0 .. 20,
         NEW n, NEW bytes, ReturnedWhole(bytes, n, room)
  PROVE  /\ bytes \in Seq(Nat) /\ n \in Nat /\ Len(bytes) = n
         /\ IF cmd.is10 THEN bytes[7] = 0 /\ bytes[8] = 0 ELSE bytes[4] = 0
         /\ \A i \in 1 .. room : bytes[HeaderLen(cmd.is10) + i] = CachingPage[i]
<1>0. /\ cmd.is10 \in BOOLEAN /\ HeaderLen(cmd.is10) = (IF cmd.is10 THEN 8 ELSE 4)
      /\ n \in Nat /\ n = HeaderLen(cmd.is10) + room
  BY CommandFields DEF HeaderLen, ReturnedWhole
<1>1. PICK page \in Seq(Nat) : page = CachingPage /\ Len(page) = 20
  BY CachingPageBytes
<1>2. PICK body \in Seq(Nat) : /\ body = SubSeq(CachingPage, 1, room)
                               /\ Len(body) = room
                               /\ \A i \in 1 .. room : body[i] = page[i]
  <2>1. \A i \in 1 .. room : page[i] \in Nat
    <3>1. \A i \in 1 .. Len(page) : page[i] \in Nat
      <4>1. page \in Seq(Nat)
        BY <1>1
      <4> QED
        BY <4>1, ElementOfSeq
    <3>2. \A i \in 1 .. room : i \in 1 .. 20
      OBVIOUS
    <3> QED
      BY <1>1, <3>1, <3>2
  <2>2. /\ SubSeq(page, 1, room) \in Seq(Nat)
        /\ Len(SubSeq(page, 1, room)) = IF 1 <= room THEN room - 1 + 1 ELSE 0
        /\ \A i \in 1 .. room - 1 + 1 : SubSeq(page, 1, room)[i] = page[1 + i - 1]
    BY <2>1, SubSeqProperties
  <2> DEFINE b == SubSeq(page, 1, room)
  <2>3. b \in Seq(Nat)
    BY <2>2
  <2>4. Len(b) = room
    BY <2>2
  <2>5. \A i \in 1 .. room : i \in 1 .. room - 1 + 1 /\ 1 + i - 1 = i
    OBVIOUS
  <2>6. \A i \in 1 .. room : b[i] = page[i]
    BY <2>2, <2>5
  <2>7. b = SubSeq(CachingPage, 1, room)
    BY <1>1
  <2> HIDE DEF b
  <2> QED
    BY <2>3, <2>4, <2>6, <2>7
<1>3. PICK h \in Seq(Nat) : /\ h = ModeHeader(n)
                            /\ Len(h) = HeaderLen(cmd.is10)
                            /\ IF cmd.is10 THEN h[7] = 0 /\ h[8] = 0 ELSE h[4] = 0
  <2>1. CASE cmd.is10
    <3> DEFINE f == <<(n - 2) \div 256, (n - 2) % 256>>
    <3>1. n - 2 \in Nat
      BY <1>0, <2>1
    <3>2. (n - 2) \div 256 \in Nat /\ (n - 2) % 256 \in Nat
      BY <3>1
    <3>3. f \in Seq(Nat) /\ Len(f) = 2
      BY <3>2
    <3>4. ModeHeader(n) = f \o Zeros(6)
      BY <2>1 DEF ModeHeader
    <3> HIDE DEF f
    <3>5. PICK z \in Seq(Nat) : z = Zeros(6) /\ Len(z) = 6 /\ \A k \in 1 .. 6 : z[k] = 0
      BY ZerosSeq
    <3>6. PICK c \in Seq(Nat) : Joins(c, f, z)
      BY <3>3, <3>5, Appended
    <3>7. c = ModeHeader(n)
      BY <3>4, <3>5, <3>6 DEF Joins
    <3>8. Len(c) = 8 /\ \A k \in 1 .. 6 : c[2 + k] = 0
      <4>1. /\ Len(c) = Len(f) + Len(z)
            /\ \A k \in 1 .. Len(z) : c[Len(f) + k] = z[k]
        BY <3>6 DEF Joins
      <4>2. Len(f) = 2 /\ Len(z) = 6 /\ \A k \in 1 .. 6 : z[k] = 0
        BY <3>3, <3>5
      <4>3. Len(c) = 2 + 6 /\ \A k \in 1 .. 6 : c[2 + k] = 0
        BY <4>1, <4>2
      <4> QED
        BY <4>3
    <3>9. c[2 + 5] = 0 /\ c[2 + 6] = 0
      BY <3>8
    <3>10. c[7] = 0 /\ c[8] = 0
      BY <3>9
    <3> QED
      BY <1>0, <2>1, <3>7, <3>8, <3>10
  <2>2. CASE ~cmd.is10
    <3>1. (n - 1) % 256 \in Nat
      BY <1>0, <2>2
    <3>2. ModeHeader(n) = <<(n - 1) % 256, 0, 0, 0>>
      BY <2>2 DEF ModeHeader
    <3>3. PICK x \in Nat : x = (n - 1) % 256
      BY <3>1
    <3>4. <<x, 0, 0, 0>> \in Seq(Nat) /\ Len(<<x, 0, 0, 0>>) = 4 /\ <<x, 0, 0, 0>>[4] = 0
      OBVIOUS
    <3>5. <<x, 0, 0, 0>> = ModeHeader(n)
      BY <3>2, <3>3
    <3>6. HeaderLen(cmd.is10) = 4
      BY <1>0, <2>2
    <3> QED
      BY <2>2, <3>4, <3>5, <3>6
  <2> QED
    BY <1>0, <2>1, <2>2
<1>4. PICK d \in Seq(Nat) : Joins(d, h, body)
  BY <1>2, <1>3, Appended
<1>5. bytes = d
  BY <1>2, <1>3, <1>4 DEF Joins, ReturnedWhole
<1>6. /\ Len(d) = n
      /\ \A i \in 1 .. HeaderLen(cmd.is10) : d[i] = h[i]
      /\ \A i \in 1 .. room : d[HeaderLen(cmd.is10) + i] = page[i]
  <2>1. /\ Len(d) = Len(h) + Len(body)
        /\ \A i \in 1 .. Len(h) : d[i] = h[i]
        /\ \A i \in 1 .. Len(body) : d[Len(h) + i] = body[i]
    BY <1>4 DEF Joins
  <2>2. Len(h) = HeaderLen(cmd.is10) /\ Len(body) = room /\ \A i \in 1 .. room : body[i] = page[i]
    BY <1>2, <1>3
  <2> QED
    BY <1>0, <2>1, <2>2
<1>7. IF cmd.is10 THEN d[7] = 0 /\ d[8] = 0 ELSE d[4] = 0
  <2>1. CASE cmd.is10
    <3>1. 7 \in 1 .. HeaderLen(cmd.is10) /\ 8 \in 1 .. HeaderLen(cmd.is10)
      BY <1>0, <2>1
    <3> QED
      BY <1>3, <1>6, <2>1, <3>1
  <2>2. CASE ~cmd.is10
    <3>1. 4 \in 1 .. HeaderLen(cmd.is10)
      BY <1>0, <2>2
    <3> QED
      BY <1>3, <1>6, <2>2, <3>1
  <2> QED
    BY <2>1, <2>2
<1> QED
  BY <1>0, <1>1, <1>5, <1>6, <1>7

\* Sent back while the write cache is as it was, it changes nothing.
LEMMA SentBackWalk ==
  ASSUME cmd \in Command, vwc_enabled \in BOOLEAN, Returned(cmd.in, cmd.len), ~BadList
  PROVE  Walk(HeaderLen(cmd.is10) + BdLen) \in {NULL, <<>>, <<vwc_enabled>>}
<1>0. cmd.is10 \in BOOLEAN /\ HeaderLen(cmd.is10) = (IF cmd.is10 THEN 8 ELSE 4) /\ cmd.len \in Nat
  BY CommandFields DEF HeaderLen
<1>1. ~(cmd.len < HeaderLen(cmd.is10))
  BY DEF BadList
<1>2. PICK room \in 0 .. 20 : ReturnedWhole(cmd.in, cmd.len, room)
  <2>1. ~(cmd.len \in 0 .. HeaderLen(cmd.is10) - 1)
    BY <1>0, <1>1
  <2> QED
    BY Zenon, <2>1 DEF Returned, ReturnedWhole
<1>3. /\ cmd.in \in Seq(Nat) /\ Len(cmd.in) = cmd.len
      /\ IF cmd.is10 THEN cmd.in[7] = 0 /\ cmd.in[8] = 0 ELSE cmd.in[4] = 0
      /\ \A i \in 1 .. room : cmd.in[HeaderLen(cmd.is10) + i] = CachingPage[i]
  <2>1. PICK n, b : n = cmd.len /\ b = cmd.in
    OBVIOUS
  <2>2. ReturnedWhole(b, n, room)
    BY <1>2, <2>1
  <2>3. /\ b \in Seq(Nat) /\ Len(b) = n
        /\ IF cmd.is10 THEN b[7] = 0 /\ b[8] = 0 ELSE b[4] = 0
        /\ \A i \in 1 .. room : b[HeaderLen(cmd.is10) + i] = CachingPage[i]
    BY ZenonT(40), <2>2, ReturnedBytes
  <2> QED
    BY <2>1, <2>3
<1>4. BdLen = 0
  BY <1>0, <1>3 DEF BdLen, In
<1>5. InBuffer
  BY <1>0, <1>3, BytesThere
<1>6. PICK walk : /\ \A o \in Nat : walk[o] = WalkAt(walk, o)
                  /\ \A off : Walk(off) = walk[off]
  BY <1>5, WalkUnfold
<1>7. PICK o \in Nat : o = HeaderLen(cmd.is10)
  BY <1>0
<1>8. Walk(HeaderLen(cmd.is10) + BdLen) = WalkAt(walk, o)
  BY <1>4, <1>6, <1>7
<1>9. cmd.len = o + room /\ \A i \in 1 .. room : cmd.in[o + i] = CachingPage[i]
  BY <1>2, <1>3, <1>7 DEF ReturnedWhole
<1>10. CASE room < 2
  <2>1. o + 2 > cmd.len
    BY <1>9, <1>10
  <2> QED
    BY <1>8, <2>1 DEF WalkAt
<1>11. CASE room >= 2
  <2>1. cmd.in[o + 1] = 8 /\ cmd.in[o + 2] = 18
    <3>1. 1 \in 1 .. room /\ 2 \in 1 .. room
      BY <1>11
    <3> QED
      BY <1>9, <3>1, CachingPageBytes
  <2>2. In(o) = 8 /\ In(o + 1) = 18
    <3>1. (o + 1) + 1 = o + 2
      OBVIOUS
    <3> QED
      BY <2>1, <3>1 DEF In
  <2>3. ~(o + 2 > cmd.len)
    BY <1>9, <1>11
  <2>4. CASE room < 20
    <3>1. o + 2 + 18 > cmd.len
      BY <1>9, <2>4
    <3> QED
      BY <1>8, <2>2, <2>3, <3>1 DEF WalkAt
  <2>5. CASE room = 20
    <3>1. ~(o + 2 + 18 > cmd.len) /\ (o + 2 + 18) + 2 > cmd.len /\ o + 2 + 18 \in Nat
      BY <1>9, <2>5
    <3>2. walk[o + 2 + 18] = <<>>
      BY <1>6, <3>1 DEF WalkAt
    <3>3. In(o + 2) = IF vwc_enabled THEN 4 ELSE 0
      <4>1. 3 \in 1 .. room /\ (o + 2) + 1 = o + 3
        BY <2>5
      <4> QED
        BY <1>9, <4>1, CachingPageBytes DEF In
    <3>4. ((In(o + 2) \div 4) % 2 = 1) = vwc_enabled
      <4>1. (4 \div 4) % 2 = 1 /\ (0 \div 4) % 2 # 1
        OBVIOUS
      <4>2. CASE vwc_enabled
        BY <3>3, <4>1, <4>2
      <4>3. CASE ~vwc_enabled
        BY <3>3, <4>1, <4>3
      <4> QED
        BY <4>2, <4>3
    <3>5. 8 % 64 = 8 /\ 18 >= 1
      OBVIOUS
    <3>6. <<vwc_enabled>> \o <<>> = <<vwc_enabled>>
      <4>1. <<vwc_enabled>> \in Seq(BOOLEAN)
        OBVIOUS
      <4> QED
        BY <4>1, ConcatEmptySeq
    <3>7. WalkAt(walk, o) = IF walk[o + 2 + 18] = NULL THEN NULL
                            ELSE <<(In(o + 2) \div 4) % 2 = 1>> \o walk[o + 2 + 18]
      BY <2>2, <2>3, <3>1, <3>5 DEF WalkAt
    <3> QED
      BY <1>8, <3>2, <3>4, <3>6, <3>7
  <2> QED
    BY <2>4, <2>5
<1> QED
  BY <1>10, <1>11

-----------------------------------------------------------------------------
(* Answers.                                                                *)

\* The bytes that a client has room for.
Room == IF cmd.buffer = NULL THEN 0 ELSE cmd.buffer

\* A client that has room for n bytes has a buffer for them.
LEMMA RoomFor ==
  ASSUME cmd \in Command
  PROVE  Room \in Nat /\ \A n \in Nat : ~NoRoomFor(n) => cmd.buffer \in Nat /\ n <= Room
BY CommandFields DEF Room, NoRoomFor

\* What DataReported asks of a reply.
LEMMA ReplyReports ==
  ASSUME NEW status, NEW actual, NEW sense, NEW err, NEW ioActual, NEW written, NEW vals,
         Reply(status, actual, sense, err, ioActual, written, vals),
         written <= Room,
         cmd.op = "MODESENSE" => written <= cmd.len,
         cmd.op \in DataIn /\ status = 0 => actual = written /\ ioActual = written,
         cmd.op \notin {"SHORT", "EMPTY"} => (status = 0 <=> err = "none"),
         status = 2 /\ cmd.room /\ sense = "none" =>
           \/ cmd.op = "CAPACITY10" /\ NoRoomFor(8)
           \/ cmd.op = "CAPACITY16" /\ NoRoomFor(32)
           \/ cmd.op = "MODESENSE" /\ NoRoomFor(cmd.len)
  PROVE  DataReported'
<1>1. /\ cmd' = cmd
      /\ scsi'.Status = status /\ scsi'.Actual = actual /\ scsi'.sense = sense
      /\ io'.Error = err /\ io'.Actual = ioActual
      /\ answer'.written = written
  BY DEF Reply
<1> QED
  BY <1>1 DEF DataReported, Room, NoRoomFor, DataIn

\* An answer with status GOOD.
LEMMA GoodReports ==
  ASSUME NEW n, NEW vals, Good(n, vals), n <= Room, cmd.op = "MODESENSE" => n <= cmd.len
  PROVE  DataReported'
<1>1. Reply(0, n, "none", "none", n, n, vals)
  BY DEF Good
<1> QED
  BY <1>1, ReplyReports

\* An answer with CHECK CONDITION and sense data.
LEMMA CheckReports ==
  ASSUME NEW key, NEW w, Check(key, w), key # "none", w <= Room,
         cmd.op = "MODESENSE" => w <= cmd.len
  PROVE  DataReported'
<1>1. Reply(2, NULL, FillSense(key), "badstatus", NULL, w, <<>>)
  BY DEF Check
<1>2. ~(cmd.room /\ FillSense(key) = "none")
  BY DEF FillSense
<1> QED
  BY <1>1, <1>2, ReplyReports

\* A check that says nothing is one of a buffer that is too short.
LEMMA BareReports ==
  ASSUME cmd \in Command, CheckBare,
         \/ cmd.op = "CAPACITY10" /\ NoRoomFor(8)
         \/ cmd.op = "CAPACITY16" /\ NoRoomFor(32)
         \/ cmd.op = "MODESENSE" /\ NoRoomFor(cmd.len)
  PROVE  DataReported'
<1>1. Reply(2, NULL, "none", "badstatus", NULL, 0, <<>>)
  BY DEF CheckBare
<1>2. 0 <= Room /\ 0 <= cmd.len
  BY RoomFor, CommandFields
<1> QED
  BY <1>1, <1>2, ReplyReports

\* An answer with CHECK CONDITION that reports no bytes.
LEMMA EmptyReports ==
  ASSUME cmd \in Command, CheckEmpty
  PROVE  DataReported'
<1>1. Reply(2, 0, FillSense("illegal"), "badstatus", NULL, 0, <<>>)
  BY DEF CheckEmpty
<1>2. 0 <= Room /\ 0 <= cmd.len
  BY RoomFor, CommandFields
<1>3. ~(cmd.room /\ FillSense("illegal") = "none")
  BY DEF FillSense
<1> QED
  BY <1>1, <1>2, <1>3, ReplyReports

\* An answer of a command that waits for the controller.
LEMMA WaitsReports ==
  ASSUME cmd \in Command, cmd.op \notin DataIn, Waits
  PROVE  DataReported'
<1>1. 0 <= Room /\ 0 <= cmd.len
  BY RoomFor, CommandFields
<1>2. ~(cmd.room /\ FillSense("medium") = "none")
  BY DEF FillSense
<1>3. CASE Reply(0, 0, "none", "none", 0, 0, <<>>)
  BY <1>1, <1>3, ReplyReports
<1>4. CASE Reply(2, NULL, FillSense("medium"), "failed", 0, 0, <<>>)
  BY <1>1, <1>2, <1>4, ReplyReports
<1>5. CASE Reply(2, NULL, FillSense("medium"), "badstatus", 0, 0, <<>>)
  BY <1>1, <1>2, <1>5, ReplyReports
<1> QED
  BY <1>3, <1>4, <1>5 DEF Waits

\* What is left of the invariant when the write cache is left alone.
LEMMA AnswerKeeps ==
  ASSUME ScsiInv, pc = "sent", pc' = "answered", UNCHANGED <<config, cmd, wanted>>,
         UNCHANGED <<vwc_enabled, feature>>, smart_cache' \in Logs \cup {NULL},
         cmd.op # "MODESELECT"
  PROVE  /\ TypeOK' /\ SelectSent' /\ SensePlain' /\ WriteCacheDue'
         /\ cmd.op # "MODESENSE" => SenseReturned'
<1>1. TypeOK'
  BY DEF ScsiInv, TypeOK, config
<1>2. SelectSent' /\ SensePlain'
  BY DEF ScsiInv, SelectSent, SensePlain
<1>3. WriteCacheDue'
  <2>1. feature = vwc_enabled /\ vwc_enabled = wanted
    BY DEF ScsiInv, WriteCacheDue, Due
  <2>2. Due' = wanted'
    BY DEF Due
  <2> QED
    BY <2>1, <2>2 DEF WriteCacheDue
<1> QED
  BY <1>1, <1>2, <1>3 DEF SenseReturned

\* Most answers tell of neither the size, the write cache nor the health.
LEMMA NothingTold ==
  ASSUME cmd' = cmd,
         cmd.op \notin {"CAPACITY10", "CAPACITY16", "MODESENSE", "LOGSENSE", "ATA"}
  PROVE  Told'
BY DEF Told, CapacityTrue, ModeTrue, HealthTrue

\* Nor does one that is not GOOD.
LEMMA CheckTold ==
  ASSUME scsi'.Status # 0
  PROVE  Told'
BY DEF Told

-----------------------------------------------------------------------------
(* One lemma for every handler.                                            *)

\* The handlers that change nothing of the unit.
LEMMA Unchanging ==
  ASSUME ScsiInv, pc = "sent", pc' = "answered", UNCHANGED <<config, cmd, wanted, unitVars>>,
         cmd.op \notin {"MODESELECT", "MODESENSE"}, DataReported', Told'
  PROVE  ScsiInv'
<1>1. smart_cache' \in Logs \cup {NULL} /\ UNCHANGED <<vwc_enabled, feature>>
  BY DEF ScsiInv, TypeOK, unitVars
<1>2. TypeOK' /\ SelectSent' /\ SensePlain' /\ WriteCacheDue' /\ SenseReturned'
  BY <1>1, AnswerKeeps
<1> QED
  BY <1>2 DEF ScsiInv

\* The least of three lengths.
LEMMA Least3 ==
  ASSUME NEW a \in Nat, NEW b \in Nat
  PROVE  Least(a, b) \in Nat /\ Least(a, b) <= a /\ Least(a, b) <= b
BY DEF Least

\* The forms of a reply, taken apart.
LEMMA Replies ==
  ASSUME NEW status, NEW actual, NEW sense, NEW err, NEW ioActual, NEW written, NEW vals,
         Reply(status, actual, sense, err, ioActual, written, vals)
  PROVE  /\ pc' = "answered" /\ UNCHANGED <<config, cmd, wanted>>
         /\ scsi'.Status = status /\ scsi'.Actual = actual
         /\ answer'.written = written /\ answer'.vals = vals
BY DEF Reply

\* Good, unfolded.
LEMMA GoodReplies ==
  ASSUME NEW n, NEW vals, Good(n, vals)
  PROVE  /\ pc' = "answered" /\ UNCHANGED <<config, cmd, wanted>>
         /\ scsi'.Actual = n /\ answer'.written = n /\ answer'.vals = vals
BY Replies DEF Good

\* Check, unfolded.
LEMMA CheckReplies ==
  ASSUME \/ \E key, w : Check(key, w)
         \/ CheckBare
         \/ CheckEmpty
  PROVE  pc' = "answered" /\ UNCHANGED <<config, cmd, wanted>> /\ scsi'.Status = 2 /\ Told'
<1>1. pc' = "answered" /\ UNCHANGED <<config, cmd, wanted>> /\ scsi'.Status = 2
  BY Replies DEF Check, CheckBare, CheckEmpty
<1> QED
  BY <1>1, CheckTold

\* Waits, unfolded.
LEMMA WaitsReplies ==
  ASSUME Waits
  PROVE  pc' = "answered" /\ UNCHANGED <<config, cmd, wanted>>
BY Replies DEF Waits

\* Without a SCSICmd, or without a CDB.
LEMMA MalformedKeeps ==
  ASSUME ScsiInv, Malformed
  PROVE  ScsiInv'
<1>0. cmd \in Command /\ pc = "sent" /\ cmd.op \in {"SHORT", "EMPTY"} /\ UNCHANGED unitVars
  BY DEF Malformed, Is, ScsiInv, TypeOK
<1>1. 0 <= Room
  BY <1>0, RoomFor
<1>2. PICK err : Reply(0, NULL, "none", err, NULL, 0, <<>>)
  BY DEF Malformed
<1>3. pc' = "answered" /\ UNCHANGED <<config, cmd, wanted>>
  BY <1>2, Replies
<1>4. DataReported'
  BY <1>0, <1>1, <1>2, ReplyReports DEF DataIn
<1>5. Told'
  BY <1>0, <1>3, NothingTold
<1> QED
  BY <1>0, <1>3, <1>4, <1>5, Unchanging

\* TEST UNIT READY.
LEMMA TestUnitReadyKeeps ==
  ASSUME ScsiInv, TestUnitReady
  PROVE  ScsiInv'
<1>0. cmd \in Command /\ pc = "sent" /\ cmd.op = "TUR" /\ UNCHANGED unitVars
  BY DEF TestUnitReady, Is, ScsiInv, TypeOK
<1>1. 0 <= Room
  BY <1>0, RoomFor
<1>2. Reply(0, 0, "none", "none", NULL, 0, <<>>)
  BY DEF TestUnitReady
<1>3. pc' = "answered" /\ UNCHANGED <<config, cmd, wanted>>
  BY <1>2, Replies
<1>4. DataReported'
  BY <1>0, <1>1, <1>2, ReplyReports DEF DataIn
<1>5. Told'
  BY <1>0, <1>3, NothingTold
<1> QED
  BY <1>0, <1>3, <1>4, <1>5, Unchanging

\* The lengths of the VPD pages are numbers.
LEMMA VpdLengths ==
  ASSUME NEW p \in DOMAIN VpdLength
  PROVE  VpdLength[p] \in Nat
<1>1. SerialLen \in Nat /\ NsidDigits \in Nat
  BY ConstantTypes
<1>2. p \in {0, 128, 131}
  BY DEF VpdLength
<1>3. Least(SerialLen, 20) \in Nat
  BY <1>1, Least3
<1> QED
  BY <1>1, <1>2, <1>3 DEF VpdLength

\* INQUIRY, with and without a VPD page.
LEMMA InquiryKeeps ==
  ASSUME ScsiInv, Inquiry
  PROVE  ScsiInv'
<1>0. cmd \in Command /\ pc = "sent" /\ cmd.op \in {"INQUIRY", "VPD"} /\ UNCHANGED unitVars
  BY DEF Inquiry, Is, ScsiInv, TypeOK
<1>1. Room \in Nat
  BY <1>0, RoomFor
<1>2. CASE Check("illegal", 0)
  <2>1. pc' = "answered" /\ UNCHANGED <<config, cmd, wanted>> /\ Told'
    BY <1>2, CheckReplies
  <2>2. DataReported'
    BY <1>0, <1>1, <1>2, CheckReports
  <2> QED
    BY <1>0, <2>1, <2>2, Unchanging
<1>3. ASSUME ~NoRoomFor(1), NEW n \in Nat, Good(Least(cmd.buffer, n), <<>>)
      PROVE  ScsiInv'
  <2>1. cmd.buffer \in Nat /\ Room = cmd.buffer
    BY <1>0, <1>3 DEF RoomFor, NoRoomFor, Room, Command
  <2>2. PICK m : m = Least(cmd.buffer, n)
    OBVIOUS
  <2>3. m <= Room
    BY <2>1, <2>2, Least3
  <2>4. Good(m, <<>>)
    BY <1>3, <2>2
  <2>5. DataReported'
    BY <1>0, <2>3, <2>4, GoodReports
  <2>6. pc' = "answered" /\ UNCHANGED <<config, cmd, wanted>>
    BY <2>4, GoodReplies
  <2>7. Told'
    BY <1>0, <2>6, NothingTold
  <2> QED
    BY <1>0, <2>5, <2>6, <2>7, Unchanging
<1>4. CASE ~NoRoomFor(1) /\ cmd.op = "INQUIRY" /\ Good(Least(cmd.buffer, 36), <<>>)
  <2>1. 36 \in Nat
    OBVIOUS
  <2> QED
    BY <1>3, <1>4, <2>1
<1>5. CASE /\ ~NoRoomFor(1) /\ cmd.op = "VPD" /\ cmd.page \in DOMAIN VpdLength
           /\ Good(Least(cmd.buffer, VpdLength[cmd.page]), <<>>)
  <2>1. VpdLength[cmd.page] \in Nat
    BY <1>5, VpdLengths
  <2> QED
    BY <1>3, <1>5, <2>1
<1> QED
  BY <1>2, <1>4, <1>5 DEF Inquiry

\* The last block as READ CAPACITY(10) has room for it.
LEMMA LastLba ==
  ASSUME TypeOK
  PROVE  LastLba10 + 1 = total_blocks \/ (LastLba10 = Word - 1 /\ total_blocks >= Word)
<1>1. total_blocks \in Nat \ {0} /\ Word \in Nat \ {0}
  BY ConstantTypes DEF TypeOK
<1>2. CASE total_blocks > Word - 1
  BY <1>1, <1>2 DEF LastLba10
<1>3. CASE ~(total_blocks > Word - 1)
  <2>1. PICK x \in Nat : x = total_blocks - 1 /\ x < Word
    BY <1>1, <1>3
  <2>2. x % Word = x
    BY <1>1, <2>1
  <2> QED
    BY <1>1, <1>3, <2>1, <2>2 DEF LastLba10
<1> QED
  BY <1>2, <1>3

\* Both READ CAPACITY commands, with the buffer they want.
LEMMA CapacityKeeps ==
  ASSUME ScsiInv, pc = "sent", UNCHANGED unitVars, NEW n \in Nat, NEW last,
         \/ cmd.op = "CAPACITY10" /\ n = 8 /\ last = LastLba10
         \/ cmd.op = "CAPACITY16" /\ n = 32 /\ last = total_blocks - 1,
         \/ NoRoomFor(n) /\ CheckBare
         \/ ~NoRoomFor(n) /\ Good(n, <<last>>)
  PROVE  ScsiInv'
<1>0. cmd \in Command /\ cmd.op \in {"CAPACITY10", "CAPACITY16"} /\ TypeOK
  BY DEF ScsiInv, TypeOK
<1>1. CASE NoRoomFor(n) /\ CheckBare
  <2>1. pc' = "answered" /\ UNCHANGED <<config, cmd, wanted>> /\ Told'
    BY <1>1, CheckReplies
  <2>2. DataReported'
    BY <1>0, <1>1, BareReports
  <2> QED
    BY <1>0, <2>1, <2>2, Unchanging
<1>2. CASE ~NoRoomFor(n) /\ Good(n, <<last>>)
  <2>1. n <= Room
    BY <1>0, <1>2, RoomFor
  <2>2. DataReported'
    BY <1>0, <1>2, <2>1, GoodReports
  <2>3. /\ pc' = "answered" /\ UNCHANGED <<config, cmd, wanted>>
        /\ answer'.vals = <<last>>
    BY <1>2, GoodReplies
  <2>4. total_blocks' = total_blocks /\ total_blocks \in Nat
    BY <1>0, <2>3, ConstantTypes DEF config, TypeOK
  <2>5. CapacityTrue'
    BY <1>0, <2>3, <2>4, LastLba DEF CapacityTrue
  <2>6. ModeTrue' /\ HealthTrue'
    BY <1>0, <2>3 DEF ModeTrue, HealthTrue
  <2>7. Told'
    BY <2>5, <2>6 DEF Told
  <2> QED
    BY <1>0, <2>2, <2>3, <2>7, Unchanging
<1> QED
  BY <1>1, <1>2

\* READ CAPACITY(10).
LEMMA ReadCapacity10Keeps ==
  ASSUME ScsiInv, ReadCapacity10
  PROVE  ScsiInv'
<1>1. pc = "sent" /\ cmd.op = "CAPACITY10" /\ UNCHANGED unitVars /\ 8 \in Nat
  BY DEF ReadCapacity10, Is
<1>2. \/ NoRoomFor(8) /\ CheckBare
      \/ ~NoRoomFor(8) /\ Good(8, <<LastLba10>>)
  BY DEF ReadCapacity10
<1> QED
  BY <1>1, <1>2, CapacityKeeps

\* READ CAPACITY(16), and other service actions.
LEMMA ReadCapacity16Keeps ==
  ASSUME ScsiInv, ReadCapacity16
  PROVE  ScsiInv'
<1>0. cmd \in Command /\ pc = "sent" /\ UNCHANGED unitVars /\ 32 \in Nat
  BY DEF ReadCapacity16, Is, ScsiInv, TypeOK
<1>1. CASE cmd.op = "SERVICE" /\ Check("illegal", 0)
  <2>1. pc' = "answered" /\ UNCHANGED <<config, cmd, wanted>> /\ Told'
    BY <1>1, CheckReplies
  <2>2. 0 <= Room
    BY <1>0, RoomFor
  <2>3. DataReported'
    BY <1>1, <2>2, CheckReports
  <2> QED
    BY <1>0, <1>1, <2>1, <2>3, Unchanging
<1>2. CASE /\ cmd.op = "CAPACITY16"
           /\ \/ NoRoomFor(32) /\ CheckBare
              \/ ~NoRoomFor(32) /\ Good(32, <<total_blocks - 1>>)
  BY <1>0, <1>2, CapacityKeeps
<1> QED
  BY <1>1, <1>2 DEF ReadCapacity16, Is

\* The commands that wait for the queue pair or are refused at once.
LEMMA WaitsKeeps ==
  ASSUME ScsiInv, pc = "sent", UNCHANGED unitVars, cmd.op \in {"SYNC", "UNMAP"}, Waits
  PROVE  ScsiInv'
<1>1. pc' = "answered" /\ UNCHANGED <<config, cmd, wanted>>
  BY WaitsReplies
<1>2. DataReported'
  BY WaitsReports DEF ScsiInv, TypeOK, DataIn
<1>3. Told'
  BY <1>1, NothingTold
<1> QED
  BY <1>1, <1>2, <1>3, Unchanging

\* A command that is refused.
LEMMA RefusedKeeps ==
  ASSUME ScsiInv, pc = "sent", UNCHANGED unitVars,
         cmd.op \notin {"MODESELECT", "MODESENSE"}, Check("illegal", 0)
  PROVE  ScsiInv'
<1>1. pc' = "answered" /\ UNCHANGED <<config, cmd, wanted>> /\ Told'
  BY CheckReplies
<1>2. 0 <= Room
  BY RoomFor DEF ScsiInv, TypeOK
<1>3. DataReported'
  BY <1>2, CheckReports
<1> QED
  BY <1>1, <1>3, Unchanging

\* SYNCHRONIZE CACHE.
LEMMA SynchronizeCacheKeeps ==
  ASSUME ScsiInv, SynchronizeCache
  PROVE  ScsiInv'
BY WaitsKeeps DEF SynchronizeCache, Is

\* Commands that no handler knows.
LEMMA UnsupportedKeeps ==
  ASSUME ScsiInv, Unsupported
  PROVE  ScsiInv'
BY RefusedKeeps DEF Unsupported, Is

\* UNMAP.
LEMMA UnmapKeeps ==
  ASSUME ScsiInv, Unmap
  PROVE  ScsiInv'
<1>0. pc = "sent" /\ UNCHANGED unitVars /\ cmd.op \in {"ANCHOR", "UNMAP"} /\ cmd \in Command
  BY DEF Unmap, Is, ScsiInv, TypeOK
<1>1. CASE Check("illegal", 0)
  BY <1>0, <1>1, RefusedKeeps
<1>2. CASE Good(0, <<>>)
  <2>1. pc' = "answered" /\ UNCHANGED <<config, cmd, wanted>>
    BY <1>2, GoodReplies
  <2>2. 0 <= Room
    BY <1>0, RoomFor
  <2>3. DataReported'
    BY <1>0, <1>2, <2>2, GoodReports
  <2>4. Told'
    BY <1>0, <2>1, NothingTold
  <2> QED
    BY <1>0, <2>1, <2>3, <2>4, Unchanging
<1>3. CASE cmd.op = "UNMAP" /\ Waits
  BY <1>0, <1>3, WaitsKeeps
<1> QED
  BY <1>1, <1>2, <1>3 DEF Unmap, Is

\* MODE SENSE: what it returns, and how much of it.
LEMMA ModeSenseKeeps ==
  ASSUME ScsiInv, ModeSense
  PROVE  ScsiInv'
<1> DEFINE header == HeaderLen(cmd.is10)
           body   == Body(cmd.len - header)
           total  == header + Len(body)
<1>0. /\ pc = "sent" /\ UNCHANGED unitVars /\ cmd.op = "MODESENSE" /\ cmd \in Command
      /\ vwc_enabled \in BOOLEAN /\ feature = vwc_enabled
  BY DEF ModeSense, Is, ScsiInv, TypeOK, WriteCacheDue
<1>1. /\ cmd.len \in Nat /\ header \in {4, 8} /\ Room \in Nat
      /\ ~NoRoomFor(cmd.len) => cmd.len <= Room
  BY <1>0, CommandFields, RoomFor
<1>2. smart_cache' \in Logs \cup {NULL} /\ UNCHANGED <<vwc_enabled, feature>>
  BY <1>0 DEF ScsiInv, TypeOK, unitVars
<1>3. ASSUME pc' = "answered", UNCHANGED <<config, cmd, wanted>>, DataReported', Told', SenseReturned'
      PROVE  ScsiInv'
  <2>1. TypeOK' /\ SelectSent' /\ SensePlain' /\ WriteCacheDue'
    BY <1>0, <1>2, <1>3, AnswerKeeps
  <2> QED
    BY <1>3, <2>1 DEF ScsiInv
<1>4. CASE NoRoomFor(cmd.len) /\ CheckBare
  <2>1. pc' = "answered" /\ UNCHANGED <<config, cmd, wanted>> /\ scsi'.Status = 2 /\ Told'
    BY <1>4, CheckReplies
  <2>2. DataReported'
    BY <1>0, <1>4, BareReports
  <2>3. SenseReturned'
    BY <2>1 DEF SenseReturned
  <2> QED
    BY <1>3, <2>1, <2>2, <2>3
<1>5. CASE ~NoRoomFor(cmd.len) /\ cmd.len >= header /\ Check("illegal", header)
  <2>1. pc' = "answered" /\ UNCHANGED <<config, cmd, wanted>> /\ scsi'.Status = 2 /\ Told'
    BY <1>5, CheckReplies
  <2>2. header <= Room /\ header <= cmd.len
    BY <1>1, <1>5
  <2> HIDE DEF header
  <2>3. DataReported'
    BY <1>5, <2>2, CheckReports
  <2>4. SenseReturned'
    BY <2>1 DEF SenseReturned
  <2> QED
    BY <1>3, <2>1, <2>3, <2>4
<1>6. CASE ~NoRoomFor(cmd.len) /\ cmd.len < header /\ Good(cmd.len, Zeros(cmd.len))
  <2>1. PICK n, vals : n = cmd.len /\ vals = Zeros(n) /\ n \in Nat
    BY <1>1
  <2>2. Good(n, vals) /\ n <= Room /\ n < header
    BY <1>1, <1>6, <2>1
  <2>3. /\ pc' = "answered" /\ UNCHANGED <<config, cmd, wanted>>
        /\ scsi'.Actual = n /\ answer'.written = n /\ answer'.vals = vals
    BY <2>2, GoodReplies
  <2>4. DataReported'
    BY <2>1, <2>2, GoodReports
  <2>5. HeaderLen(cmd.is10)' = header
    BY <2>3 DEF HeaderLen
  <2>6. SenseReturned'
    <3>1. n \in 0 .. header - 1
      BY <1>1, <2>1, <2>2
    <3> QED
      BY SMTT(30), <2>1, <2>3, <2>5, <3>1 DEF SenseReturned, Returned, Zeros
  <2>7. Told'
    <3>1. CapacityTrue' /\ HealthTrue'
      BY <1>0, <2>3 DEF CapacityTrue, HealthTrue
    <3>2. ~(answer'.written >= HeaderLen(cmd.is10)' + 3)
      BY <1>1, <2>1, <2>2, <2>3, <2>5
    <3> QED
      BY <3>1, <3>2 DEF Told, ModeTrue
  <2> QED
    BY <1>3, <2>3, <2>4, <2>6, <2>7
<1>7. CASE ~NoRoomFor(cmd.len) /\ cmd.len >= header /\ Good(total, ModeHeader(total) \o body)
  <2>0. cmd.len - header \in Nat
    BY <1>1, <1>7
  <2>1. PICK room \in 0 .. 20 : room = Least(cmd.len - header, 20) /\ room <= cmd.len - header
    BY <2>0 DEF Least
  <2>2. body = SubSeq(CachingPage, 1, room)
    BY <2>1 DEF Body
  <2>3. Len(body) = room
    <3>1. PICK page \in Seq(Nat) : page = CachingPage /\ Len(page) = 20
      BY <1>0, CachingPageBytes
    <3>2. \A i \in 1 .. room : i \in 1 .. Len(page)
      BY <3>1
    <3>3. \A i \in 1 .. room : page[i] \in Nat
      BY <3>1, <3>2, ElementOfSeq
    <3>4. Len(SubSeq(page, 1, room)) = IF 1 <= room THEN room - 1 + 1 ELSE 0
      BY <3>3, SubSeqProperties
    <3>5. Len(SubSeq(page, 1, room)) = room
      BY <3>4
    <3> QED
      BY <2>2, <3>1, <3>5
  <2>4. PICK n, vals : n = total /\ vals = ModeHeader(total) \o body
    OBVIOUS
  <2>5. ReturnedWhole(vals, n, room)
    BY <2>2, <2>3, <2>4 DEF ReturnedWhole
  <2>6. /\ vals \in Seq(Nat) /\ n \in Nat
        /\ \A i \in 1 .. room : vals[HeaderLen(cmd.is10) + i] = CachingPage[i]
    BY ZenonT(40), <1>0, <2>5, ReturnedBytes
  <2>7. n = header + room
    BY <2>5 DEF ReturnedWhole
  <2>8. Good(n, vals)
    BY <1>7, <2>4
  <2> HIDE DEF total, body, header
  <2>9. n <= cmd.len /\ n <= Room
    BY <1>1, <1>7, <2>1, <2>7
  <2>10. DataReported'
    BY <2>8, <2>9, GoodReports
  <2>11. /\ pc' = "answered" /\ UNCHANGED <<config, cmd, wanted>>
         /\ scsi'.Actual = n /\ answer'.written = n /\ answer'.vals = vals
    BY <2>8, GoodReplies
  <2>12. HeaderLen(cmd.is10)' = header /\ CachingPage' = CachingPage /\ ModeHeader(n)' = ModeHeader(n)
    BY <1>2, <2>11 DEF HeaderLen, header, CachingPage, ModeHeader, Zeros
  <2>13. SenseReturned'
    <3>1. /\ n = HeaderLen(cmd.is10)' + room
          /\ vals = ModeHeader(n)' \o SubSeq(CachingPage', 1, room)
      BY <2>5, <2>7, <2>12 DEF ReturnedWhole
    <3> QED
      BY Zenon, <2>11, <3>1 DEF SenseReturned, Returned
  <2>14. Told'
    <3>1. CapacityTrue' /\ HealthTrue'
      BY <1>0, <2>11 DEF CapacityTrue, HealthTrue
    <3>2. ASSUME n >= header + 3 PROVE vals[header + 3] = 4 <=> feature
      <4>1. 3 \in 1 .. room
        BY <1>1, <2>7, <3>2
      <4>2. vals[header + 3] = CachingPage[3]
        BY <2>6, <4>1 DEF header
      <4>3. CachingPage[3] = IF vwc_enabled THEN 4 ELSE 0
        BY <1>0, CachingPageBytes
      <4> QED
        BY <1>0, <4>2, <4>3
    <3>3. ModeTrue'
      BY <1>2, <2>11, <2>12, <3>2 DEF ModeTrue
    <3> QED
      BY <3>1, <3>3 DEF Told
  <2> QED
    BY <1>3, <2>10, <2>11, <2>13, <2>14
<1> QED
  BY <1>4, <1>5, <1>6, <1>7 DEF ModeSense

\* What the walk over a MODE SELECT finds, whoever made its parameter list.
LEMMA SelectFinds ==
  ASSUME ScsiInv, NullIsNoSetting, Is("MODESELECT"), ~BadList,
         NEW wce, wce = Walk(HeaderLen(cmd.is10) + BdLen), wce # NULL
  PROVE  /\ wce = <<>> \/ wce[Len(wce)] \in BOOLEAN
         /\ \/ /\ wce = <<>> <=> Asked = NULL
               /\ wce # <<>> => wce[Len(wce)] = Asked
            \/ cmd.pages = <<>> /\ (wce # <<>> => wce[Len(wce)] = vwc_enabled)
<1>0. cmd \in Command /\ vwc_enabled \in BOOLEAN
  BY DEF ScsiInv, TypeOK, Is
<1>1. CASE cmd.in = ListBytes(cmd.is10, cmd.bd, cmd.pages) /\ cmd.buffer = Len(cmd.in)
  <2>1. /\ wce \in Seq(BOOLEAN)
        /\ wce = <<>> <=> Asked = NULL
        /\ wce # <<>> => wce[Len(wce)] = Asked
    BY <1>0, <1>1, WalkAsked DEF Listed
  <2>2. ASSUME wce # <<>> PROVE wce[Len(wce)] \in BOOLEAN
    <3>1. Len(wce) \in 1 .. Len(wce)
      BY <2>1, <2>2, EmptySeq
    <3> QED
      BY <2>1, <3>1, ElementOfSeq
  <2> QED
    BY <2>1, <2>2
<1>2. CASE cmd.pages = <<>> /\ Returned(cmd.in, cmd.len)
  <2>1. wce \in {<<>>, <<vwc_enabled>>}
    BY <1>0, <1>2, SentBackWalk
  <2>2. Len(<<vwc_enabled>>) = 1 /\ <<vwc_enabled>>[1] = vwc_enabled
    OBVIOUS
  <2>3. wce # <<>> => wce[Len(wce)] = vwc_enabled
    BY <2>1, <2>2
  <2> QED
    BY <1>0, <1>2, <2>3
<1> QED
  BY <1>1, <1>2 DEF ScsiInv, SelectSent, Is

\* What is due once the command is answered.
LEMMA DueAfter ==
  ASSUME pc' = "answered", cmd.op = "MODESELECT", UNCHANGED <<config, cmd, wanted>>
  PROVE  Due' = IF cmd.pages # <<>> /\ scsi'.Status = 0 /\ vwc_present /\ Asked # NULL
                THEN Asked ELSE wanted
<1>1. Asked' = Asked
  BY DEF Asked, PageEnd, HeaderLen
<1>2. vwc_present' = vwc_present
  BY DEF config
<1> QED
  BY <1>1, <1>2 DEF Due

\* A list without pages asks for nothing.
LEMMA NoPagesNothingAsked ==
  ASSUME cmd.pages = <<>>
  PROVE  Asked = NULL
<1>1. DOMAIN cmd.pages = {}
  OBVIOUS
<1> QED
  BY <1>1 DEF Asked

\* MODE SELECT: refused, rejected by the controller, or done as asked.
LEMMA ModeSelectKeeps ==
  ASSUME ScsiInv, NullIsNoSetting, ModeSelect
  PROVE  ScsiInv'
<1> DEFINE wce == Walk(HeaderLen(cmd.is10) + BdLen)
           last == wce[Len(wce)]
<1>0. /\ pc = "sent" /\ cmd.op = "MODESELECT" /\ cmd \in Command /\ Is("MODESELECT")
      /\ vwc_enabled \in BOOLEAN /\ wanted \in BOOLEAN
      /\ smart_cache' = smart_cache
      /\ feature = vwc_enabled /\ vwc_enabled = wanted
  BY DEF ModeSelect, Is, ScsiInv, TypeOK, WriteCacheDue, Due
<1>1. 0 <= Room
  BY <1>0, RoomFor
<1>2. ASSUME pc' = "answered", UNCHANGED <<config, cmd, wanted>>, DataReported',
             feature' = vwc_enabled', vwc_enabled' \in BOOLEAN, vwc_enabled' = Due'
      PROVE  ScsiInv'
  <2>1. TypeOK'
    BY <1>0, <1>2 DEF ScsiInv, TypeOK, config
  <2>2. SelectSent' /\ SensePlain' /\ SenseReturned'
    BY <1>0, <1>2 DEF SelectSent, SensePlain, SenseReturned
  <2>3. Told'
    BY <1>0, <1>2, NothingTold
  <2> QED
    BY <1>2, <2>1, <2>2, <2>3 DEF ScsiInv, WriteCacheDue
<1>3. ASSUME NEW key, key # "none", Check(key, 0), UNCHANGED <<vwc_enabled, feature>>
      PROVE  ScsiInv'
  <2>1. pc' = "answered" /\ UNCHANGED <<config, cmd, wanted>> /\ scsi'.Status = 2
    BY <1>3, CheckReplies
  <2>2. DataReported'
    BY <1>0, <1>1, <1>3, CheckReports
  <2>3. Due' = wanted
    BY <1>0, <2>1, DueAfter
  <2> QED
    BY <1>0, <1>2, <1>3, <2>1, <2>2, <2>3
<1>4. CASE cmd.len = 0 /\ Good(0, <<>>) /\ UNCHANGED <<vwc_enabled, feature>>
  <2>1. pc' = "answered" /\ UNCHANGED <<config, cmd, wanted>>
    BY <1>4, GoodReplies
  <2>2. DataReported'
    BY <1>0, <1>1, <1>4, GoodReports
  <2>3. cmd.pages = <<>> \/ Asked = NULL
    BY <1>0, <1>4, NothingAsked DEF ScsiInv, SelectSent, Listed
  <2>4. Due' = wanted
    BY <1>0, <2>1, <2>3, DueAfter
  <2> QED
    BY <1>0, <1>2, <1>4, <2>1, <2>2, <2>4
<1>5. ASSUME ~BadList, wce # NULL, Reply(0, cmd.len, "none", "none", cmd.len, 0, <<>>)
      PROVE  /\ pc' = "answered" /\ UNCHANGED <<config, cmd, wanted>> /\ DataReported'
             /\ wce # <<>> => last \in BOOLEAN
             /\ Due' = IF wce # <<>> /\ vwc_present THEN last ELSE wanted
  <2>1. /\ pc' = "answered" /\ UNCHANGED <<config, cmd, wanted>> /\ scsi'.Status = 0
    BY <1>5, Replies
  <2>2. DataReported'
    BY <1>0, <1>1, <1>5, ReplyReports DEF DataIn
  <2>3. Due' = IF cmd.pages # <<>> /\ vwc_present /\ Asked # NULL THEN Asked ELSE wanted
    BY <1>0, <2>1, DueAfter
  <2>4. PICK w : w = wce
    OBVIOUS
  <2>5. /\ w = <<>> \/ w[Len(w)] \in BOOLEAN
        /\ \/ /\ w = <<>> <=> Asked = NULL
              /\ w # <<>> => w[Len(w)] = Asked
           \/ cmd.pages = <<>> /\ (w # <<>> => w[Len(w)] = vwc_enabled)
    BY <1>0, <1>5, <2>4, SelectFinds
  <2>6. cmd.pages = <<>> => Asked = NULL
    BY NoPagesNothingAsked
  <2> HIDE DEF wce
  <2>7. w # <<>> => w[Len(w)] \in BOOLEAN
    BY <2>5
  <2>8. Due' = IF w # <<>> /\ vwc_present THEN w[Len(w)] ELSE wanted
    BY <1>0, <2>3, <2>5, <2>6
  <2> QED
    BY <2>1, <2>2, <2>4, <2>7, <2>8
<1> HIDE DEF wce
<1>6. CASE /\ ~BadList /\ wce # NULL /\ wce # <<>> /\ vwc_present
           /\ feature' = last /\ vwc_enabled' = last
           /\ Reply(0, cmd.len, "none", "none", cmd.len, 0, <<>>)
  BY <1>2, <1>5, <1>6
<1>7. CASE /\ ~BadList /\ wce # NULL /\ ~(wce # <<>> /\ vwc_present /\ last # vwc_enabled)
           /\ Reply(0, cmd.len, "none", "none", cmd.len, 0, <<>>)
           /\ UNCHANGED <<vwc_enabled, feature>>
  <2>1. vwc_enabled' = Due'
    BY <1>0, <1>5, <1>7
  <2> QED
    BY <1>0, <1>2, <1>5, <1>7, <2>1
<1>8. \/ cmd.len = 0 /\ Good(0, <<>>) /\ UNCHANGED <<vwc_enabled, feature>>
      \/ \E key \in {"illegal", "medium"} : Check(key, 0) /\ UNCHANGED <<vwc_enabled, feature>>
      \/ /\ ~BadList /\ wce # NULL /\ wce # <<>> /\ vwc_present
         /\ feature' = last /\ vwc_enabled' = last
         /\ Reply(0, cmd.len, "none", "none", cmd.len, 0, <<>>)
      \/ /\ ~BadList /\ wce # NULL /\ ~(wce # <<>> /\ vwc_present /\ last # vwc_enabled)
         /\ Reply(0, cmd.len, "none", "none", cmd.len, 0, <<>>)
         /\ UNCHANGED <<vwc_enabled, feature>>
  <2>1. CASE cmd.len = 0
    BY <2>1 DEF ModeSelect
  <2>2. CASE cmd.len # 0 /\ BadList
    BY <2>2 DEF ModeSelect
  <2>3. CASE cmd.len # 0 /\ ~BadList /\ wce = NULL
    BY <2>3 DEF ModeSelect, wce
  <2>4. CASE cmd.len # 0 /\ ~BadList /\ wce # NULL /\ wce # <<>> /\ vwc_present /\ last # vwc_enabled
    BY <2>4 DEF ModeSelect, wce
  <2>5. CASE cmd.len # 0 /\ ~BadList /\ wce # NULL
             /\ ~(wce # <<>> /\ vwc_present /\ last # vwc_enabled)
    BY <2>5 DEF ModeSelect, wce
  <2> QED
    BY <2>1, <2>2, <2>3, <2>4, <2>5
<1> QED
  BY <1>3, <1>4, <1>6, <1>7, <1>8

-----------------------------------------------------------------------------
(* Health.                                                                 *)

\* The fields of a health log.
LEMMA LogFields ==
  ASSUME NEW log \in Logs
  PROVE  log.warning \in BOOLEAN /\ log.life_used_pct \in Nat
<1>1. log \in [warning : BOOLEAN, temp_k : TwoBytes, media_errors : Nat,
               spare_pct : Byte, life_used_pct : Byte]
  BY ScsiAssumption
<1>2. log.warning \in BOOLEAN /\ log.life_used_pct \in Byte
  BY <1>1
<1> QED
  BY <1>2, ByteValues

\* A health answer that is true keeps the invariant.
LEMMA HealthAnswered ==
  ASSUME ScsiInv, pc = "sent", pc' = "answered", UNCHANGED <<config, cmd, wanted>>,
         UNCHANGED <<vwc_enabled, feature>>, smart_cache' \in Logs \cup {NULL},
         cmd.op \in {"LOGSENSE", "ATA"}, DataReported',
         scsi'.Status = 0 => HealthTrue'
  PROVE  ScsiInv'
<1>1. TypeOK' /\ SelectSent' /\ SensePlain' /\ WriteCacheDue' /\ SenseReturned'
  BY AnswerKeeps
<1>2. CapacityTrue' /\ ModeTrue'
  BY DEF CapacityTrue, ModeTrue
<1> QED
  BY <1>1, <1>2 DEF ScsiInv, Told

\* LOG SENSE.
LEMMA LogSenseKeeps ==
  ASSUME ScsiInv, LogSense
  PROVE  ScsiInv'
<1>0. /\ pc = "sent" /\ cmd.op = "LOGSENSE" /\ cmd \in Command
      /\ UNCHANGED <<vwc_enabled, feature>> /\ smart_cache \in Logs \cup {NULL}
  BY DEF LogSense, Is, ScsiInv, TypeOK
<1>1. CASE CheckEmpty /\ UNCHANGED smart_cache
  <2>1. pc' = "answered" /\ UNCHANGED <<config, cmd, wanted>> /\ scsi'.Status = 2
    BY <1>1, CheckReplies
  <2>2. DataReported'
    BY <1>0, <1>1, EmptyReports
  <2> QED
    BY <1>0, <1>1, <2>1, <2>2, HealthAnswered
<1>2. ASSUME ~NoRoomFor(1), NEW k \in Nat, NEW vals, Good(Least(cmd.buffer, k), vals),
             smart_cache' \in Logs \cup {NULL},
             cmd.page = 47 /\ smart_cache' # NULL => (vals[1] # 0 <=> smart_cache'.warning)
      PROVE  ScsiInv'
  <2>1. cmd.buffer \in Nat /\ Room = cmd.buffer
    BY <1>0, <1>2 DEF NoRoomFor, Room, Command
  <2>2. PICK m : m = Least(cmd.buffer, k)
    OBVIOUS
  <2>3. m <= Room
    BY <2>1, <2>2, Least3
  <2>4. Good(m, vals)
    BY <1>2, <2>2
  <2>5. DataReported'
    BY <1>0, <2>3, <2>4, GoodReports
  <2>6. pc' = "answered" /\ UNCHANGED <<config, cmd, wanted>> /\ answer'.vals = vals
    BY <2>4, GoodReplies
  <2>7. HealthTrue'
    BY <1>0, <1>2, <2>6 DEF HealthTrue
  <2> QED
    BY <1>0, <1>2, <2>5, <2>6, <2>7, HealthAnswered
<1>3. CASE /\ ~NoRoomFor(1) /\ cmd.page = 0
           /\ Good(Least(cmd.buffer, 6), <<>>) /\ UNCHANGED smart_cache
  <2>1. 6 \in Nat
    OBVIOUS
  <2> QED
    BY <1>0, <1>2, <1>3, <2>1
<1>4. CASE /\ ~NoRoomFor(1) /\ cmd.page = 47 /\ Refreshed
           /\ Good(Least(cmd.buffer, 12),
                IF smart_cache' = NULL THEN <<0, 0>>
                ELSE <<IF smart_cache'.warning THEN 93 ELSE 0,
                       Least(Celsius(smart_cache'), 255)>>)
  <2>1. smart_cache' \in Logs \cup {NULL} /\ 12 \in Nat
    BY <1>0, <1>4 DEF Refreshed
  <2>2. PICK vals : vals = IF smart_cache' = NULL THEN <<0, 0>>
                           ELSE <<IF smart_cache'.warning THEN 93 ELSE 0,
                                  Least(Celsius(smart_cache'), 255)>>
    OBVIOUS
  <2>3. ASSUME smart_cache' # NULL PROVE vals[1] # 0 <=> smart_cache'.warning
    <3>1. vals[1] = IF smart_cache'.warning THEN 93 ELSE 0
      BY <2>2, <2>3
    <3> QED
      BY <3>1
  <2>4. Good(Least(cmd.buffer, 12), vals)
    BY <1>4, <2>2
  <2> QED
    BY <1>2, <1>4, <2>1, <2>3, <2>4
<1> QED
  BY <1>1, <1>3, <1>4 DEF LogSense

\* The attribute for the life used is at the threshold from 90 % on.
LEMMA LifeAttribute ==
  ASSUME NEW log \in Logs, log # NULL
  PROVE  Attributes(log)[233].current <= Threshold <=> log.life_used_pct >= 100 - Threshold
<1>1. PICK life \in Nat : life = log.life_used_pct
  BY LogFields
<1>2. Attributes(log)[233] = Attribute(Clamp(100 - life), life)
  BY <1>1 DEF Attributes
<1>3. Attributes(log)[233].current = Clamp(100 - life)
  BY <1>2 DEF Attribute
<1>4. Clamp(100 - life) <= 10 <=> life >= 90
  BY <1>1 DEF Clamp, Least, Most
<1> QED
  BY <1>1, <1>3, <1>4 DEF Threshold

\* ATA PASS-THROUGH.
LEMMA AtaPassThroughKeeps ==
  ASSUME ScsiInv, AtaPassThrough
  PROVE  ScsiInv'
<1>0. /\ pc = "sent" /\ cmd.op = "ATA" /\ cmd \in Command
      /\ UNCHANGED <<vwc_enabled, feature>> /\ smart_cache \in Logs \cup {NULL}
  BY DEF AtaPassThrough, Is, ScsiInv, TypeOK
<1>1. CASE CheckEmpty /\ UNCHANGED smart_cache
  <2>1. pc' = "answered" /\ UNCHANGED <<config, cmd, wanted>> /\ scsi'.Status = 2
    BY <1>1, CheckReplies
  <2>2. DataReported'
    BY <1>0, <1>1, EmptyReports
  <2> QED
    BY <1>0, <1>1, <2>1, <2>2, HealthAnswered
<1> DEFINE attrs == Attributes(smart_cache')
<1>2. CASE /\ ~NoRoomFor(512) /\ Refreshed
           /\ Good(512, IF cmd.page = 208 THEN attrs ELSE [id \in DOMAIN attrs |-> Threshold])
  <2>1. smart_cache' \in Logs \cup {NULL} /\ 512 \in Nat
    BY <1>0, <1>2 DEF Refreshed
  <2>2. 512 <= Room
    BY <1>0, <1>2, <2>1, RoomFor
  <2>3. PICK vals : vals = IF cmd.page = 208 THEN attrs ELSE [id \in DOMAIN attrs |-> Threshold]
    OBVIOUS
  <2>4. Good(512, vals)
    BY <1>2, <2>3
  <2>5. DataReported'
    BY <1>0, <2>2, <2>4, GoodReports
  <2>6. pc' = "answered" /\ UNCHANGED <<config, cmd, wanted>> /\ answer'.vals = vals
    BY <2>4, GoodReplies
  <2>7. HealthTrue'
    <3>1. ASSUME smart_cache' # NULL, cmd.page = 208
          PROVE  vals[233].current <= Threshold <=> smart_cache'.life_used_pct >= 100 - Threshold
      <4>1. PICK log \in Logs : log = smart_cache' /\ log # NULL
        BY <2>1, <3>1
      <4>2. vals = Attributes(log)
        BY <2>3, <3>1, <4>1
      <4> QED
        BY <4>1, <4>2, LifeAttribute
    <3>2. Threshold' = Threshold
      BY DEF Threshold
    <3> QED
      BY <1>0, <2>6, <3>1, <3>2 DEF HealthTrue
  <2> QED
    BY <1>0, <2>1, <2>5, <2>6, <2>7, HealthAnswered
<1> QED
  BY <1>1, <1>2 DEF AtaPassThrough

-----------------------------------------------------------------------------
(* The client.                                                             *)

\* c is the command with these fields, and room for sense data.
Made(c, op, b, p, n, t, bytes, bd, l) ==
  c = [op |-> op, buffer |-> b, page |-> p, len |-> n, is10 |-> t, in |-> bytes,
       bd |-> bd, pages |-> l, room |-> TRUE]

\* A command without a list of mode pages.
MadePlain(c, op, b, p, n) ==
  c = [op |-> op, buffer |-> b, page |-> p, len |-> n, is10 |-> FALSE, in |-> <<>>,
       bd |-> 0, pages |-> <<>>, room |-> TRUE]

LEMMA PlainMade ==
  ASSUME NEW op \in Op, NEW b \in Nat \cup {NULL}, NEW p \in Nat, NEW n \in Nat,
         NEW c, MadePlain(c, op, b, p, n)
  PROVE  c \in Command /\ c.op = op
<1>1. PICK bytes \in Seq(Nat), pages \in Seq(ModePage) : bytes = <<>> /\ pages = <<>>
  BY EmptySeq
<1>2. c = [op |-> op, buffer |-> b, page |-> p, len |-> n, is10 |-> FALSE, in |-> bytes,
           bd |-> 0, pages |-> pages, room |-> TRUE]
  BY <1>1 DEF MadePlain
<1> QED
  BY <1>1, <1>2 DEF Command

\* The commands without mode pages.
LEMMA PlainCommand ==
  ASSUME NEW c \in PlainCommands
  PROVE  c \in Command /\ c.op \notin {"MODESENSE", "MODESELECT"}
<1> DEFINE ops == {"SHORT", "EMPTY", "TUR", "SYNC", "ANCHOR", "OTHER", "INQUIRY", "VPD",
                   "CAPACITY10", "CAPACITY16", "SERVICE", "LOGSENSE", "ATA", "UNMAP"}
<1>1. \A b \in Buffers : b \in Nat \cup {NULL}
  BY ConstantTypes DEF Buffers
<1>2. ASSUME NEW op \in ops, NEW b \in Nat \cup {NULL}, NEW p \in Nat,
             c = Plain(op, b, p)
      PROVE  c \in Command /\ c.op \notin {"MODESENSE", "MODESELECT"}
  <2>1. MadePlain(c, op, b, p, 0) /\ 0 \in Nat
    BY <1>2 DEF MadePlain, Plain
  <2>2. op \in Op /\ op \notin {"MODESENSE", "MODESELECT"}
    BY <1>2 DEF Op
  <2>3. c \in Command /\ c.op = op
    BY <1>2, <2>1, <2>2, PlainMade
  <2> QED
    BY <2>2, <2>3
<1>4. CASE c \in {Plain(op, NULL, 0) : op \in {"SHORT", "EMPTY", "TUR", "SYNC", "ANCHOR", "OTHER"}}
  <2>1. PICK op \in {"SHORT", "EMPTY", "TUR", "SYNC", "ANCHOR", "OTHER"} : c = Plain(op, NULL, 0)
    BY <1>4
  <2>2. op \in ops /\ NULL \in Nat \cup {NULL} /\ 0 \in Nat
    BY <2>1
  <2> QED
    BY <1>2, <2>1, <2>2
<1>5. CASE c \in {Plain("INQUIRY", b, 0) : b \in Buffers}
  <2>1. PICK b \in Buffers : c = Plain("INQUIRY", b, 0)
    BY <1>5
  <2>2. "INQUIRY" \in ops /\ b \in Nat \cup {NULL} /\ 0 \in Nat
    BY <1>1, <2>1
  <2> QED
    BY <1>2, <2>1, <2>2
<1>6. CASE c \in {Plain("VPD", b, p) : b \in Buffers, p \in {0, 128, 131, 176}}
  <2>1. PICK b \in Buffers, p \in {0, 128, 131, 176} : c = Plain("VPD", b, p)
    BY <1>6
  <2>2. "VPD" \in ops /\ b \in Nat \cup {NULL} /\ p \in Nat
    BY <1>1, <2>1
  <2> QED
    BY <1>2, <2>1, <2>2
<1>7. CASE c \in {Plain(op, b, 0) : op \in {"CAPACITY10", "CAPACITY16", "SERVICE"}, b \in Buffers}
  <2>1. PICK op \in {"CAPACITY10", "CAPACITY16", "SERVICE"}, b \in Buffers : c = Plain(op, b, 0)
    BY <1>7
  <2>2. op \in ops /\ b \in Nat \cup {NULL} /\ 0 \in Nat
    BY <1>1, <2>1
  <2> QED
    BY <1>2, <2>1, <2>2
<1>8. CASE c \in {Plain("LOGSENSE", b, p) : b \in Buffers, p \in {0, 47, 13}}
  <2>1. PICK b \in Buffers, p \in {0, 47, 13} : c = Plain("LOGSENSE", b, p)
    BY <1>8
  <2>2. "LOGSENSE" \in ops /\ b \in Nat \cup {NULL} /\ p \in Nat
    BY <1>1, <2>1
  <2> QED
    BY <1>2, <2>1, <2>2
<1>9. CASE c \in {Plain("ATA", b, p) : b \in Buffers, p \in {208, 209, 217}}
  <2>1. PICK b \in Buffers, p \in {208, 209, 217} : c = Plain("ATA", b, p)
    BY <1>9
  <2>2. "ATA" \in ops /\ b \in Nat \cup {NULL} /\ p \in Nat
    BY <1>1, <2>1
  <2> QED
    BY <1>2, <2>1, <2>2
<1>10. CASE c \in {[Plain("UNMAP", b, n) EXCEPT !.len = l] :
                     b \in Buffers, n \in 0 .. MaxRanges + 1, l \in {0, 8}}
  <2>1. PICK b \in Buffers, n \in 0 .. MaxRanges + 1, l \in {0, 8} :
          c = [Plain("UNMAP", b, n) EXCEPT !.len = l]
    BY <1>10
  <2>2. n \in Nat /\ b \in Nat \cup {NULL} /\ l \in Nat
    BY <1>1, <2>1, ConstantTypes
  <2>3. MadePlain(c, "UNMAP", b, n, l)
    BY <2>1 DEF MadePlain, Plain
  <2>5. "UNMAP" \in Op
    BY DEF Op
  <2>4. c \in Command /\ c.op = "UNMAP"
    BY <2>2, <2>3, <2>5, PlainMade
  <2> QED
    BY <2>4
<1> QED
  BY <1>4, <1>5, <1>6, <1>7, <1>8, <1>9, <1>10 DEF PlainCommands

\* MODE SENSE.
LEMMA SenseCommand ==
  ASSUME NEW c \in SenseCommands
  PROVE  c \in Command /\ c.op = "MODESENSE" /\ c.pages = <<>>
<1>1. PICK t \in BOOLEAN :
        c \in {SenseOf(t, b, p, n) :
                 b \in Buffers, p \in {8, 63, 10}, n \in CdbLengths(t)}
  BY DEF SenseCommands
<1>2. PICK b \in Buffers, p \in {8, 63, 10}, n \in CdbLengths(t) : c = SenseOf(t, b, p, n)
  BY <1>1
<1>3. b \in Nat \cup {NULL} /\ n \in Nat /\ p \in Nat
  BY <1>2, ConstantTypes DEF Buffers, CdbLengths
<1>4. <<>> \in Seq(Nat) /\ <<>> \in Seq(ModePage)
  BY EmptySeq
<1>5. Made(c, "MODESENSE", b, p, n, t, <<>>, 0, <<>>)
  BY <1>2 DEF Made, SenseOf, Plain
<1>6. /\ "MODESENSE" \in Op /\ 0 \in {0, 8} /\ TRUE \in BOOLEAN
  BY DEF Op
<1> QED
  BY <1>1, <1>3, <1>4, <1>5, <1>6 DEF Made, Command

\* MODE SELECT, with a list of pages in full.
LEMMA SelectCommand ==
  ASSUME NEW c \in SelectCommands
  PROVE  /\ c \in Command /\ c.op = "MODESELECT"
         /\ c.in = ListBytes(c.is10, c.bd, c.pages) /\ c.buffer = Len(c.in)
<1>0. PICK t \in BOOLEAN :
        c \in {SelectOf(t, bd, l, n) :
                 bd \in {0, 8}, l \in PageLists, n \in CdbLengths(t)}
  BY DEF SelectCommands
<1>1. PICK bd \in {0, 8}, l \in PageLists, n \in CdbLengths(t) : c = SelectOf(t, bd, l, n)
  BY <1>0
<1>2. n \in Nat /\ l \in Seq(ModePage)
  BY <1>1, ConstantTypes DEF CdbLengths
<1>3. PICK bytes : bytes = ListBytes(t, bd, l)
  OBVIOUS
<1>4. Made(c, "MODESELECT", Len(bytes), 0, n, t, bytes, bd, l)
  BY <1>1, <1>3 DEF Made, SelectOf, Plain
<1>5. bytes \in Seq(Nat) /\ Len(bytes) \in Nat
  <2> DEFINE h == IF t THEN <<0, 0, 0, 0, 0, 0, bd \div 256, bd % 256>> ELSE <<0, 0, 0, bd>>
  <2>1. bd \div 256 = 0 /\ bd % 256 = bd /\ bd \in Nat
    BY <1>1
  <2>2. h \in Seq(Nat)
    BY <2>1
  <2>3. Zeros(bd) \in Seq(Nat) /\ PageBytes(l) \in Seq(Nat)
    BY <1>2, <2>1, ZerosSeq, PagesLaidOut
  <2>4. bytes = h \o Zeros(bd) \o PageBytes(l)
    BY <1>3 DEF ListBytes
  <2> HIDE DEF h
  <2>5. h \o Zeros(bd) \in Seq(Nat)
    BY <2>2, <2>3, ConcatProperties
  <2>6. bytes \in Seq(Nat)
    BY <2>3, <2>4, <2>5, ConcatProperties
  <2> QED
    BY <2>6
<1>6. /\ c \in Command /\ c.op = "MODESELECT" /\ c.buffer = Len(bytes)
      /\ c.is10 = t /\ c.in = bytes /\ c.bd = bd /\ c.pages = l
  <2>1. "MODESELECT" \in Op /\ Len(bytes) \in Nat \cup {NULL} /\ 0 \in Nat /\ TRUE \in BOOLEAN
    BY <1>5 DEF Op
  <2> QED
    BY <1>0, <1>1, <1>2, <1>4, <1>5, <2>1 DEF Made, Command
<1> QED
  BY <1>3, <1>6

\* Whether there is room for sense data changes nothing else.
LEMMA SentCommand ==
  ASSUME NEW c \in Command, NEW r \in BOOLEAN, NEW d, d = [c EXCEPT !.room = r]
  PROVE  /\ d \in Command /\ d.op = c.op /\ d.pages = c.pages /\ d.in = c.in
         /\ d.is10 = c.is10 /\ d.bd = c.bd /\ d.buffer = c.buffer /\ d.len = c.len
BY DEF Command

\* The command of SendBack.
SentBack(d, c, n, bytes) == d = [c EXCEPT !.op = "MODESELECT", !.len = n, !.in = bytes]

LEMMA SentBackCommand ==
  ASSUME NEW c \in Command, NEW n \in Nat, NEW bytes \in Seq(Nat),
         NEW d, SentBack(d, c, n, bytes)
  PROVE  /\ d \in Command /\ d.op = "MODESELECT" /\ d.pages = c.pages /\ d.in = bytes
         /\ d.len = n /\ d.is10 = c.is10
<1>1. "MODESELECT" \in Op
  BY DEF Op
<1> QED
  BY <1>1 DEF Command, SentBack

\* Sending a command keeps the invariant.
LEMMA SubmitKeeps ==
  ASSUME ScsiInv, Due = wanted, NEW c, Submit(c), c \in Command,
         c.op = "MODESENSE" => c.pages = <<>>,
         c.op = "MODESELECT" =>
           \/ c.in = ListBytes(c.is10, c.bd, c.pages) /\ c.buffer = Len(c.in)
           \/ c.pages = <<>> /\ Returned(cmd.in, cmd.len)'
  PROVE  ScsiInv'
<1>1. PICK r \in BOOLEAN : cmd' = [c EXCEPT !.room = r]
  BY DEF Submit
<1>2. /\ cmd' \in Command /\ cmd'.op = c.op /\ cmd'.pages = c.pages /\ cmd'.in = c.in
      /\ cmd'.is10 = c.is10 /\ cmd'.bd = c.bd /\ cmd'.buffer = c.buffer
  BY <1>1, SentCommand
<1>3. pc' = "sent" /\ UNCHANGED <<config, unitVars, wanted>>
  BY DEF Submit
<1>4. TypeOK'
  BY <1>2, <1>3 DEF ScsiInv, TypeOK, config, unitVars
<1>5. SelectSent' /\ SensePlain' /\ SenseReturned'
  <2>1. ListBytes(cmd.is10, cmd.bd, cmd.pages)' = ListBytes(c.is10, c.bd, c.pages)
    <3>1. ListBytes(cmd.is10, cmd.bd, cmd.pages)' = ListBytes(cmd'.is10, cmd'.bd, cmd'.pages)
      BY ONLY DEF ListBytes, PageBytes, Zeros
    <3>2. PICK i, d, l : i = c.is10 /\ d = c.bd /\ l = c.pages
      OBVIOUS
    <3>3. cmd'.is10 = i /\ cmd'.bd = d /\ cmd'.pages = l
      BY <1>2, <3>2
    <3> QED
      BY <3>1, <3>2, <3>3
  <2> QED
    BY <1>2, <1>3, <2>1 DEF SelectSent, SensePlain, SenseReturned
<1>6. WriteCacheDue'
  BY <1>3 DEF ScsiInv, WriteCacheDue, Due, unitVars
<1>7. DataReported' /\ Told'
  BY <1>3 DEF DataReported, Told
<1> QED
  BY <1>4, <1>5, <1>6, <1>7 DEF ScsiInv

\* A command that the client makes up.
LEMMA SendKeeps ==
  ASSUME ScsiInv, Send
  PROVE  ScsiInv'
<1>1. Due = wanted
  BY DEF Send, Due
<1>2. PICK c \in PlainCommands \cup SenseCommands \cup SelectCommands : Submit(c)
  BY DEF Send
<1>3. CASE c \in PlainCommands
  BY <1>1, <1>2, <1>3, PlainCommand, SubmitKeeps
<1>4. CASE c \in SenseCommands
  <2>1. c \in Command /\ c.op = "MODESENSE" /\ c.pages = <<>>
    BY <1>4, SenseCommand
  <2> QED
    BY <1>1, <1>2, <2>1, SubmitKeeps
<1>5. CASE c \in SelectCommands
  <2>1. /\ c \in Command /\ c.op = "MODESELECT"
        /\ c.in = ListBytes(c.is10, c.bd, c.pages) /\ c.buffer = Len(c.in)
    BY <1>5, SelectCommand
  <2> QED
    BY <1>1, <1>2, <2>1, SubmitKeeps
<1> QED
  BY <1>2, <1>3, <1>4, <1>5

\* A list that MODE SENSE returned.
LEMMA SendBackKeeps ==
  ASSUME ScsiInv, SendBack
  PROVE  ScsiInv'
<1> DEFINE c == [cmd EXCEPT !.op = "MODESELECT", !.len = scsi.Actual, !.in = answer.vals]
<1>0. /\ pc = "answered" /\ cmd.op = "MODESENSE" /\ scsi.Status = 0 /\ cmd \in Command
      /\ cmd.pages = <<>> /\ Submit(c) /\ vwc_enabled \in BOOLEAN
  BY DEF SendBack, ScsiInv, TypeOK, SensePlain
<1>1. Due = wanted
  BY <1>0 DEF Due
<1>2. PICK n, bytes : n = scsi.Actual /\ bytes = answer.vals
  OBVIOUS
<1>3. Returned(bytes, n)
  BY <1>0, <1>2 DEF ScsiInv, SenseReturned
<1>4. n \in Nat /\ bytes \in Seq(Nat)
  <2>1. HeaderLen(cmd.is10) \in {4, 8}
    BY <1>0, CommandFields
  <2>2. CASE n \in 0 .. HeaderLen(cmd.is10) - 1 /\ bytes = Zeros(n)
    <3>1. n \in Nat
      BY <2>1, <2>2
    <3> QED
      BY <2>2, <3>1, ZerosSeq
  <2>3. CASE \E room \in 0 .. 20 : ReturnedWhole(bytes, n, room)
    BY <1>0, <2>3, ReturnedBytes
  <2> QED
    BY Zenon, <1>3, <2>2, <2>3 DEF Returned, ReturnedWhole
<1>5. /\ c \in Command /\ c.op = "MODESELECT" /\ c.pages = <<>>
      /\ c.in = bytes /\ c.len = n /\ c.is10 = cmd.is10
  <2>1. c = [cmd EXCEPT !.op = "MODESELECT", !.len = n, !.in = bytes]
    BY <1>2
  <2> HIDE DEF c
  <2>2. SentBack(c, cmd, n, bytes)
    BY <2>1 DEF SentBack
  <2> QED
    BY <1>0, <1>4, <2>2, SentBackCommand
<1> HIDE DEF c
<1>6. cmd'.in = bytes /\ cmd'.len = n /\ cmd'.is10 = cmd.is10 /\ vwc_enabled' = vwc_enabled
  <2>1. PICK r \in BOOLEAN : cmd' = [c EXCEPT !.room = r]
    BY <1>0 DEF Submit
  <2> QED
    BY <1>0, <1>5, <2>1, SentCommand DEF Submit, unitVars
<1>7. Returned(cmd.in, cmd.len)'
  <2>1. /\ HeaderLen(cmd.is10)' = HeaderLen(cmd.is10) /\ CachingPage' = CachingPage
        /\ ModeHeader(cmd.len)' = ModeHeader(n) /\ Zeros(cmd.len)' = Zeros(n)
    BY <1>6 DEF HeaderLen, CachingPage, ModeHeader, Zeros
  <2> QED
    BY Zenon, <1>3, <1>6, <2>1 DEF Returned
<1> QED
  BY <1>0, <1>1, <1>5, <1>7, SubmitKeeps

\* Taking the answer.
LEMMA TakeKeeps ==
  ASSUME ScsiInv, Take
  PROVE  ScsiInv'
<1>1. /\ pc = "answered" /\ pc' = "ready" /\ wanted' = Due
      /\ UNCHANGED <<config, unitVars>>
  BY DEF Take, Due
<1>2. vwc_enabled \in BOOLEAN /\ feature = vwc_enabled /\ vwc_enabled = Due
  BY DEF ScsiInv, TypeOK, WriteCacheDue
<1>3. TypeOK'
  BY <1>1, <1>2 DEF ScsiInv, TypeOK, config, unitVars
<1>4. WriteCacheDue'
  BY <1>1, <1>2 DEF WriteCacheDue, Due, unitVars
<1>5. SelectSent' /\ SensePlain' /\ SenseReturned' /\ DataReported' /\ Told'
  BY <1>1 DEF SelectSent, SensePlain, SenseReturned, DataReported, Told
<1> QED
  BY <1>3, <1>4, <1>5 DEF ScsiInv

-----------------------------------------------------------------------------
(* The theorems.                                                           *)

\* The unit as it starts.
LEMMA InitKeeps ==
  ASSUME Init
  PROVE  ScsiInv
<1>1. /\ pc = "ready" /\ feature = vwc_enabled /\ wanted = vwc_enabled
      /\ vwc_enabled \in BOOLEAN /\ vwc_present \in BOOLEAN /\ dsm \in BOOLEAN
      /\ total_blocks \in Totals /\ smart_cache \in Logs \cup {NULL}
  BY DEF Init
<1>2. TypeOK
  BY <1>1 DEF TypeOK
<1>3. SelectSent /\ SensePlain /\ SenseReturned /\ DataReported /\ Told
  BY <1>1 DEF SelectSent, SensePlain, SenseReturned, DataReported, Told
<1>4. WriteCacheDue
  BY <1>1 DEF WriteCacheDue, Due
<1> QED
  BY <1>2, <1>3, <1>4 DEF ScsiInv

\* A step that changes nothing.
LEMMA StutterKeeps ==
  ASSUME ScsiInv, UNCHANGED vars
  PROVE  ScsiInv'
<1>1. UNCHANGED <<total_blocks, vwc_present, dsm, vwc_enabled, feature, smart_cache,
                  pc, cmd, scsi, io, answer, wanted>>
  BY DEF vars, config, unitVars, cmdVars
<1>2. /\ HeaderLen(cmd.is10)' = HeaderLen(cmd.is10) /\ CachingPage' = CachingPage
      /\ \A n : Zeros(n)' = Zeros(n) /\ ModeHeader(n)' = ModeHeader(n)
  BY <1>1 DEF HeaderLen, CachingPage, Zeros, ModeHeader
<1>3. TypeOK'
  BY <1>1 DEF ScsiInv, TypeOK
<1>4. SelectSent' /\ SensePlain' /\ SenseReturned'
  <2>1. Returned(cmd.in, cmd.len)' = Returned(cmd.in, cmd.len)
    BY <1>1, <1>2 DEF Returned
  <2>2. Returned(answer.vals, scsi.Actual)' = Returned(answer.vals, scsi.Actual)
    BY <1>1, <1>2 DEF Returned
  <2>3. ListBytes(cmd.is10, cmd.bd, cmd.pages)' = ListBytes(cmd.is10, cmd.bd, cmd.pages)
    BY <1>1 DEF ListBytes, PageBytes, Zeros
  <2> QED
    BY <1>1, <2>1, <2>2, <2>3 DEF ScsiInv, SelectSent, SensePlain, SenseReturned
<1>5. WriteCacheDue'
  <2>1. Asked' = Asked
    BY <1>1 DEF Asked, PageEnd, HeaderLen
  <2>2. Due' = Due
    BY <1>1, <2>1 DEF Due
  <2> QED
    BY <1>1, <2>2 DEF ScsiInv, WriteCacheDue
<1>6. DataReported'
  <2>1. NoRoomFor(8)' = NoRoomFor(8) /\ NoRoomFor(32)' = NoRoomFor(32)
        /\ NoRoomFor(cmd.len)' = NoRoomFor(cmd.len)
    BY <1>1 DEF NoRoomFor
  <2> QED
    BY <1>1, <2>1 DEF ScsiInv, DataReported
<1>7. Told'
  <2>1. CapacityTrue' = CapacityTrue
    BY <1>1 DEF CapacityTrue
  <2>2. ModeTrue' = ModeTrue
    BY <1>1, <1>2 DEF ModeTrue
  <2>3. HealthTrue' = HealthTrue
    BY <1>1 DEF HealthTrue, Threshold
  <2> QED
    BY <1>1, <2>1, <2>2, <2>3 DEF ScsiInv, Told
<1> QED
  BY <1>3, <1>4, <1>5, <1>6, <1>7 DEF ScsiInv

\* Every step.
LEMMA StepKeeps ==
  ASSUME NullIsNoSetting, ScsiInv, [Next]_vars
  PROVE  ScsiInv'
<1>1. CASE Send
  BY <1>1, SendKeeps
<1>2. CASE SendBack
  BY <1>2, SendBackKeeps
<1>3. CASE Take
  BY <1>3, TakeKeeps
<1>4. CASE Malformed
  BY <1>4, MalformedKeeps
<1>5. CASE TestUnitReady
  BY <1>5, TestUnitReadyKeeps
<1>6. CASE Inquiry
  BY <1>6, InquiryKeeps
<1>7. CASE ReadCapacity10
  BY <1>7, ReadCapacity10Keeps
<1>8. CASE ReadCapacity16
  BY <1>8, ReadCapacity16Keeps
<1>9. CASE SynchronizeCache
  BY <1>9, SynchronizeCacheKeeps
<1>10. CASE Unmap
  BY <1>10, UnmapKeeps
<1>11. CASE Unsupported
  BY <1>11, UnsupportedKeeps
<1>12. CASE ModeSense
  BY <1>12, ModeSenseKeeps
<1>13. CASE ModeSelect
  BY <1>13, ModeSelectKeeps
<1>14. CASE LogSense
  BY <1>14, LogSenseKeeps
<1>15. CASE AtaPassThrough
  BY <1>15, AtaPassThroughKeeps
<1>16. CASE UNCHANGED vars
  BY <1>16, StutterKeeps
<1> QED
  BY <1>1, <1>2, <1>3, <1>4, <1>5, <1>6, <1>7, <1>8, <1>9, <1>10, <1>11, <1>12,
     <1>13, <1>14, <1>15, <1>16 DEF Next, HandleScsiCmd

\* What the invariant says of the properties.
LEMMA InvariantTells ==
  ASSUME ScsiInv
  PROVE  TypeOK /\ DataReported /\ AnswersTrue
<1>1. Told /\ WriteCacheDue
  BY DEF ScsiInv
<1>2. SelectTrue
  BY <1>1 DEF WriteCacheDue, Due, SelectTrue
<1> QED
  BY <1>1, <1>2 DEF ScsiInv, AnswersTrue, Told

(* The invariant holds in every state of every unit, whatever commands its *)
(* client sends and in whatever order (unit_task.c:87-381 and              *)
(* src/src/scsi_cmds/).                                                    *)
THEOREM ScsiInvariant ==
  ASSUME NullIsNoSetting
  PROVE  Spec => []ScsiInv
<1>1. Init => ScsiInv
  BY InitKeeps
<1>2. ScsiInv /\ [Next]_vars => ScsiInv'
  BY StepKeeps
<1> QED
  BY <1>1, <1>2, PTL DEF Spec

(* The variables keep their types: what the unit knows of its namespace    *)
(* does not change its kind, and a command that the unit task has in hand  *)
(* or has answered is a whole one (struct nvme_unit and struct SCSICmd).   *)
THEOREM TypeCorrect ==
  ASSUME NullIsNoSetting
  PROVE  Spec => []TypeOK
<1>1. ScsiInv => TypeOK
  BY InvariantTells
<1> QED
  BY <1>1, ScsiInvariant, PTL

(* Whatever lengths and buffers a client gives, no handler writes past     *)
(* scsi_Length or past the length in the CDB of MODE SENSE, what is        *)
(* reported with status GOOD in both Actual fields is what was written,    *)
(* and status, io_Error and sense data agree (set_scsi_sense and the       *)
(* handlers of handle_scsi_cmd).                                           *)
THEOREM AnswersReported ==
  ASSUME NullIsNoSetting
  PROVE  Spec => []DataReported
<1>1. ScsiInv => DataReported
  BY InvariantTells
<1> QED
  BY <1>1, ScsiInvariant, PTL

(* What a client is told with status GOOD is so after any sequence of      *)
(* commands: the capacity, the setting of the write cache, which is that   *)
(* of the last caching page of the last MODE SELECT that succeeded, for    *)
(* every list of mode pages a client can make up and wherever the CDB cuts *)
(* it (handle_mode_select), and the health of the drive.                   *)
THEOREM WhatIsToldIsTrue ==
  ASSUME NullIsNoSetting
  PROVE  Spec => []AnswersTrue
<1>1. ScsiInv => AnswersTrue
  BY InvariantTells
<1> QED
  BY <1>1, ScsiInvariant, PTL

=============================================================================
