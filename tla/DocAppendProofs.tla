---------------------------- MODULE DocAppendProofs ----------------------------
(***************************************************************************)
(* Proofs about DocAppend for any calls and texts, any number of attempts  *)
(* and any typing.  What a call says is cut out of the document by a fold, *)
(* and its text is flattened from lines by one; the first part shows, by   *)
(* induction over the sets of numbers a fact holds of, how the two go with *)
(* the concatenations and the restyling of which a batch is made.  The     *)
(* second follows the calls, the third places each unit of a text where    *)
(* the code's count of characters puts it, and the last follows styles.    *)
(***************************************************************************)
EXTENDS DocAppend, SequenceTheorems, WellFoundedInduction, TLAPS

\* A set of numbers that holds 0 and the successor of each of its members holds all.
LEMMA Induction ==
    ASSUME NEW S, 0 \in S, \A n \in Nat : n \in S => n + 1 \in S
    PROVE  Nat \subseteq S
<1> SUFFICES ASSUME Nat \ S # {}
             PROVE  FALSE
  OBVIOUS
<1> DEFINE R == {p \in Nat \X Nat : p[1] < p[2]}
<1>1. OpToRel(<, Nat) = R
  BY Zenon DEF OpToRel
<1>2. IsWellFoundedOn(R, Nat)
  BY <1>1, NatLessThanWellFounded
<1> HIDE DEF R
<1>3. PICK n \in Nat \ S : \A m \in Nat \ S : <<m, n>> \notin R
  BY <1>2, WFMin
<1>4. n - 1 \in Nat /\ n - 1 \in S
  <2>1. n - 1 \in Nat
    BY <1>3
  <2>2. PICK p : p = <<n - 1, n>>
    OBVIOUS
  <2>3. p \in R
    BY <1>3, <2>1, <2>2 DEF R
  <2> QED BY <1>3, <2>1, <2>2, <2>3
<1> QED BY <1>3, <1>4

-------------------------------------------------------------------------------
\* What a call says in a document

Units == [by : Calls \cup {"person"}, line : Nat, at : Nat, raw : BOOLEAN,
          bold : BOOLEAN, heading : BOOLEAN]
Sayings == Nat \X Nat \X BOOLEAN

LEMMA SaidType == ASSUME NEW u \in Units PROVE Said(u) \in Sayings
BY DEF Said, Units, Sayings

\* f tells what c says up to each of the first n places of d.
Tells(f, c, d, n) ==
    f = [p \in 0 .. n |->
           IF p = 0 THEN <<>> ELSE Heard(c, f[p - 1], d[p])]

LEMMA TellsAt ==
    ASSUME NEW f, NEW c, NEW d, NEW n \in Nat, Tells(f, c, d, n)
    PROVE  /\ f[0] = <<>>
           /\ \A p \in 1 .. n : f[p] = Heard(c, f[p - 1], d[p])
<1>1. \A p \in 0 .. n : f[p] = IF p = 0 THEN <<>> ELSE Heard(c, f[p - 1], d[p])
  BY DEF Tells
<1>2. 0 \in 0 .. n /\ \A p \in 1 .. n : p \in 0 .. n /\ p # 0
  OBVIOUS
<1> QED BY <1>1, <1>2

LEMMA OfTells ==
    ASSUME NEW c, NEW d \in Seq(Units)
    PROVE  \E f : Tells(f, c, d, Len(d)) /\ Of(c, d) = f[Len(d)]
<1> DEFINE S == {n \in Nat : \E f : Tells(f, c, d, n)}
<1>1. 0 \in S
  <2>1. PICK f : f = [p \in 0 .. 0 |-> <<>>]
    OBVIOUS
  <2>2. Tells(f, c, d, 0)
    BY <2>1 DEF Tells
  <2> QED BY <2>2
<1>2. ASSUME NEW n \in Nat, n \in S
      PROVE  n + 1 \in S
  <2>1. PICK f : Tells(f, c, d, n)
    BY <1>2
  <2>2. PICK last : last = Heard(c, f[n], d[n + 1])
    OBVIOUS
  <2>3. PICK g : g = [p \in 0 .. n + 1 |-> IF p = n + 1 THEN last ELSE f[p]]
    OBVIOUS
  <2>4. ASSUME NEW p \in 0 .. n + 1
        PROVE  g[p] = IF p = 0 THEN <<>> ELSE Heard(c, g[p - 1], d[p])
    <3>1. CASE p = n + 1
      BY <1>2, <2>2, <2>3, <3>1
    <3>2. CASE p = 0
      BY <1>2, <2>1, <2>3, <3>2 DEF Tells
    <3>3. CASE p \in 1 .. n
      <4>1. g[p] = f[p] /\ g[p - 1] = f[p - 1]
        BY <1>2, <2>3, <3>3
      <4>2. f[p] = Heard(c, f[p - 1], d[p])
        BY <1>2, <2>1, <3>3, TellsAt
      <4> QED BY <3>3, <4>1, <4>2
    <3> QED BY <1>2, <3>1, <3>2, <3>3
  <2>5. Tells(g, c, d, n + 1)
    BY <2>3, <2>4 DEF Tells
  <2> QED BY <1>2, <2>5
<1>3. Nat \subseteq S
  <2> HIDE DEF S
  <2> QED BY <1>1, <1>2, Induction
<1>4. \E f : Tells(f, c, d, Len(d))
  BY <1>3
<1>5. Of(c, d) = (CHOOSE f : Tells(f, c, d, Len(d)))[Len(d)]
  BY DEF Of, Tells
<1> QED BY <1>4, <1>5

\* What a unit adds to what was said.
LEMMA HeardAdds ==
    ASSUME NEW c, NEW said \in Seq(Sayings), NEW u \in Units
    PROVE  /\ Heard(c, said, u) \in Seq(Sayings)
           /\ u.by # c => Heard(c, said, u) = said
           /\ u.by = c => /\ Len(Heard(c, said, u)) = Len(said) + 1
                          /\ \A i \in 1 .. Len(said) : Heard(c, said, u)[i] = said[i]
                          /\ Heard(c, said, u)[Len(said) + 1] = Said(u)
BY SaidType, AppendProperties DEF Heard

LEMMA HeardAlike ==
    ASSUME NEW c, NEW said, NEW u, NEW v, u.by = c <=> v.by = c, Said(u) = Said(v)
    PROVE  Heard(c, said, u) = Heard(c, said, v)
BY DEF Heard

LEMMA HeardAfter ==
    ASSUME NEW c, NEW a \in Seq(Sayings), NEW b \in Seq(Sayings), NEW u \in Units
    PROVE  Heard(c, a \o b, u) = a \o Heard(c, b, u)
<1>1. PICK x : x = Said(u)
  OBVIOUS
<1>2. x \in Sayings /\ <<x>> \in Seq(Sayings) /\ a \o b \in Seq(Sayings)
  BY <1>1, SaidType, ConcatProperties
<1>3. Append(a \o b, x) = (a \o b) \o <<x>> /\ Append(b, x) = b \o <<x>>
  BY <1>2, AppendIsConcat
<1>4. (a \o b) \o <<x>> = a \o (b \o <<x>>)
  BY <1>2, ConcatAssociative
<1> QED BY <1>1, <1>3, <1>4 DEF Heard

LEMMA TellsType ==
    ASSUME NEW f, NEW c, NEW d \in Seq(Units), Tells(f, c, d, Len(d)), NEW p \in 0 .. Len(d)
    PROVE  f[p] \in Seq(Sayings)
<1> DEFINE S == {n \in Nat : n <= Len(d) => f[n] \in Seq(Sayings)}
<1>1. /\ Len(d) \in Nat /\ f[0] = <<>>
      /\ \A n \in 1 .. Len(d) : f[n] = Heard(c, f[n - 1], d[n])
  <2>1. Len(d) \in Nat
    OBVIOUS
  <2> QED BY <2>1, TellsAt
<1>2. 0 \in S
  BY <1>1, EmptySeq
<1>3. ASSUME NEW n \in Nat, n \in S
      PROVE  n + 1 \in S
  <2> SUFFICES ASSUME n + 1 <= Len(d)
               PROVE  f[n + 1] \in Seq(Sayings)
    BY <1>3
  <2>1. f[n] \in Seq(Sayings)
    BY <1>1, <1>3
  <2>2. n + 1 \in 1 .. Len(d) /\ (n + 1) - 1 = n
    BY <1>1, <1>3
  <2>3. d[n + 1] \in Units
    BY <2>2, ElementOfSeq
  <2>4. f[n + 1] = Heard(c, f[n], d[n + 1])
    BY <1>1, <2>2
  <2> QED BY <2>1, <2>3, <2>4, HeardAdds
<1>4. Nat \subseteq S
  <2> HIDE DEF S
  <2> QED BY <1>2, <1>3, Induction
<1> QED BY <1>1, <1>4

LEMMA OfType ==
    ASSUME NEW c, NEW d \in Seq(Units)
    PROVE  Of(c, d) \in Seq(Sayings)
<1>1. Len(d) \in 0 .. Len(d)
  OBVIOUS
<1> QED BY <1>1, OfTells, TellsType

\* Documents that agree up to a place are told alike up to there.
LEMMA TellsAlike ==
    ASSUME NEW c, NEW d, NEW e, NEW m \in Nat, NEW n \in Nat, NEW k \in Nat, k <= m, k <= n,
           NEW f, NEW g, Tells(f, c, d, m), Tells(g, c, e, n),
           \A p \in 1 .. k : (d[p].by = c <=> e[p].by = c) /\ Said(d[p]) = Said(e[p])
    PROVE  f[k] = g[k]
<1> DEFINE S == {i \in Nat : i <= k => f[i] = g[i]}
<1>1. 0 \in S
  BY TellsAt
<1>2. ASSUME NEW i \in Nat, i \in S
      PROVE  i + 1 \in S
  <2> SUFFICES ASSUME i + 1 <= k
               PROVE  f[i + 1] = g[i + 1]
    BY <1>2
  <2>1. /\ f[i] = g[i] /\ i + 1 \in 1 .. k /\ i + 1 \in 1 .. m /\ i + 1 \in 1 .. n
        /\ (i + 1) - 1 = i
    BY <1>2
  <2>2. f[i + 1] = Heard(c, f[i], d[i + 1])
    BY <2>1, TellsAt
  <2>3. g[i + 1] = Heard(c, g[i], e[i + 1])
    BY <2>1, TellsAt
  <2> QED BY <2>1, <2>2, <2>3, HeardAlike
<1>3. Nat \subseteq S
  <2> HIDE DEF S
  <2> QED BY <1>1, <1>2, Induction
<1> QED BY <1>3

LEMMA OfAlike ==
    ASSUME NEW c, NEW d \in Seq(Units), NEW e \in Seq(Units), Len(d) = Len(e),
           \A p \in 1 .. Len(d) : (d[p].by = c <=> e[p].by = c) /\ Said(d[p]) = Said(e[p])
    PROVE  Of(c, d) = Of(c, e)
<1>1. PICK f : Tells(f, c, d, Len(d)) /\ Of(c, d) = f[Len(d)]
  BY OfTells
<1>2. PICK g : Tells(g, c, e, Len(e)) /\ Of(c, e) = g[Len(e)]
  BY OfTells
<1>3. Len(d) \in Nat
  OBVIOUS
<1> QED BY <1>1, <1>2, <1>3, TellsAlike

\* What others wrote says nothing of c, and what c wrote is all c's.
LEMMA OfOthers ==
    ASSUME NEW c, NEW d \in Seq(Units), \A p \in 1 .. Len(d) : d[p].by # c
    PROVE  Of(c, d) = <<>>
<1>1. PICK f : Tells(f, c, d, Len(d)) /\ Of(c, d) = f[Len(d)]
  BY OfTells
<1> DEFINE S == {n \in Nat : n <= Len(d) => f[n] = <<>>}
<1>2. 0 \in S
  BY <1>1, TellsAt
<1>3. ASSUME NEW n \in Nat, n \in S
      PROVE  n + 1 \in S
  <2> SUFFICES ASSUME n + 1 <= Len(d)
               PROVE  f[n + 1] = <<>>
    BY <1>3
  <2>1. f[n] = <<>> /\ n + 1 \in 1 .. Len(d) /\ (n + 1) - 1 = n /\ Len(d) \in Nat
    BY <1>3
  <2>2. f[n + 1] = Heard(c, f[n], d[n + 1])
    BY <1>1, <2>1, TellsAt
  <2> QED BY <2>1, <2>2 DEF Heard
<1>4. Nat \subseteq S
  <2> HIDE DEF S
  <2> QED BY <1>2, <1>3, Induction
<1> QED BY <1>1, <1>4

LEMMA OfOwn ==
    ASSUME NEW c, NEW d \in Seq(Units), \A p \in 1 .. Len(d) : d[p].by = c
    PROVE  Of(c, d) = [p \in 1 .. Len(d) |-> Said(d[p])]
<1>1. PICK f : Tells(f, c, d, Len(d)) /\ Of(c, d) = f[Len(d)]
  BY OfTells
<1> DEFINE S == {n \in Nat : n <= Len(d) => Len(f[n]) = n /\ \A p \in 1 .. n : f[n][p] = Said(d[p])}
<1>2. 0 \in S
  BY <1>1, TellsAt
<1>3. ASSUME NEW n \in Nat, n \in S
      PROVE  n + 1 \in S
  <2> SUFFICES ASSUME n + 1 <= Len(d)
               PROVE  Len(f[n + 1]) = n + 1 /\ \A p \in 1 .. n + 1 : f[n + 1][p] = Said(d[p])
    BY <1>3
  <2>1. Len(f[n]) = n /\ (\A p \in 1 .. n : f[n][p] = Said(d[p])) /\ f[n] \in Seq(Sayings)
    BY <1>1, <1>3, TellsType
  <2>2. n + 1 \in 1 .. Len(d) /\ d[n + 1] \in Units /\ (n + 1) - 1 = n /\ Len(d) \in Nat
    BY <1>3, ElementOfSeq
  <2>3. f[n + 1] = Heard(c, f[n], d[n + 1])
    BY <1>1, <2>2, TellsAt
  <2>4. \A p \in 1 .. n + 1 : p \in 1 .. n \/ p = n + 1
    BY <1>3
  <2> QED BY <2>1, <2>2, <2>3, <2>4, HeardAdds
<1>4. Nat \subseteq S
  <2> HIDE DEF S
  <2> QED BY <1>2, <1>3, Induction
<1>5. /\ Len(Of(c, d)) = Len(d) /\ \A p \in 1 .. Len(d) : Of(c, d)[p] = Said(d[p])
      /\ Of(c, d) \in Seq(Sayings)
  BY <1>1, <1>4, OfType
<1> QED BY <1>5

\* A document in two parts says what the first says, and then what the second says.
LEMMA OfConcat ==
    ASSUME NEW c, NEW d \in Seq(Units), NEW e \in Seq(Units)
    PROVE  Of(c, d \o e) = Of(c, d) \o Of(c, e)
<1>1. PICK f : Tells(f, c, d, Len(d)) /\ Of(c, d) = f[Len(d)]
  BY OfTells
<1>2. PICK g : Tells(g, c, e, Len(e)) /\ Of(c, e) = g[Len(e)]
  BY OfTells
<1>3. PICK w, m, k : w = d \o e /\ m = Len(d) /\ k = Len(e)
  OBVIOUS
<1>4. /\ w \in Seq(Units) /\ Len(w) = m + k /\ m \in Nat /\ k \in Nat /\ m + k \in Nat
      /\ \A i \in 1 .. m + k : w[i] = IF i <= m THEN d[i] ELSE e[i - m]
  BY <1>3, ConcatProperties
<1>5. PICK h : Tells(h, c, w, m + k) /\ Of(c, w) = h[m + k]
  BY <1>4, OfTells
<1>6. /\ h[m] = f[m] /\ f[m] \in Seq(Sayings)
      /\ \A n \in 0 .. k : g[n] \in Seq(Sayings)
  <2>1. \A i \in 1 .. m : w[i] = d[i]
    BY <1>4
  <2>2. m <= m + k /\ m \in 0 .. m
    BY <1>4
  <2>3. h[m] = f[m]
    <3>1. Tells(f, c, d, m)
      BY <1>1, <1>3
    <3>2. \A p \in 1 .. m : (w[p].by = c <=> d[p].by = c) /\ Said(w[p]) = Said(d[p])
      BY <2>1
    <3>3. PICK q : q = m + k
      OBVIOUS
    <3>4. m \in Nat /\ q \in Nat /\ m <= q /\ m <= m
      BY <1>4, <3>3
    <3>5. Tells(h, c, w, q)
      BY <1>5, <3>3
    <3> QED BY <3>1, <3>2, <3>4, <3>5, TellsAlike
  <2> QED BY <1>1, <1>2, <1>3, <2>2, <2>3, TellsType
<1> DEFINE Joined(n) == f[m] \o g[n]
           S == {n \in Nat : n <= k => h[m + n] = Joined(n)}
<1>7. 0 \in S
  <2>1. g[0] = <<>>
    BY <1>2, <1>3, <1>4, TellsAt
  <2>2. Joined(0) = f[m] /\ m + 0 = m
    BY <1>4, <1>6, <2>1, ConcatEmptySeq
  <2> HIDE DEF Joined
  <2> QED BY <1>6, <2>2
<1>8. ASSUME NEW n \in Nat, n \in S
      PROVE  n + 1 \in S
  <2>0. SUFFICES ASSUME n + 1 <= k
                 PROVE  h[m + (n + 1)] = Joined(n + 1)
    <3> HIDE DEF Joined
    <3> QED BY <1>8
  <2>1. /\ n \in 0 .. k /\ n + 1 \in 1 .. k /\ (n + 1) - 1 = n
        /\ h[m + n] = Joined(n)
    <3> HIDE DEF Joined
    <3> QED BY <1>4, <1>8, <2>0
  <2>2. e[n + 1] \in Units
    BY <1>3, <2>1, ElementOfSeq
  <2>3. g[n + 1] = Heard(c, g[n], e[n + 1])
    BY <1>2, <1>3, <1>4, <2>1, TellsAt
  <2>4. PICK i : i = m + (n + 1)
    OBVIOUS
  <2>5. i \in 1 .. m + k /\ i - 1 = m + n /\ i - m = n + 1 /\ ~(i <= m)
    BY <1>4, <1>8, <2>1, <2>4
  <2>6. h[i] = Heard(c, h[m + n], e[n + 1])
    <3>1. w[i] = e[n + 1]
      <4>1. \A j \in 1 .. m + k : ~(j <= m) => w[j] = e[j - m]
        BY <1>4
      <4> QED BY <2>5, <4>1
    <3>2. \A j \in 1 .. m + k : h[j] = Heard(c, h[j - 1], w[j])
      BY <1>4, <1>5, TellsAt
    <3>3. h[i] = Heard(c, h[i - 1], w[i])
      BY <2>5, <3>2
    <3> QED BY <2>5, <3>1, <3>3
  <2>7. Heard(c, Joined(n), e[n + 1]) = f[m] \o Heard(c, g[n], e[n + 1])
    BY <1>6, <2>1, <2>2, HeardAfter
  <2> QED BY <2>1, <2>3, <2>4, <2>6, <2>7
<1>9. Nat \subseteq S
  <2> HIDE DEF S
  <2> QED BY <1>7, <1>8, Induction
<1>10. h[m + k] = Joined(k)
  <2> HIDE DEF Joined
  <2> QED BY <1>4, <1>9
<1> QED BY <1>1, <1>2, <1>3, <1>5, <1>10

-------------------------------------------------------------------------------
\* What a flattening is made of

\* f flattens each of the first n parts of s.
Flattens(f, s, n) == f = [i \in 1 .. n |-> IF i = 1 THEN s[i] ELSE f[i - 1] \o s[i]]

\* A concatenation, where a step needs no more of it than its name.
Joined(a, b) == a \o b

LEMMA FlattensAt ==
    ASSUME NEW V, NEW s \in Seq(V), s # <<>>, NEW f, Flattens(f, s, Len(s))
    PROVE  /\ f[1] = s[1]
           /\ \A i \in 1 .. Len(s) : i # 1 => f[i] = Joined(f[i - 1], s[i])
<1>1. f = [i \in 1 .. Len(s) |-> IF i = 1 THEN s[i] ELSE Joined(f[i - 1], s[i])]
  BY DEF Flattens, Joined
<1>2. 1 \in 1 .. Len(s)
  BY EmptySeq
<1>3. f[1] = s[1]
  BY <1>1, <1>2
<1>4. \A i \in 1 .. Len(s) : i # 1 => f[i] = Joined(f[i - 1], s[i])
  BY <1>1
<1> QED BY <1>3, <1>4

LEMMA JoinedType ==
    ASSUME NEW U, NEW a \in Seq(U), NEW b \in Seq(U)
    PROVE  Joined(a, b) \in Seq(U) /\ Len(Joined(a, b)) = Len(a) + Len(b)
BY ConcatProperties DEF Joined

LEMMA FlattenSeqFlattens ==
    ASSUME NEW V, NEW s \in Seq(V), s # <<>>
    PROVE  \E f : Flattens(f, s, Len(s)) /\ FlattenSeq(s) = f[Len(s)]
<1> DEFINE S == {n \in Nat : \E f : Flattens(f, s, n)}
<1>0. ASSUME NEW f, NEW n
      PROVE  Flattens(f, s, n)
               <=> f = [i \in 1 .. n |-> IF i = 1 THEN s[i] ELSE Joined(f[i - 1], s[i])]
  BY DEF Flattens, Joined
<1>1. 0 \in S
  <2>1. PICK f : f = [i \in 1 .. 0 |-> s[i]]
    OBVIOUS
  <2>2. f = [i \in 1 .. 0 |-> IF i = 1 THEN s[i] ELSE Joined(f[i - 1], s[i])]
    BY <2>1
  <2>3. Flattens(f, s, 0)
    BY <1>0, <2>2
  <2> QED BY <2>3
<1>2. ASSUME NEW n \in Nat, n \in S
      PROVE  n + 1 \in S
  <2>1. PICK f : Flattens(f, s, n)
    BY <1>2
  <2>2. PICK last : last = IF n = 0 THEN s[1] ELSE Joined(f[n], s[n + 1])
    OBVIOUS
  <2>3. PICK g : g = [i \in 1 .. n + 1 |-> IF i = n + 1 THEN last ELSE f[i]]
    OBVIOUS
  <2>4. ASSUME NEW i \in 1 .. n + 1
        PROVE  g[i] = IF i = 1 THEN s[i] ELSE Joined(g[i - 1], s[i])
    <3>1. CASE i = n + 1
      BY <1>2, <2>2, <2>3, <3>1
    <3>2. CASE i \in 1 .. n
      <4>1. f = [j \in 1 .. n |-> IF j = 1 THEN s[j] ELSE Joined(f[j - 1], s[j])]
        BY <1>0, <2>1
      <4>2. f[i] = IF i = 1 THEN s[i] ELSE Joined(f[i - 1], s[i])
        BY <3>2, <4>1
      <4>3. g[i] = f[i] /\ (i # 1 => g[i - 1] = f[i - 1])
        BY <1>2, <2>3, <3>2
      <4> QED BY <4>2, <4>3
    <3> QED BY <1>2, <3>1, <3>2
  <2>5. g = [i \in 1 .. n + 1 |-> IF i = 1 THEN s[i] ELSE Joined(g[i - 1], s[i])]
    BY <2>3, <2>4
  <2>6. Flattens(g, s, n + 1)
    BY <1>0, <2>5
  <2> QED BY <1>2, <2>6
<1>3. Nat \subseteq S
  <2> HIDE DEF S
  <2> QED BY <1>1, <1>2, Induction
<1>4. Len(s) \in Nat /\ Len(s) # 0
  BY EmptySeq
<1>5. \E f : Flattens(f, s, Len(s))
  BY <1>3, <1>4
<1>6. FlattenSeq(s) = (CHOOSE f : Flattens(f, s, Len(s)))[Len(s)]
  BY <1>4 DEF FlattenSeq, Flattens
<1> QED BY <1>5, <1>6

\* Parts of a kind make a whole of that kind.
LEMMA FlattensType ==
    ASSUME NEW U, NEW s \in Seq(Seq(U)), NEW f, Flattens(f, s, Len(s)), NEW n \in 1 .. Len(s)
    PROVE  f[n] \in Seq(U)
<1> DEFINE S == {i \in Nat : i + 1 <= Len(s) => f[i + 1] \in Seq(U)}
<1>1. /\ Len(s) \in Nat /\ s # <<>> /\ 1 \in 1 .. Len(s)
      /\ \A i \in 1 .. Len(s) : s[i] \in Seq(U)
  BY EmptySeq, LenProperties, ElementOfSeq
<1>2. 0 \in S
  <2>1. f[1] = s[1] /\ s[1] \in Seq(U)
    BY <1>1, FlattensAt
  <2> QED BY <2>1
<1>3. ASSUME NEW i \in Nat, i \in S
      PROVE  i + 1 \in S
  <2> SUFFICES ASSUME (i + 1) + 1 <= Len(s)
               PROVE  f[(i + 1) + 1] \in Seq(U)
    BY <1>3
  <2>1. PICK j : j = (i + 1) + 1
    OBVIOUS
  <2>2. j \in 1 .. Len(s) /\ j # 1 /\ j - 1 = i + 1
    BY <1>1, <2>1
  <2>3. f[i + 1] \in Seq(U) /\ s[j] \in Seq(U)
    BY <1>1, <1>3, <2>2
  <2>4. f[j] = Joined(f[i + 1], s[j])
    BY <1>1, <2>2, FlattensAt
  <2> QED BY <2>1, <2>3, <2>4, JoinedType
<1>4. Nat \subseteq S
  <2> HIDE DEF S
  <2> QED BY <1>2, <1>3, Induction
<1>5. n - 1 \in Nat /\ (n - 1) + 1 = n /\ n <= Len(s)
  BY <1>1
<1>6. n - 1 \in S
  BY <1>4, <1>5
<1> QED BY <1>5, <1>6

LEMMA FlattenSeqType ==
    ASSUME NEW U, NEW s \in Seq(Seq(U))
    PROVE  FlattenSeq(s) \in Seq(U)
<1>1. CASE s = <<>>
  <2>1. Len(s) = 0
    BY <1>1
  <2> QED BY <1>1, <2>1, EmptySeq DEF FlattenSeq
<1>2. CASE s # <<>>
  <2>1. PICK f : Flattens(f, s, Len(s)) /\ FlattenSeq(s) = f[Len(s)]
    BY <1>2, FlattenSeqFlattens
  <2>2. Len(s) \in 1 .. Len(s)
    BY <1>2, EmptySeq
  <2> QED BY <2>1, <2>2, FlattensType
<1> QED BY <1>1, <1>2

\* Longer parts make a longer whole.
LEMMA FlattenSeqLonger ==
    ASSUME NEW U, NEW W, NEW s \in Seq(Seq(U)), NEW t \in Seq(Seq(W)), Len(s) = Len(t),
           s # <<>>, \A i \in 1 .. Len(s) : Len(s[i]) <= Len(t[i])
    PROVE  Len(FlattenSeq(s)) <= Len(FlattenSeq(t))
<1>1. Len(s) \in Nat \ {0} /\ t # <<>>
  BY EmptySeq
<1>2. PICK f : Flattens(f, s, Len(s)) /\ FlattenSeq(s) = f[Len(s)]
  BY FlattenSeqFlattens
<1>3. PICK g : Flattens(g, t, Len(t)) /\ FlattenSeq(t) = g[Len(t)]
  BY <1>1, FlattenSeqFlattens
<1> DEFINE S == {i \in Nat : i + 1 <= Len(s) => Len(f[i + 1]) <= Len(g[i + 1])}
<1>4. 0 \in S
  <2>1. f[1] = s[1]
    BY <1>1, <1>2, FlattensAt
  <2>2. g[1] = t[1]
    BY <1>1, <1>3, FlattensAt
  <2> QED BY <1>1, <2>1, <2>2
<1>5. ASSUME NEW i \in Nat, i \in S
      PROVE  i + 1 \in S
  <2> SUFFICES ASSUME (i + 1) + 1 <= Len(s)
               PROVE  Len(f[(i + 1) + 1]) <= Len(g[(i + 1) + 1])
    BY <1>5
  <2>1. PICK j, k : j = (i + 1) + 1 /\ k = i + 1
    OBVIOUS
  <2>2. j \in 1 .. Len(s) /\ j # 1 /\ j - 1 = k /\ k \in 1 .. Len(s)
    BY <1>1, <2>1
  <2>3. f[j] = Joined(f[k], s[j])
    <3>1. \A p \in 1 .. Len(s) : p # 1 => f[p] = Joined(f[p - 1], s[p])
      BY <1>2, FlattensAt
    <3>2. f[j] = Joined(f[j - 1], s[j])
      BY <2>2, <3>1
    <3> QED BY <2>2, <3>2
  <2>4. g[j] = Joined(g[k], t[j])
    <3>1. \A p \in 1 .. Len(t) : p # 1 => g[p] = Joined(g[p - 1], t[p])
      BY <1>1, <1>3, FlattensAt
    <3>2. g[j] = Joined(g[j - 1], t[j])
      BY <2>2, <3>1
    <3> QED BY <2>2, <3>2
  <2>5. s[j] \in Seq(U) /\ f[k] \in Seq(U)
    BY <1>2, <2>2, ElementOfSeq, FlattensType
  <2>6. t[j] \in Seq(W) /\ g[k] \in Seq(W)
    BY <1>3, <2>2, ElementOfSeq, FlattensType
  <2>7. Len(f[j]) = Len(f[k]) + Len(s[j]) /\ Len(f[k]) \in Nat /\ Len(s[j]) \in Nat
    BY <2>3, <2>5, JoinedType, LenProperties
  <2>8. Len(g[j]) = Len(g[k]) + Len(t[j]) /\ Len(g[k]) \in Nat /\ Len(t[j]) \in Nat
    BY <2>4, <2>6, JoinedType, LenProperties
  <2>9. Len(f[k]) <= Len(g[k]) /\ Len(s[j]) <= Len(t[j])
    BY <1>5, <2>1, <2>2
  <2>10. Len(f[j]) <= Len(g[j])
    <3>1. \A a, b, x, y \in Nat : a <= x /\ b <= y => a + b <= x + y
      OBVIOUS
    <3>2. Len(f[k]) + Len(s[j]) <= Len(g[k]) + Len(t[j])
      BY <2>7, <2>8, <2>9, <3>1
    <3> QED BY <2>7, <2>8, <3>2
  <2> QED BY <2>1, <2>10
<1>6. Nat \subseteq S
  <2> HIDE DEF S
  <2> QED BY <1>4, <1>5, Induction
<1>7. Len(s) - 1 \in Nat /\ (Len(s) - 1) + 1 = Len(s)
  BY <1>1
<1>8. Len(s) - 1 \in S
  BY <1>6, <1>7
<1> QED BY <1>2, <1>3, <1>7, <1>8

-------------------------------------------------------------------------------
\* The text of a call

\* The units call c writes, as they are when sent.
Parts(c, raw) == [by : {c}, line : Nat, at : Nat, raw : {raw},
                  bold : {FALSE}, heading : {FALSE}]

\* The units of each character of a line.
Characters(c, l, raw) ==
    [at \in 1 .. Width(c, l) |->
       [k \in 1 .. Texts[c][l].widths[at] |-> Unit(c, l, at, raw)]]

LEMMA Single ==
    ASSUME NEW S, NEW x \in S
    PROVE  <<x>> \in Seq(S) /\ Len(<<x>>) = 1
OBVIOUS

LEMMA UnitPart ==
    ASSUME NEW c, NEW l \in Nat, NEW at \in Nat, NEW raw
    PROVE  Unit(c, l, at, raw) \in Parts(c, raw)
BY DEF Unit, Parts

LEMMA PartsAreUnits ==
    ASSUME NEW c \in Calls, NEW raw \in BOOLEAN
    PROVE  Parts(c, raw) \subseteq Units
BY DEF Parts, Units

LEMMA LineType ==
    ASSUME NEW c \in Calls, NEW l \in DOMAIN Texts[c]
    PROVE  /\ l \in Nat /\ Width(c, l) \in Nat
           /\ \A at \in 1 .. Width(c, l) : Texts[c][l].widths[at] \in Nat
           /\ Len(Texts[c]) \in Nat \ {0} /\ DOMAIN Texts[c] = 1 .. Len(Texts[c])
<1>1. Texts[c] \in Seq(Lines) /\ Texts[c] # <<>>
  BY TextsAssumption
<1>2. Len(Texts[c]) \in Nat \ {0} /\ DOMAIN Texts[c] = 1 .. Len(Texts[c])
  BY <1>1, EmptySeq, LenProperties
<1>3. l \in 1 .. Len(Texts[c]) /\ Texts[c][l] \in Lines
  BY <1>1, <1>2, ElementOfSeq
<1>4. Texts[c][l].widths \in Seq({1, 2})
  BY <1>3 DEF Lines
<1>5. PICK w : w = Texts[c][l].widths
  OBVIOUS
<1>6. Len(w) \in Nat /\ \A at \in 1 .. Len(w) : w[at] \in {1, 2}
  BY <1>4, <1>5, LenProperties, ElementOfSeq
<1>7. \A at \in 1 .. Len(w) : w[at] \in Nat
  BY <1>6
<1> QED BY <1>2, <1>3, <1>5, <1>6, <1>7 DEF Width

LEMMA CharactersType ==
    ASSUME NEW c \in Calls, NEW l \in DOMAIN Texts[c], NEW raw
    PROVE  Characters(c, l, raw) \in Seq(Seq(Parts(c, raw)))
<1>1. PICK n, w : n = Width(c, l) /\ w = Texts[c][l].widths
  OBVIOUS
<1>2. n \in Nat /\ l \in Nat /\ \A at \in 1 .. n : w[at] \in Nat
  BY <1>1, LineType
<1>3. ASSUME NEW at \in 1 .. n
      PROVE  [k \in 1 .. w[at] |-> Unit(c, l, at, raw)] \in Seq(Parts(c, raw))
  <2>1. w[at] \in Nat /\ Unit(c, l, at, raw) \in Parts(c, raw)
    BY <1>2, UnitPart
  <2> QED BY <2>1
<1>4. [at \in 1 .. n |-> [k \in 1 .. w[at] |-> Unit(c, l, at, raw)]] \in Seq(Seq(Parts(c, raw)))
  BY <1>2, <1>3
<1> QED BY <1>1, <1>4 DEF Characters

LEMMA LineUnitsType ==
    ASSUME NEW c \in Calls, NEW l \in DOMAIN Texts[c], NEW raw \in BOOLEAN
    PROVE  LineUnits(c, l, raw) \in Seq(Parts(c, raw))
<1>1. PICK a, b : /\ a = FlattenSeq(Characters(c, l, raw))
                  /\ b = IF raw /\ l = Len(Texts[c]) THEN <<>> ELSE <<Unit(c, l, 0, raw)>>
  OBVIOUS
<1>2. a \in Seq(Parts(c, raw))
  BY <1>1, CharactersType, FlattenSeqType
<1>3. b \in Seq(Parts(c, raw))
  <2>1. Unit(c, l, 0, raw) \in Parts(c, raw)
    BY LineType, UnitPart
  <2> QED BY <1>1, <2>1
<1>4. LineUnits(c, l, raw) = a \o b
  BY <1>1 DEF LineUnits, Characters
<1> QED BY <1>2, <1>3, <1>4, ConcatProperties

LEMMA LinesType ==
    ASSUME NEW c \in Calls, NEW raw \in BOOLEAN
    PROVE  [l \in DOMAIN Texts[c] |-> LineUnits(c, l, raw)] \in Seq(Seq(Parts(c, raw)))
<1>1. PICK n, V : n = Len(Texts[c]) /\ V = Seq(Parts(c, raw))
  OBVIOUS
<1>2. n \in Nat /\ DOMAIN Texts[c] = 1 .. n
  BY <1>1, TextsAssumption, LenProperties
<1>3. \A l \in 1 .. n : LineUnits(c, l, raw) \in V
  BY <1>1, <1>2, LineUnitsType
<1>4. [l \in 1 .. n |-> LineUnits(c, l, raw)] \in Seq(V)
  BY <1>2, <1>3
<1> QED BY <1>1, <1>2, <1>4

LEMMA TextType ==
    ASSUME NEW c \in Calls, NEW raw \in BOOLEAN
    PROVE  Text(c, raw) \in Seq(Parts(c, raw))
<1>1. PICK s : s = [l \in DOMAIN Texts[c] |-> LineUnits(c, l, raw)]
  OBVIOUS
<1>2. s \in Seq(Seq(Parts(c, raw)))
  BY <1>1, LinesType
<1> QED BY <1>1, <1>2, FlattenSeqType DEF Text

\* The raw text has the same characters, and no newline after the last line.
LEMMA RawLineIsNoLonger ==
    ASSUME NEW c \in Calls, NEW l \in DOMAIN Texts[c]
    PROVE  Len(LineUnits(c, l, TRUE)) <= Len(LineUnits(c, l, FALSE))
<1>1. PICK s, t : s = Characters(c, l, TRUE) /\ t = Characters(c, l, FALSE)
  OBVIOUS
<1>2. s \in Seq(Seq(Parts(c, TRUE))) /\ t \in Seq(Seq(Parts(c, FALSE)))
  BY <1>1, CharactersType
<1>3. PICK n, w : n = Width(c, l) /\ w = Texts[c][l].widths
  OBVIOUS
<1>4. n \in Nat /\ \A at \in 1 .. n : w[at] \in Nat
  BY <1>3, LineType
<1>5. Len(s) = n /\ Len(t) = n /\ \A at \in 1 .. n : Len(s[at]) = w[at] /\ Len(t[at]) = w[at]
  <2>1. /\ s = [at \in 1 .. n |-> [k \in 1 .. w[at] |-> Unit(c, l, at, TRUE)]]
        /\ t = [at \in 1 .. n |-> [k \in 1 .. w[at] |-> Unit(c, l, at, FALSE)]]
    BY <1>1, <1>3 DEF Characters
  <2>2. Len(s) = n /\ Len(t) = n
    BY <1>4, <2>1
  <2>3. ASSUME NEW at \in 1 .. n
        PROVE  Len(s[at]) = w[at] /\ Len(t[at]) = w[at]
    <3>1. PICK x, y : /\ x = [k \in 1 .. w[at] |-> Unit(c, l, at, TRUE)]
                      /\ y = [k \in 1 .. w[at] |-> Unit(c, l, at, FALSE)]
      OBVIOUS
    <3>2. w[at] \in Nat
      BY <1>4
    <3>3. Len(x) = w[at] /\ Len(y) = w[at]
      BY <3>1, <3>2
    <3>4. s[at] = x /\ t[at] = y
      BY <2>1, <3>1
    <3> QED BY <3>3, <3>4
  <2> QED BY <2>2, <2>3
<1>6. Len(FlattenSeq(s)) <= Len(FlattenSeq(t))
  <2>1. CASE s = <<>>
    <3>1. t = <<>>
      BY <1>2, <1>5, <2>1, EmptySeq
    <3>2. Len(s) = 0 /\ Len(t) = 0
      BY <2>1, <3>1
    <3> QED BY <2>1, <3>1, <3>2 DEF FlattenSeq
  <2>2. CASE s # <<>>
    <3>1. \A at \in 1 .. Len(s) : Len(s[at]) <= Len(t[at])
      BY <1>4, <1>5
    <3> QED BY <1>2, <1>5, <2>2, <3>1, FlattenSeqLonger
  <2> QED BY <2>1, <2>2
<1>7. PICK a, b : a = FlattenSeq(s) /\ b = FlattenSeq(t)
  OBVIOUS
<1>8. a \in Seq(Parts(c, TRUE)) /\ b \in Seq(Parts(c, FALSE)) /\ Len(a) <= Len(b)
  BY <1>2, <1>6, <1>7, FlattenSeqType
<1>9. PICK y, z : /\ y = IF l = Len(Texts[c]) THEN <<>> ELSE <<Unit(c, l, 0, TRUE)>>
                  /\ z = <<Unit(c, l, 0, FALSE)>>
  OBVIOUS
<1>10. y \in Seq(Parts(c, TRUE)) /\ z \in Seq(Parts(c, FALSE)) /\ Len(y) <= 1 /\ Len(z) = 1
  <2>1. Unit(c, l, 0, TRUE) \in Parts(c, TRUE) /\ Unit(c, l, 0, FALSE) \in Parts(c, FALSE)
    BY LineType, UnitPart
  <2>2. PICK u, v : u = Unit(c, l, 0, TRUE) /\ v = Unit(c, l, 0, FALSE)
    OBVIOUS
  <2>3. y = <<>> \/ y = <<u>>
    BY <1>9, <2>2
  <2>4. y \in Seq(Parts(c, TRUE)) /\ Len(y) <= 1
    <3>1. CASE y = <<>>
      BY <3>1, EmptySeq
    <3>2. CASE y = <<u>>
      <4>1. u \in Parts(c, TRUE)
        BY <2>1, <2>2
      <4>2. y \in Seq(Parts(c, TRUE)) /\ Len(y) = 1
        BY <3>2, <4>1, Single
      <4>3. Len(y) = 1
        BY <4>2
      <4>4. Len(y) <= 1
        BY <4>3
      <4> QED BY <4>2, <4>4
    <3> QED BY <2>3, <3>1, <3>2
  <2>5. z \in Seq(Parts(c, FALSE)) /\ Len(z) = 1
    BY <1>9, <2>1, Single
  <2> QED BY <2>4, <2>5
<1>11. LineUnits(c, l, TRUE) = a \o y /\ LineUnits(c, l, FALSE) = b \o z
  BY <1>1, <1>7, <1>9 DEF LineUnits, Characters
<1>12. Len(a \o y) = Len(a) + Len(y) /\ Len(b \o z) = Len(b) + Len(z)
  BY <1>8, <1>10, ConcatProperties
<1>13. Len(a) \in Nat /\ Len(b) \in Nat /\ Len(y) \in Nat
  BY <1>8, <1>10, LenProperties
<1>14. Len(a) + Len(y) <= Len(b) + Len(z)
  BY <1>8, <1>10, <1>13
<1> QED BY <1>11, <1>12, <1>14

LEMMA RawIsNoLonger ==
    ASSUME NEW c \in Calls
    PROVE  Len(Text(c, TRUE)) <= Len(Text(c, FALSE))
<1>1. PICK s, t : /\ s = [l \in DOMAIN Texts[c] |-> LineUnits(c, l, TRUE)]
                  /\ t = [l \in DOMAIN Texts[c] |-> LineUnits(c, l, FALSE)]
  OBVIOUS
<1>2. PICK n : n = Len(Texts[c])
  OBVIOUS
<1>3. n \in Nat \ {0} /\ DOMAIN Texts[c] = 1 .. n
  BY <1>2, TextsAssumption, EmptySeq, LenProperties
<1>4. s \in Seq(Seq(Parts(c, TRUE))) /\ t \in Seq(Seq(Parts(c, FALSE)))
  BY <1>1, LinesType
<1>5. Len(s) = n /\ Len(t) = n
  BY <1>1, <1>3
<1>6. s # <<>>
  BY <1>3, <1>5
<1>7. \A l \in 1 .. Len(s) : Len(s[l]) <= Len(t[l])
  BY <1>1, <1>3, <1>5, RawLineIsNoLonger
<1>8. Len(FlattenSeq(s)) <= Len(FlattenSeq(t))
  BY <1>4, <1>5, <1>6, <1>7, FlattenSeqLonger
<1> QED BY <1>1, <1>8 DEF Text

LEMMA WholeType ==
    ASSUME NEW c \in Calls, NEW raw \in BOOLEAN
    PROVE  Whole(c, raw) \in Seq(Sayings) /\ Len(Whole(c, raw)) = Len(Text(c, raw))
<1>1. PICK t : t = Text(c, raw)
  OBVIOUS
<1>2. t \in Seq(Units)
  BY <1>1, TextType, PartsAreUnits, SeqMonotonic
<1>3. Len(t) \in Nat /\ DOMAIN t = 1 .. Len(t) /\ \A i \in 1 .. Len(t) : Said(t[i]) \in Sayings
  BY <1>2, LenProperties, ElementOfSeq, SaidType
<1>4. [i \in 1 .. Len(t) |-> Said(t[i])] \in Seq(Sayings)
  BY <1>3
<1>5. Len([i \in 1 .. Len(t) |-> Said(t[i])]) = Len(t)
  BY <1>3
<1> QED BY <1>1, <1>3, <1>4, <1>5 DEF Whole

-------------------------------------------------------------------------------
\* The batch

LEMMA JoinedAt ==
    ASSUME NEW U, NEW a \in Seq(U), NEW b \in Seq(U)
    PROVE  \A i \in 1 .. Len(a) + Len(b) :
              Joined(a, b)[i] = IF i <= Len(a) THEN a[i] ELSE b[i - Len(a)]
BY ConcatProperties DEF Joined

LEMMA JoinedEmpty ==
    ASSUME NEW U, NEW a \in Seq(U)
    PROVE  Joined(a, <<>>) = a
BY ConcatEmptySeq DEF Joined

LEMMA OfJoined ==
    ASSUME NEW c, NEW d \in Seq(Units), NEW e \in Seq(Units)
    PROVE  Of(c, Joined(d, e)) = Joined(Of(c, d), Of(c, e))
BY OfConcat DEF Joined

\* Document d cut open at a place, and what goes in there to say units for call k.
CutOpen(d, k, units, at, pre, new, post) ==
    /\ d = Joined(pre, post)
    /\ Inserted(d, units, at) = Joined(Joined(pre, new), post)
    /\ Len(pre) = at /\ Len(new) = Len(units) /\ Len(post) = Len(d) - at
    /\ \A i \in 1 .. Len(units) :
          /\ new[i].by = k /\ Said(new[i]) = Said(units[i])
          /\ new[i].bold => at > 0 /\ d[at].bold
          /\ at = Len(d) - 1 /\ new[i].heading => d[Len(d)].heading

\* What is inserted splits the document in two, and says what was to be said.
LEMMA InsertedParts ==
    ASSUME NEW d \in Seq(Units), d[Len(d)].at = 0, NEW k \in Calls, NEW raw \in BOOLEAN,
           NEW units, units = Text(k, raw), NEW at \in Nat, at < Len(d)
    PROVE  \E pre, new, post \in Seq(Units) : CutOpen(d, k, units, at, pre, new, post)
<1>1. PICK pre, post : pre = SubSeq(d, 1, at) /\ post = SubSeq(d, at + 1, Len(d))
  OBVIOUS
<1>2. units \in Seq(Parts(k, raw))
  BY TextType
<1>3. /\ Len(d) \in Nat /\ \A i \in 1 .. Len(d) : d[i] \in Units
      /\ Len(units) \in Nat /\ DOMAIN units = 1 .. Len(units)
      /\ \A i \in 1 .. Len(units) : units[i] \in Parts(k, raw)
  BY <1>2, LenProperties, ElementOfSeq
<1>4. pre \in Seq(Units) /\ Len(pre) = at
  <2>1. \A i \in 1 .. at : d[i] \in Units
    BY <1>3
  <2> QED BY <1>1, <2>1, SubSeqProperties
<1>5. post \in Seq(Units) /\ Len(post) = Len(d) - at
  <2>1. \A i \in at + 1 .. Len(d) : d[i] \in Units
    BY <1>3
  <2>2. at + 1 \in Int /\ Len(d) \in Int /\ at + 1 <= Len(d) /\ (Len(d) - (at + 1)) + 1 = Len(d) - at
    BY <1>3
  <2> QED BY <1>1, <2>1, <2>2, SubSeqProperties
<1>6. d = Joined(pre, post)
  <2>1. 1 \in 1 .. Len(d) + 1 /\ at \in 1 - 1 .. Len(d) /\ Len(d) \in at .. Len(d)
    BY <1>3
  <2>2. SubSeq(d, 1, at) \o SubSeq(d, at + 1, Len(d)) = SubSeq(d, 1, Len(d))
    BY <2>1, ConcatAdjacentSubSeq
  <2>3. SubSeq(d, 1, Len(d)) = d
    BY SubSeqFull
  <2> QED BY <1>1, <2>2, <2>3 DEF Joined
<1> DEFINE bold == at > 0 /\ d[at].bold
           around == CHOOSE p \in at + 1 .. Len(d) :
                        d[p].at = 0 /\ \A i \in at + 1 .. p - 1 : d[i].at # 0
           styled(i) == [units[i] EXCEPT !.bold = bold,
                                         !.heading = units[i].at = 0 /\ d[around].heading]
           new == [i \in DOMAIN units |-> styled(i)]
<1>7. at = Len(d) - 1 => around = Len(d)
  <2> SUFFICES ASSUME at = Len(d) - 1
               PROVE  around = Len(d)
    OBVIOUS
  <2>1. \A p \in at + 1 .. Len(d) : p = Len(d)
    BY <1>3
  <2>2. /\ Len(d) \in at + 1 .. Len(d) /\ d[Len(d)].at = 0
        /\ \A i \in at + 1 .. Len(d) - 1 : d[i].at # 0
    BY <1>3
  <2>3. \E p \in at + 1 .. Len(d) : d[p].at = 0 /\ \A i \in at + 1 .. p - 1 : d[i].at # 0
    BY <2>2
  <2>4. around \in at + 1 .. Len(d)
    BY <2>3
  <2> HIDE DEF around
  <2> QED BY <2>1, <2>4
<1>8. ASSUME NEW i \in 1 .. Len(units)
      PROVE  /\ styled(i) \in Units /\ styled(i).by = k /\ Said(styled(i)) = Said(units[i])
             /\ styled(i).bold => at > 0 /\ d[at].bold
             /\ styled(i).heading => d[around].heading
  <2>1. PICK b, h : b = bold /\ h = (units[i].at = 0 /\ d[around].heading)
    OBVIOUS
  <2>2. b \in BOOLEAN /\ h \in BOOLEAN
    BY <2>1
  <2>3. styled(i) = [units[i] EXCEPT !.bold = b, !.heading = h]
    BY <2>1
  <2>4. units[i] \in Parts(k, raw)
    BY <1>3
  <2>5. (b => at > 0 /\ d[at].bold) /\ (h => d[around].heading)
    BY <2>1
  <2> HIDE DEF styled, around
  <2>6. styled(i) \in Units /\ styled(i).by = k /\ Said(styled(i)) = Said(units[i])
    BY <2>2, <2>3, <2>4 DEF Parts, Units, Said
  <2>7. styled(i).bold = b /\ styled(i).heading = h
    BY <2>3, <2>4 DEF Parts
  <2> QED BY <2>5, <2>6, <2>7
<1> HIDE DEF styled, around
<1>9. new \in Seq(Units) /\ Len(new) = Len(units)
  BY <1>3, <1>8
<1>10. \A i \in 1 .. Len(units) :
         /\ new[i].by = k /\ Said(new[i]) = Said(units[i])
         /\ new[i].bold => at > 0 /\ d[at].bold
         /\ at = Len(d) - 1 /\ new[i].heading => d[Len(d)].heading
  <2> SUFFICES ASSUME NEW i \in 1 .. Len(units)
               PROVE  /\ new[i].by = k /\ Said(new[i]) = Said(units[i])
                      /\ new[i].bold => at > 0 /\ d[at].bold
                      /\ at = Len(d) - 1 /\ new[i].heading => d[Len(d)].heading
    OBVIOUS
  <2>1. new[i] = styled(i)
    BY <1>3
  <2> QED BY <1>8, <1>7, <2>1
<1>11. Inserted(d, units, at) = Joined(Joined(pre, new), post)
  BY <1>1 DEF Inserted, styled, around, Joined
<1> HIDE DEF new
<1>12. CutOpen(d, k, units, at, pre, new, post)
  BY <1>4, <1>5, <1>6, <1>9, <1>10, <1>11 DEF CutOpen
<1> QED BY <1>4, <1>5, <1>9, <1>12

\* Unit p ends a paragraph that one of the headings of c touches.
InHeading(d, p, c, base) ==
    d[p].at = 0 /\ \E q \in Paragraph(d, p) : Covered(q, Headings(c), base)

\* Styles change nothing of what is said.
LEMMA StyledType ==
    ASSUME NEW d \in Seq(Units), NEW c, NEW base
    PROVE  /\ Styled(d, c, base) \in Seq(Units)
           /\ Len(Styled(d, c, base)) = Len(d)
           /\ \A p \in 1 .. Len(d) :
                 /\ Styled(d, c, base)[p].by = d[p].by
                 /\ Said(Styled(d, c, base)[p]) = Said(d[p])
                 /\ Styled(d, c, base)[p].bold <=> d[p].bold \/ Covered(p, Bolds(c), base)
                 /\ Styled(d, c, base)[p].heading <=> d[p].heading \/ InHeading(d, p, c, base)
<1> DEFINE restyled(p) == [d[p] EXCEPT !.bold = @ \/ Covered(p, Bolds(c), base),
                                       !.heading = @ \/ InHeading(d, p, c, base)]
<1>1. Len(d) \in Nat /\ DOMAIN d = 1 .. Len(d) /\ \A p \in 1 .. Len(d) : d[p] \in Units
  BY LenProperties, ElementOfSeq
<1>2. ASSUME NEW p \in 1 .. Len(d)
      PROVE  /\ restyled(p) \in Units /\ restyled(p).by = d[p].by /\ Said(restyled(p)) = Said(d[p])
             /\ restyled(p).bold <=> d[p].bold \/ Covered(p, Bolds(c), base)
             /\ restyled(p).heading <=> d[p].heading \/ InHeading(d, p, c, base)
  <2>1. PICK b, h : /\ b = (d[p].bold \/ Covered(p, Bolds(c), base))
                    /\ h = (d[p].heading \/ InHeading(d, p, c, base))
    OBVIOUS
  <2>2. b \in BOOLEAN /\ h \in BOOLEAN
    BY <2>1
  <2>3. restyled(p) = [d[p] EXCEPT !.bold = b, !.heading = h]
    BY <2>1
  <2>4. d[p] \in Units
    BY <1>1
  <2> HIDE DEF restyled
  <2>5. restyled(p) \in Units /\ restyled(p).by = d[p].by /\ Said(restyled(p)) = Said(d[p])
    BY <2>2, <2>3, <2>4 DEF Units, Said
  <2>6. restyled(p).bold = b /\ restyled(p).heading = h
    BY <2>3, <2>4 DEF Units
  <2> QED BY <2>1, <2>5, <2>6
<1>3. Styled(d, c, base) = [p \in 1 .. Len(d) |-> restyled(p)]
  BY <1>1 DEF Styled, InHeading
<1> HIDE DEF restyled
<1>4. PICK e : e = [p \in 1 .. Len(d) |-> restyled(p)]
  OBVIOUS
<1>5. e \in Seq(Units) /\ Len(e) = Len(d)
  BY <1>1, <1>2, <1>4
<1>6. \A p \in 1 .. Len(d) : e[p] = restyled(p)
  BY <1>4
<1> QED BY <1>2, <1>3, <1>4, <1>5, <1>6

\* A document that is not empty, and whose last unit ends a line.
Closed(d) == d \in Seq(Units) /\ Len(d) > 0 /\ d[Len(d)].at = 0

LEMMA InsertedSays ==
    ASSUME NEW d, Closed(d), NEW k \in Calls, NEW raw \in BOOLEAN, NEW at \in Nat, at < Len(d)
    PROVE  /\ Closed(Inserted(d, Text(k, raw), at))
           /\ \A c \in Calls \ {k} : Of(c, Inserted(d, Text(k, raw), at)) = Of(c, d)
           /\ \E pre, post \in Seq(Sayings) :
                 /\ Of(k, d) = Joined(pre, post)
                 /\ Of(k, Inserted(d, Text(k, raw), at)) = Joined(Joined(pre, Whole(k, raw)), post)
<1>1. PICK t : t = Text(k, raw)
  OBVIOUS
<1>2. t \in Seq(Parts(k, raw)) /\ Len(t) \in Nat /\ DOMAIN t = 1 .. Len(t)
  BY <1>1, TextType, LenProperties
<1>3. d \in Seq(Units) /\ Len(d) \in Nat /\ d[Len(d)].at = 0
  BY DEF Closed
<1>4. PICK pre, new, post \in Seq(Units) : CutOpen(d, k, t, at, pre, new, post)
  BY <1>1, <1>3, InsertedParts
<1>5. /\ d = Joined(pre, post)
      /\ Inserted(d, t, at) = Joined(Joined(pre, new), post)
      /\ Len(pre) = at /\ Len(new) = Len(t) /\ Len(post) = Len(d) - at
      /\ \A i \in 1 .. Len(t) : new[i].by = k /\ Said(new[i]) = Said(t[i])
  BY <1>4 DEF CutOpen
<1>6. PICK a, e : a = Joined(pre, new) /\ e = Joined(a, post)
  OBVIOUS
<1>7. Inserted(d, t, at) = e
  BY <1>5, <1>6
<1>8. /\ a \in Seq(Units) /\ Len(a) = at + Len(t)
      /\ e \in Seq(Units) /\ Len(e) = Len(a) + Len(post)
      /\ \A c : Of(c, a) = Joined(Of(c, pre), Of(c, new))
      /\ \A c : Of(c, e) = Joined(Of(c, a), Of(c, post))
      /\ \A c : Of(c, d) = Joined(Of(c, pre), Of(c, post))
  <2>1. a \in Seq(Units) /\ Len(a) = at + Len(t)
    <3>1. a \in Seq(Units) /\ Len(a) = Len(pre) + Len(new)
      BY <1>6, JoinedType
    <3> QED BY <1>5, <3>1
  <2>2. e \in Seq(Units) /\ Len(e) = Len(a) + Len(post)
    BY <1>6, <2>1, JoinedType
  <2>3. \A c : Of(c, a) = Joined(Of(c, pre), Of(c, new))
    BY <1>6, OfJoined
  <2>4. \A c : Of(c, e) = Joined(Of(c, a), Of(c, post))
    BY <1>6, <2>1, OfJoined
  <2>5. \A c : Of(c, d) = Joined(Of(c, pre), Of(c, post))
    BY <1>5, OfJoined
  <2> QED BY <2>1, <2>2, <2>3, <2>4, <2>5
<1>9. Closed(e)
  <2>1. PICK n, m : n = Len(a) /\ m = Len(post)
    OBVIOUS
  <2>2. n \in Nat /\ m \in Nat /\ m > 0 /\ n = at + Len(t) /\ m = Len(d) - at /\ Len(e) = n + m
    BY <1>2, <1>3, <1>5, <1>8, <2>1
  <2>3. e[n + m] = post[m]
    <3>1. \A i \in 1 .. n + m : e[i] = IF i <= n THEN a[i] ELSE post[i - n]
      <4>1. \A i \in 1 .. Len(a) + Len(post) :
               Joined(a, post)[i] = IF i <= Len(a) THEN a[i] ELSE post[i - Len(a)]
        BY <1>8, JoinedAt
      <4> QED BY <1>6, <2>1, <4>1
    <3>2. n + m \in 1 .. n + m /\ ~(n + m <= n) /\ (n + m) - n = m
      BY <2>2
    <3> QED BY <3>1, <3>2
  <2>4. d[Len(d)] = post[m]
    <3>1. \A i \in 1 .. at + m : d[i] = IF i <= at THEN pre[i] ELSE post[i - at]
      <4>1. \A i \in 1 .. Len(pre) + Len(post) :
               Joined(pre, post)[i] = IF i <= Len(pre) THEN pre[i] ELSE post[i - Len(pre)]
        BY JoinedAt
      <4> QED BY <1>5, <2>1, <4>1
    <3>2. at + m = Len(d) /\ at + m \in 1 .. at + m /\ ~(at + m <= at) /\ (at + m) - at = m
      BY <1>3, <2>2
    <3> QED BY <3>1, <3>2
  <2>5. e[Len(e)].at = 0
    BY <2>2, <2>3, <2>4 DEF Closed
  <2> QED BY <1>8, <2>2, <2>5 DEF Closed
<1>10. ASSUME NEW c \in Calls \ {k}
      PROVE  Of(c, e) = Of(c, d)
  <2>1. Of(c, new) = <<>>
    BY <1>5, OfOthers
  <2>2. Of(c, a) = Of(c, pre)
    BY <1>8, <2>1, OfType, JoinedEmpty
  <2> QED BY <1>8, <2>2
<1>11. Of(k, new) = Whole(k, raw)
  <2>1. Of(k, new) = [p \in 1 .. Len(new) |-> Said(new[p])]
    BY <1>5, OfOwn
  <2>2. [p \in 1 .. Len(new) |-> Said(new[p])] = [i \in DOMAIN t |-> Said(t[i])]
    BY <1>2, <1>5
  <2> QED BY <1>1, <2>1, <2>2 DEF Whole
<1>12. /\ Of(k, pre) \in Seq(Sayings) /\ Of(k, post) \in Seq(Sayings)
       /\ Of(k, d) = Joined(Of(k, pre), Of(k, post))
       /\ Of(k, e) = Joined(Joined(Of(k, pre), Whole(k, raw)), Of(k, post))
  BY <1>8, <1>11, OfType
<1>13. Inserted(d, Text(k, raw), at) = e
  BY <1>1, <1>7
<1> QED BY <1>9, <1>10, <1>12, <1>13

LEMMA StyledSays ==
    ASSUME NEW d, Closed(d), NEW k, NEW base
    PROVE  Closed(Styled(d, k, base)) /\ \A c : Of(c, Styled(d, k, base)) = Of(c, d)
<1>1. PICK e : e = Styled(d, k, base)
  OBVIOUS
<1>2. d \in Seq(Units) /\ Len(d) \in Nat \ {0} /\ d[Len(d)].at = 0
  BY DEF Closed
<1>3. /\ e \in Seq(Units) /\ Len(e) = Len(d)
      /\ \A p \in 1 .. Len(d) : e[p].by = d[p].by /\ Said(e[p]) = Said(d[p])
  BY <1>1, <1>2, StyledType
<1>4. Closed(e)
  <2>1. Said(e[Len(d)]) = Said(d[Len(d)])
    BY <1>2, <1>3
  <2>2. e[Len(d)].at = d[Len(d)].at
    BY <2>1 DEF Said
  <2> QED BY <1>2, <1>3, <2>2 DEF Closed
<1>5. ASSUME NEW c
      PROVE  Of(c, e) = Of(c, d)
  BY <1>2, <1>3, OfAlike
<1> QED BY <1>1, <1>4, <1>5

\* A batch puts the whole text of its call in at one place, and leaves what others say.
LEMMA BatchSays ==
    ASSUME NEW d, Closed(d), NEW k \in Calls, index[k] \in Nat, index[k] < Len(d),
           NEW raw \in BOOLEAN, raw <=> mode[k] # "styled"
    PROVE  /\ Closed(Batch(d, k))
           /\ \A c \in Calls \ {k} : Of(c, Batch(d, k)) = Of(c, d)
           /\ \E pre, post \in Seq(Sayings) :
                 /\ Of(k, d) = Joined(pre, post)
                 /\ Of(k, Batch(d, k)) = Joined(Joined(pre, Whole(k, raw)), post)
<1>1. PICK e : e = Inserted(d, Text(k, raw), index[k])
  OBVIOUS
<1>2. /\ Closed(e) /\ \A c \in Calls \ {k} : Of(c, e) = Of(c, d)
      /\ \E pre, post \in Seq(Sayings) :
            Of(k, d) = Joined(pre, post) /\ Of(k, e) = Joined(Joined(pre, Whole(k, raw)), post)
  BY <1>1, InsertedSays
<1>3. CASE raw = FALSE
  <2>1. Batch(d, k) = Styled(e, k, index[k])
    BY <1>1, <1>3 DEF Batch
  <2>2. Closed(Batch(d, k)) /\ \A c : Of(c, Batch(d, k)) = Of(c, e)
    BY <1>2, <2>1, StyledSays
  <2> QED BY <1>2, <2>2
<1>4. CASE raw = TRUE
  <2>1. Batch(d, k) = e
    BY <1>1, <1>4 DEF Batch
  <2> QED BY <1>2, <2>1
<1> QED BY <1>3, <1>4

\* Nor does the person say anything for a call.
LEMMA PersonSays ==
    ASSUME NEW d, Closed(d), NEW u \in Units, u.by = "person"
    PROVE  /\ Closed(<<u>> \o d)
           /\ \A c \in Calls : Of(c, <<u>> \o d) = Of(c, d)
<1>1. PICK s, e : s = <<u>> /\ e = Joined(s, d)
  OBVIOUS
<1>2. s \in Seq(Units) /\ Len(s) = 1 /\ \A p \in 1 .. Len(s) : s[p] = u
  BY <1>1
<1>3. d \in Seq(Units) /\ Len(d) \in Nat \ {0} /\ d[Len(d)].at = 0
  BY DEF Closed
<1>4. e \in Seq(Units) /\ Len(e) = 1 + Len(d)
  BY <1>1, <1>2, <1>3, JoinedType
<1>5. e[1 + Len(d)] = d[Len(d)]
  <2>1. \A i \in 1 .. Len(s) + Len(d) : e[i] = IF i <= Len(s) THEN s[i] ELSE d[i - Len(s)]
    <3>1. \A i \in 1 .. Len(s) + Len(d) :
             Joined(s, d)[i] = IF i <= Len(s) THEN s[i] ELSE d[i - Len(s)]
      BY <1>2, <1>3, JoinedAt
    <3> QED BY <1>1, <3>1
  <2>2. PICK n : n = 1 + Len(d)
    OBVIOUS
  <2>3. n \in 1 .. Len(s) + Len(d) /\ ~(n <= Len(s)) /\ n - Len(s) = Len(d)
    BY <1>2, <1>3, <2>2
  <2> QED BY <2>1, <2>2, <2>3
<1>6. ASSUME NEW c \in Calls
      PROVE  Of(c, e) = Of(c, d)
  <2>1. Of(c, s) = <<>>
    BY <1>2, CallsAssumption, OfOthers
  <2>2. Of(c, e) = Joined(<<>>, Of(c, d))
    BY <1>1, <1>2, <1>3, <2>1, OfJoined
  <2>3. Of(c, d) \in Seq(Sayings)
    BY <1>3, OfType
  <2> QED BY <2>2, <2>3, ConcatEmptySeq DEF Joined
<1>7. e = <<u>> \o d
  BY <1>1 DEF Joined
<1> QED BY <1>3, <1>4, <1>5, <1>6, <1>7 DEF Closed

LEMMA PersonRemoves ==
    ASSUME NEW d, Closed(d), d[1].by = "person", d[1].at # 0
    PROVE  Closed(Tail(d)) /\ \A c \in Calls : Of(c, Tail(d)) = Of(c, d)
<1>1. PICK u, e : u = d[1] /\ e = Tail(d)
  OBVIOUS
<1>2. d \in Seq(Units) /\ Len(d) \in Nat \ {0} /\ d[Len(d)].at = 0 /\ d # <<>>
  BY EmptySeq DEF Closed
<1>3. u \in Units /\ u.by = "person" /\ Len(d) # 1
  BY <1>1, <1>2, ElementOfSeq
<1>4. /\ e \in Seq(Units) /\ Len(e) = Len(d) - 1
      /\ \A i \in 1 .. Len(e) : e[i] = d[i + 1]
  BY <1>1, <1>2, HeadTailProperties
<1>5. e[Len(e)] = d[Len(d)]
  <2>1. PICK n : n = Len(e)
    OBVIOUS
  <2>2. n \in 1 .. Len(e) /\ n + 1 = Len(d)
    BY <1>2, <1>3, <1>4, <2>1
  <2> QED BY <1>4, <2>1, <2>2
<1>6. Closed(e)
  BY <1>2, <1>3, <1>4, <1>5 DEF Closed
<1>7. <<u>> \o e = d
  <2>1. PICK s, f : s = <<u>> /\ f = Joined(s, e)
    OBVIOUS
  <2>2. s \in Seq(Units) /\ Len(s) = 1 /\ s[1] = u
    BY <1>3, <2>1
  <2>3. f \in Seq(Units) /\ Len(f) = 1 + Len(e)
    <3>1. Joined(s, e) \in Seq(Units) /\ Len(Joined(s, e)) = Len(s) + Len(e)
      BY <1>4, <2>2, JoinedType
    <3> QED BY <2>1, <2>2, <3>1
  <2>4. \A i \in 1 .. Len(s) + Len(e) : f[i] = IF i <= Len(s) THEN s[i] ELSE e[i - Len(s)]
    <3>1. \A i \in 1 .. Len(s) + Len(e) :
             Joined(s, e)[i] = IF i <= Len(s) THEN s[i] ELSE e[i - Len(s)]
      BY <1>4, <2>2, JoinedAt
    <3> QED BY <2>1, <3>1
  <2>5. Len(f) = Len(d)
    BY <1>2, <1>4, <2>3
  <2>6. ASSUME NEW i \in 1 .. Len(f)
        PROVE  f[i] = d[i]
    <3>1. CASE i = 1
      BY <1>1, <2>2, <2>3, <2>4, <3>1
    <3>2. CASE i # 1
      <4>1. i \in 1 .. Len(s) + Len(e) /\ ~(i <= Len(s)) /\ i - Len(s) = i - 1
        BY <1>2, <1>4, <2>2, <2>3, <3>2
      <4>2. i - 1 \in 1 .. Len(e) /\ (i - 1) + 1 = i
        BY <1>2, <1>4, <2>3, <3>2
      <4> QED BY <1>4, <2>4, <4>1, <4>2
    <3> QED BY <3>1, <3>2
  <2>7. f = d
    BY <1>2, <2>3, <2>5, <2>6, SeqEqual
  <2> QED BY <2>1, <2>7 DEF Joined
<1>8. /\ Closed(<<u>> \o e)
      /\ \A c \in Calls : Of(c, <<u>> \o e) = Of(c, e)
  BY <1>3, <1>6, PersonSays
<1> QED BY <1>1, <1>6, <1>7, <1>8

-------------------------------------------------------------------------------
\* The steps

Kinds ==
    /\ Closed(doc)
    /\ mode \in [Calls -> {"styled", "plain"}]
    /\ pc \in [Calls -> {"read", "write"} \cup Told]
    /\ index \in [Calls -> Nat] /\ tries \in [Calls -> Nat]
    /\ lost \in [Calls -> BOOLEAN] /\ early \in BOOLEAN

Appended(c) == pc[c] \in {"appended", "appended plain"}

\* What a step may be to call c: nothing c says or reports changes, but for a call that
\* is given up or tried anew, ...
Idle(c) ==
    /\ Of(c, doc') = Of(c, doc)
    /\ pc'[c] = pc[c] \/ (~Appended(c) /\ ~Appended(c)')
    /\ lost'[c] = lost[c]

\* ... or the text of c goes in, ...
PutIn(c) ==
    \E raw \in BOOLEAN : \E pre, post \in Seq(Sayings) :
       /\ Of(c, doc) = Joined(pre, post)
       /\ Of(c, doc') = Joined(Joined(pre, Whole(c, raw)), post)
       /\ ~Appended(c) /\ pc'[c] = IF raw THEN "appended plain" ELSE "appended"
       /\ lost'[c] = lost[c]

\* ... or the answer of a batch of c is lost.
Unheard(c) == ~Appended(c) /\ ~Appended(c)' /\ lost'[c]

LEMMA InitKinds == Init => Kinds /\ \A c \in Calls : Of(c, doc) = <<>>
<1> SUFFICES ASSUME Init
             PROVE  Kinds /\ \A c \in Calls : Of(c, doc) = <<>>
  OBVIOUS
<1>1. Closing \in Units /\ Closing.at = 0 /\ Closing.by = "person"
  BY DEF Closing, Unit, Units
<1>2. PICK s : s = <<Closing>>
  OBVIOUS
<1>3. s \in Seq(Units) /\ Len(s) = 1 /\ s[1] = Closing
  BY <1>1, <1>2
<1>4. Closed(s) /\ \A p \in 1 .. Len(s) : s[p].by = "person"
  BY <1>1, <1>3 DEF Closed
<1>5. \A c \in Calls : Of(c, s) = <<>>
  BY <1>3, <1>4, CallsAssumption, OfOthers
<1>6. doc = s
  BY <1>2 DEF Init
<1> QED BY <1>4, <1>5, <1>6 DEF Init, Kinds

\* What a batch that is done leaves, whatever becomes of its answer.
LEMMA DoneSays ==
    ASSUME Kinds, NEW k \in Calls, Fits(k), Done(k)
    PROVE  /\ Closed(doc)' /\ early' \in BOOLEAN
           /\ \A c \in Calls \ {k} : Of(c, doc') = Of(c, doc)
           /\ \E raw \in BOOLEAN : \E pre, post \in Seq(Sayings) :
                 /\ raw <=> mode[k] # "styled"
                 /\ Of(k, doc) = Joined(pre, post)
                 /\ Of(k, doc') = Joined(Joined(pre, Whole(k, raw)), post)
<1>1. PICK raw \in BOOLEAN : raw <=> mode[k] # "styled"
  <2>1. CASE mode[k] = "styled"
    BY <2>1
  <2>2. CASE mode[k] # "styled"
    BY <2>2
  <2> QED BY <2>1, <2>2
<1>2. Closed(doc) /\ index[k] \in Nat /\ index[k] < Len(doc)
  BY DEF Kinds, Fits
<1>3. doc' = Batch(doc, k) /\ early' \in BOOLEAN
  BY DEF Done
<1>4. /\ Closed(Batch(doc, k))
      /\ \A c \in Calls \ {k} : Of(c, Batch(doc, k)) = Of(c, doc)
      /\ \E pre, post \in Seq(Sayings) :
            /\ Of(k, doc) = Joined(pre, post)
            /\ Of(k, Batch(doc, k)) = Joined(Joined(pre, Whole(k, raw)), post)
  BY <1>1, <1>2, BatchSays
<1>5. Closed(doc)' <=> Closed(doc')
  BY DEF Closed
<1> QED BY <1>1, <1>3, <1>4, <1>5

\* How a call that is not told yet may go on.
LEMMA GoesOn ==
    ASSUME Kinds, NEW k \in Calls, ~Appended(k),
           Fails(k) \/ (\E how : GivesUp(k, how)) \/ Again(k) \/ UNCHANGED <<mode, pc>>
    PROVE  /\ mode' \in [Calls -> {"styled", "plain"}]
           /\ pc' \in [Calls -> {"read", "write"} \cup Told]
           /\ \A c \in Calls \ {k} : pc'[c] = pc[c]
           /\ ~Appended(k)'
<1>1. CASE Fails(k)
  BY <1>1 DEF Fails, Kinds, Appended, Told
<1>2. ASSUME NEW how, GivesUp(k, how)
      PROVE  /\ mode' \in [Calls -> {"styled", "plain"}]
             /\ pc' \in [Calls -> {"read", "write"} \cup Told]
             /\ \A c \in Calls \ {k} : pc'[c] = pc[c]
             /\ ~Appended(k)'
  <2>1. CASE how = "http"
    BY <1>1, <1>2, <2>1 DEF GivesUp
  <2>2. CASE how # "http"
    BY <1>2, <2>2 DEF GivesUp, Kinds, Appended, Told
  <2> QED BY <2>1, <2>2
<1>3. CASE UNCHANGED <<mode, pc>>
  BY <1>3 DEF Kinds, Appended
<1>4. CASE Again(k)
  BY <1>2, <1>3, <1>4 DEF Again
<1> QED BY <1>1, <1>2, <1>3, <1>4

LEMMA AgainTries ==
    ASSUME Kinds, NEW k \in Calls, Again(k)
    PROVE  tries' \in [Calls -> Nat]
BY DEF Again, Kinds

LEMMA StepKinds ==
    ASSUME Kinds, [Next]_vars
    PROVE  Kinds' /\ \A c \in Calls : Idle(c) \/ PutIn(c) \/ Unheard(c)
<1>0. Closed(doc') <=> Closed(doc)'
  BY DEF Closed
<1>1. ASSUME NEW k \in Calls, ReadEnd(k)
      PROVE  Kinds' /\ \A c \in Calls : Idle(c)
  <2>1. EndIndex \in Nat
    BY DEF EndIndex, Kinds, Closed
  <2>2. UNCHANGED <<doc, mode, lost, early>>
    BY <1>1 DEF ReadEnd
  <2>3. /\ index' \in [Calls -> Nat] /\ tries' \in [Calls -> Nat]
        /\ pc' \in [Calls -> {"read", "write"} \cup Told]
    BY <1>1, <2>1 DEF ReadEnd, Kinds
  <2>4. \A c \in Calls : pc'[c] = pc[c] \/ (~Appended(c) /\ ~Appended(c)')
    BY <1>1 DEF ReadEnd, Kinds, Appended
  <2> QED BY <2>2, <2>3, <2>4 DEF Kinds, Idle, Closed
<1>2. ASSUME NEW k \in Calls, ReadFails(k)
      PROVE  Kinds' /\ \A c \in Calls : Idle(c)
  <2>1. UNCHANGED <<doc, index, tries, lost, early>> /\ ~Appended(k)
    BY <1>2 DEF ReadFails, Appended
  <2>2. /\ mode' \in [Calls -> {"styled", "plain"}]
        /\ pc' \in [Calls -> {"read", "write"} \cup Told]
        /\ \A c \in Calls \ {k} : pc'[c] = pc[c]
        /\ ~Appended(k)'
    BY <1>2, <2>1, GoesOn DEF ReadFails
  <2> QED BY <2>1, <2>2 DEF Kinds, Idle, Closed
<1>3. ASSUME NEW k \in Calls, AppendAnswered(k)
      PROVE  Kinds' /\ \A c \in Calls : Idle(c) \/ PutIn(c)
  <2>1. Fits(k) /\ Done(k) /\ ~Appended(k) /\ UNCHANGED <<mode, index, tries, lost>>
    BY <1>3 DEF AppendAnswered, Appended
  <2>2. /\ Closed(doc)' /\ early' \in BOOLEAN
        /\ \A c \in Calls \ {k} : Of(c, doc') = Of(c, doc)
    BY <2>1, DoneSays
  <2>3. PICK raw \in BOOLEAN : \E pre, post \in Seq(Sayings) :
           /\ raw <=> mode[k] # "styled"
           /\ Of(k, doc) = Joined(pre, post)
           /\ Of(k, doc') = Joined(Joined(pre, Whole(k, raw)), post)
    BY <2>1, DoneSays
  <2>4. /\ pc' \in [Calls -> {"read", "write"} \cup Told]
        /\ \A c \in Calls \ {k} : pc'[c] = pc[c]
        /\ pc'[k] = IF mode[k] = "styled" THEN "appended" ELSE "appended plain"
    BY <1>3 DEF AppendAnswered, Kinds, Told
  <2>5. pc'[k] = IF raw THEN "appended plain" ELSE "appended"
    BY <2>3, <2>4
  <2>6. PutIn(k)
    BY <2>1, <2>3, <2>5 DEF PutIn
  <2>7. \A c \in Calls \ {k} : Idle(c)
    BY <2>1, <2>2, <2>4 DEF Idle
  <2>8. Kinds'
    BY <2>1, <2>2, <2>4 DEF Kinds
  <2> QED BY <2>6, <2>7, <2>8
<1>4. ASSUME NEW k \in Calls, AppendUnanswered(k)
      PROVE  Kinds' /\ \A c \in Calls : Idle(c) \/ Unheard(c)
  <2>1. /\ Fits(k) /\ Done(k) /\ Again(k) /\ ~Appended(k) /\ UNCHANGED index
        /\ lost' = [lost EXCEPT ![k] = TRUE]
    BY <1>4 DEF AppendUnanswered, Appended
  <2>2. /\ Closed(doc)' /\ early' \in BOOLEAN
        /\ \A c \in Calls \ {k} : Of(c, doc') = Of(c, doc)
    BY <2>1, DoneSays
  <2>3. /\ mode' \in [Calls -> {"styled", "plain"}]
        /\ pc' \in [Calls -> {"read", "write"} \cup Told]
        /\ \A c \in Calls \ {k} : pc'[c] = pc[c]
        /\ ~Appended(k)'
    BY <2>1, GoesOn
  <2>4. tries' \in [Calls -> Nat]
    BY <2>1, AgainTries
  <2>5. lost' \in [Calls -> BOOLEAN] /\ lost'[k] /\ \A c \in Calls \ {k} : lost'[c] = lost[c]
    BY <2>1 DEF Kinds
  <2>6. Kinds'
    BY <2>1, <2>2, <2>3, <2>4, <2>5 DEF Kinds
  <2>7. Unheard(k)
    BY <2>1, <2>3, <2>5 DEF Unheard
  <2>8. \A c \in Calls \ {k} : Idle(c)
    BY <2>2, <2>3, <2>5 DEF Idle
  <2> QED BY <2>6, <2>7, <2>8
<1>5. ASSUME NEW k \in Calls, AppendFails(k) \/ AppendRefused(k)
      PROVE  Kinds' /\ \A c \in Calls : Idle(c)
  <2>1. /\ UNCHANGED <<doc, index, lost, early>> /\ ~Appended(k)
        /\ Again(k) \/ (Fails(k) /\ UNCHANGED tries)
    BY <1>5 DEF AppendFails, AppendRefused, RefusedDoc, Appended
  <2>2. /\ mode' \in [Calls -> {"styled", "plain"}]
        /\ pc' \in [Calls -> {"read", "write"} \cup Told]
        /\ \A c \in Calls \ {k} : pc'[c] = pc[c]
        /\ ~Appended(k)'
    BY <2>1, GoesOn
  <2>3. tries' \in [Calls -> Nat]
    BY <2>1, AgainTries DEF Kinds
  <2> QED BY <2>1, <2>2, <2>3 DEF Kinds, Idle, Closed
<1>6. ASSUME Person
      PROVE  Kinds' /\ \A c \in Calls : Idle(c)
  <2>1. UNCHANGED <<mode, pc, index, tries, lost, early>>
    BY <1>6 DEF Person
  <2>2. Closed(doc') /\ \A c \in Calls : Of(c, doc') = Of(c, doc)
    <3>1. CASE doc' = <<Typed>> \o doc
      <4>1. Typed \in Units /\ Typed.by = "person"
        BY DEF Typed, Unit, Units
      <4> QED BY <3>1, <4>1, PersonSays DEF Kinds
    <3>2. CASE doc[1].by = "person" /\ doc[1].at # 0 /\ doc' = Tail(doc)
      BY <3>2, PersonRemoves DEF Kinds
    <3> QED BY <1>6, <3>1, <3>2 DEF Person
  <2> QED BY <1>0, <2>1, <2>2 DEF Kinds, Idle
<1>7. ASSUME UNCHANGED vars
      PROVE  Kinds' /\ \A c \in Calls : Idle(c)
  BY <1>7 DEF vars, Kinds, Idle, Closed
<1> QED BY <1>1, <1>2, <1>3, <1>4, <1>5, <1>6, <1>7 DEF Next

-------------------------------------------------------------------------------
\* The theorems

LEMMA AlwaysKinds == Spec => []Kinds
<1>1. Kinds /\ [Next]_vars => Kinds'
  BY StepKinds
<1> QED BY <1>1, InitKinds, PTL DEF Spec

\* A call whose text is not in says nothing, unless an answer of it was lost.
Once(c) ==
    ~lost[c] => /\ ~Appended(c) => Of(c, doc) = <<>>
                /\ Len(Of(c, doc)) <= Len(Text(c, FALSE))

\* The whole text of an appended call stands somewhere in what it says.
There(c) ==
    Appended(c) =>
       \E raw \in BOOLEAN : \E pre, post \in Seq(Sayings) :
          /\ raw <=> pc[c] = "appended plain"
          /\ Of(c, doc) = Joined(Joined(pre, Whole(c, raw)), post)

\* No concatenation is empty but that of nothing.
LEMMA JoinedNothing ==
    ASSUME NEW U, NEW a \in Seq(U), NEW b \in Seq(U), Joined(a, b) = <<>>
    PROVE  a = <<>> /\ b = <<>>
BY ConcatEqualIffEmpty DEF Joined

LEMMA PutInOnce ==
    ASSUME NEW c \in Calls, Once(c), PutIn(c)
    PROVE  Once(c)'
<1>1. PICK raw \in BOOLEAN, pre \in Seq(Sayings), post \in Seq(Sayings) :
         /\ Of(c, doc) = Joined(pre, post)
         /\ Of(c, doc') = Joined(Joined(pre, Whole(c, raw)), post)
         /\ ~Appended(c) /\ pc'[c] = IF raw THEN "appended plain" ELSE "appended"
         /\ lost'[c] = lost[c]
  BY DEF PutIn
<1> SUFFICES ASSUME ~lost[c]
             PROVE  Appended(c)' /\ Len(Of(c, doc')) <= Len(Text(c, FALSE))
  BY <1>1 DEF Once
<1>2. Appended(c)'
  BY <1>1 DEF Appended
<1>3. pre = <<>> /\ post = <<>>
  BY <1>1, JoinedNothing DEF Once
<1>4. PICK w : w = Whole(c, raw)
  OBVIOUS
<1>5. w \in Seq(Sayings) /\ Len(w) = Len(Text(c, raw))
  BY <1>4, WholeType
<1>6. Of(c, doc') = w
  <2>1. Joined(<<>>, w) = w /\ Joined(w, <<>>) = w
    BY <1>5, ConcatEmptySeq DEF Joined
  <2> QED BY <1>1, <1>3, <1>4, <2>1
<1>7. Len(Text(c, raw)) <= Len(Text(c, FALSE))
  <2>1. CASE raw = TRUE
    BY <2>1, RawIsNoLonger
  <2>2. CASE raw = FALSE
    <3>1. PICK n : n = Len(Text(c, FALSE))
      OBVIOUS
    <3>2. n \in Nat
      BY <3>1, TextType, LenProperties
    <3>3. Len(Text(c, raw)) = n
      BY <2>2, <3>1
    <3> QED BY <3>1, <3>2, <3>3
  <2> QED BY <2>1, <2>2
<1> QED BY <1>2, <1>5, <1>6, <1>7

LEMMA AlwaysOnce == Spec => [](\A c \in Calls : Once(c))
<1>1. Init => \A c \in Calls : Once(c)
  <2> SUFFICES ASSUME Init, NEW c \in Calls
               PROVE  Once(c)
    OBVIOUS
  <2>1. Of(c, doc) = <<>>
    BY InitKinds
  <2>2. PICK n : n = Len(Text(c, FALSE))
    OBVIOUS
  <2>3. n \in Nat
    BY <2>2, TextType, LenProperties
  <2>4. Len(Of(c, doc)) = 0
    BY <2>1
  <2>5. Len(Of(c, doc)) <= n
    BY <2>3, <2>4
  <2> QED BY <2>1, <2>2, <2>5 DEF Once
<1>2. Kinds /\ (\A c \in Calls : Once(c)) /\ [Next]_vars => (\A c \in Calls : Once(c))'
  <2> SUFFICES ASSUME Kinds, \A c \in Calls : Once(c), [Next]_vars, NEW c \in Calls
               PROVE  Once(c)'
    OBVIOUS
  <2>1. Once(c) /\ (Idle(c) \/ PutIn(c) \/ Unheard(c))
    BY StepKinds
  <2>2. CASE Idle(c)
    BY <2>1, <2>2 DEF Idle, Once, Appended
  <2>3. CASE PutIn(c)
    BY <2>1, <2>3, PutInOnce
  <2>4. CASE Unheard(c)
    BY <2>4 DEF Unheard, Once
  <2> QED BY <2>1, <2>2, <2>3, <2>4
<1> QED BY <1>1, <1>2, AlwaysKinds, PTL DEF Spec

LEMMA AlwaysThere == Spec => [](\A c \in Calls : There(c))
<1>1. Init => \A c \in Calls : There(c)
  BY DEF Init, There, Appended
<1>2. Kinds /\ (\A c \in Calls : There(c)) /\ [Next]_vars => (\A c \in Calls : There(c))'
  <2> SUFFICES ASSUME Kinds, \A c \in Calls : There(c), [Next]_vars, NEW c \in Calls
               PROVE  There(c)'
    OBVIOUS
  <2>1. There(c) /\ (Idle(c) \/ PutIn(c) \/ Unheard(c))
    BY StepKinds
  <2>2. CASE Idle(c)
    BY <2>1, <2>2 DEF Idle, There, Appended
  <2>3. CASE PutIn(c)
    <3>1. PICK raw \in BOOLEAN, pre \in Seq(Sayings), post \in Seq(Sayings) :
             /\ Of(c, doc') = Joined(Joined(pre, Whole(c, raw)), post)
             /\ pc'[c] = IF raw THEN "appended plain" ELSE "appended"
      BY <2>3 DEF PutIn
    <3>2. raw <=> pc'[c] = "appended plain"
      BY <3>1
    <3> QED BY <3>1, <3>2 DEF There
  <2>4. CASE Unheard(c)
    BY <2>4 DEF Unheard, There
  <2> QED BY <2>1, <2>2, <2>3, <2>4
<1> QED BY <1>1, <1>2, AlwaysKinds, PTL DEF Spec

\* What stands somewhere is the start of what follows a prefix.
LEMMA StandsThere ==
    ASSUME NEW U, NEW pre \in Seq(U), NEW w \in Seq(U), NEW post \in Seq(U), NEW said,
           said = Joined(Joined(pre, w), post)
    PROVE  \E n \in 0 .. Len(said) : IsPrefix(SubSeq(said, 1, n) \o w, said)
<1>1. PICK a, n, m, k : a = Joined(pre, w) /\ n = Len(pre) /\ m = Len(w) /\ k = Len(post)
  OBVIOUS
<1>2. n \in Nat /\ m \in Nat /\ k \in Nat
  BY <1>1, LenProperties
<1>3. a \in Seq(U) /\ Len(a) = n + m
  BY <1>1, JoinedType
<1>4. said \in Seq(U) /\ Len(said) = (n + m) + k
  <2>1. said = Joined(a, post)
    BY <1>1
  <2>2. said \in Seq(U) /\ Len(said) = Len(a) + Len(post)
    BY <1>3, <2>1, JoinedType
  <2> QED BY <1>1, <1>3, <2>2
<1>5. \A i \in 1 .. n + m : a[i] = IF i <= n THEN pre[i] ELSE w[i - n]
  BY <1>1, JoinedAt
<1>6. \A i \in 1 .. n + m : said[i] = a[i]
  <2>1. \A i \in 1 .. Len(a) + Len(post) :
           Joined(a, post)[i] = IF i <= Len(a) THEN a[i] ELSE post[i - Len(a)]
    BY <1>3, JoinedAt
  <2>2. said = Joined(a, post)
    BY <1>1
  <2>3. \A i \in 1 .. n + m : i \in 1 .. Len(a) + Len(post) /\ i <= Len(a)
    BY <1>1, <1>2, <1>3
  <2> QED BY <2>1, <2>2, <2>3
<1>7. SubSeq(said, 1, n) = pre
  <2>1. PICK s : s = SubSeq(said, 1, n)
    OBVIOUS
  <2>2. \A i \in 1 .. n : said[i] = pre[i] /\ said[i] \in U
    <3>1. \A i \in 1 .. n : i \in 1 .. n + m /\ i <= n
      BY <1>2
    <3>2. \A i \in 1 .. n : pre[i] \in U
      BY <1>1, ElementOfSeq
    <3> QED BY <1>5, <1>6, <3>1, <3>2
  <2>3. s \in Seq(U) /\ Len(s) = n /\ \A i \in 1 .. n : s[i] = said[i]
    <3>1. /\ s \in Seq(U) /\ Len(s) = IF 1 <= n THEN n - 1 + 1 ELSE 0
          /\ \A i \in 1 .. n - 1 + 1 : s[i] = said[1 + i - 1]
      BY <1>2, <2>1, <2>2, SubSeqProperties
    <3>2. n - 1 + 1 = n /\ \A i \in 1 .. n : 1 + i - 1 = i
      BY <1>2
    <3> QED BY <1>2, <3>1, <3>2
  <2>4. \A i \in 1 .. Len(s) : s[i] = pre[i]
    BY <2>2, <2>3
  <2>5. s = pre
    BY <1>1, <2>3, <2>4, SeqEqual
  <2> QED BY <2>1, <2>5
<1>8. IsPrefix(a, said)
  <2>1. SubSeq(a, 1, n + m) = SubSeq(said, 1, n + m)
    <3>1. PICK x, y, q : x = SubSeq(a, 1, q) /\ y = SubSeq(said, 1, q) /\ q = n + m
      OBVIOUS
    <3>2. q \in Nat /\ \A i \in 1 .. q : said[i] = a[i] /\ a[i] \in U
      BY <1>2, <1>3, <1>6, <3>1, ElementOfSeq
    <3>3. q - 1 + 1 = q /\ \A i \in 1 .. q : 1 + i - 1 = i
      BY <3>2
    <3>4. x \in Seq(U) /\ Len(x) = q /\ \A i \in 1 .. q : x[i] = a[i]
      <4>1. /\ x \in Seq(U) /\ Len(x) = IF 1 <= q THEN q - 1 + 1 ELSE 0
            /\ \A i \in 1 .. q - 1 + 1 : x[i] = a[1 + i - 1]
        BY <3>1, <3>2, SubSeqProperties
      <4> QED BY <3>2, <3>3, <4>1
    <3>5. y \in Seq(U) /\ Len(y) = q /\ \A i \in 1 .. q : y[i] = said[i]
      <4>1. \A i \in 1 .. q : said[i] \in U
        BY <3>2
      <4>2. /\ y \in Seq(U) /\ Len(y) = IF 1 <= q THEN q - 1 + 1 ELSE 0
            /\ \A i \in 1 .. q - 1 + 1 : y[i] = said[1 + i - 1]
        BY <3>1, <3>2, <4>1, SubSeqProperties
      <4> QED BY <3>2, <3>3, <4>2
    <3>6. x = y
      <4>1. \A i \in 1 .. Len(x) : x[i] = y[i]
        BY <3>2, <3>4, <3>5
      <4> QED BY <3>4, <3>5, <4>1, SeqEqual
    <3> QED BY <3>1, <3>6
  <2>2. Len(a) <= Len(said)
    BY <1>2, <1>3, <1>4
  <2> QED BY <1>3, <2>1, <2>2 DEF IsPrefix
<1>9. n \in 0 .. Len(said)
  BY <1>2, <1>4
<1>10. SubSeq(said, 1, n) \o w = a
  BY <1>1, <1>7 DEF Joined
<1> QED BY <1>8, <1>9, <1>10

\* A call that reports its text appended has put the whole of it in the document, in
\* order and in the form it reports, whatever other calls, repeats and the person did
\* (docs.py:210-261).
THEOREM ReportedTextIsThere == Spec => []ReportedIsThere
<1>1. (\A c \in Calls : There(c)) => ReportedIsThere
  <2> SUFFICES ASSUME \A c \in Calls : There(c), NEW c \in Calls,
                      pc[c] \in {"appended", "appended plain"},
                      NEW whole, whole = Whole(c, pc[c] = "appended plain"),
                      NEW said, said = Of(c, doc)
               PROVE  \E n \in 0 .. Len(said) : IsPrefix(SubSeq(said, 1, n) \o whole, said)
    BY DEF ReportedIsThere
  <2>1. PICK raw \in BOOLEAN, pre \in Seq(Sayings), post \in Seq(Sayings) :
           /\ raw <=> pc[c] = "appended plain"
           /\ said = Joined(Joined(pre, Whole(c, raw)), post)
    BY DEF There, Appended
  <2>2. raw = (pc[c] = "appended plain")
    BY <2>1
  <2>3. whole = Whole(c, raw)
    BY <2>2
  <2>4. whole \in Seq(Sayings)
    BY <2>3, WholeType
  <2>5. said = Joined(Joined(pre, whole), post)
    BY <2>1, <2>3
  <2> QED BY <2>4, <2>5, StandsThere
<1> QED BY <1>1, AlwaysThere, PTL

\* Text is there twice only when an answer was lost: until then the retry of a failed
\* batch and the last resort after a refused one repeat nothing (docs.py:217-240).
THEOREM TextIsNotRepeated == Spec => []TwiceOnlyWhenLost
<1>1. (\A c \in Calls : Once(c)) => TwiceOnlyWhenLost
  BY DEF Once, TwiceOnlyWhenLost
<1> QED BY <1>1, AlwaysOnce, PTL

-------------------------------------------------------------------------------
\* Where the units of a text lie

LastLine(c) == Len(Texts[c])

LEMMA TextLines ==
    ASSUME NEW c \in Calls
    PROVE  /\ LastLine(c) \in Nat \ {0} /\ DOMAIN Texts[c] = 1 .. LastLine(c)
           /\ \A l \in 1 .. LastLine(c) :
                 /\ Width(c, l) \in Nat /\ Texts[c][l].bold \in 0 .. Width(c, l)
                 /\ Texts[c][l].heading \in BOOLEAN
<1>1. Texts[c] \in Seq(Lines) /\ Texts[c] # <<>>
  BY TextsAssumption
<1>2. LastLine(c) \in Nat \ {0} /\ DOMAIN Texts[c] = 1 .. LastLine(c)
  BY <1>1, EmptySeq, LenProperties DEF LastLine
<1>3. ASSUME NEW l \in 1 .. LastLine(c)
      PROVE  /\ Width(c, l) \in Nat /\ Texts[c][l].bold \in 0 .. Width(c, l)
             /\ Texts[c][l].heading \in BOOLEAN
  <2>1. PICK x, w : x = Texts[c][l] /\ w = x.widths
    OBVIOUS
  <2>2. x \in Lines
    BY <1>1, <2>1, ElementOfSeq DEF LastLine
  <2>3. w \in Seq({1, 2}) /\ x.bold \in Nat /\ x.heading \in BOOLEAN /\ x.bold <= Len(w)
    BY <2>1, <2>2 DEF Lines
  <2>4. Len(w) \in Nat
    BY <2>3, LenProperties
  <2>5. Width(c, l) = Len(w)
    BY <2>1 DEF Width
  <2> QED BY <2>1, <2>3, <2>4, <2>5
<1> QED BY <1>2, <1>3

\* f counts up to the start of each of the first n lines.
Starts(f, c, n) ==
    f = [k \in 1 .. n |-> IF k = 1 THEN 0 ELSE f[k - 1] + Width(c, k - 1) + 1]

LEMMA LineStarts ==
    ASSUME NEW c \in Calls
    PROVE  \E f : Starts(f, c, LastLine(c)) /\ \A l \in 1 .. LastLine(c) : LineStart(c, l) = f[l]
<1> DEFINE S == {n \in Nat : \E f : Starts(f, c, n)}
<1>1. 0 \in S
  <2>1. PICK f : f = [k \in 1 .. 0 |-> 0]
    OBVIOUS
  <2>2. Starts(f, c, 0)
    BY <2>1 DEF Starts
  <2> QED BY <2>2
<1>2. ASSUME NEW n \in Nat, n \in S
      PROVE  n + 1 \in S
  <2>1. PICK f : Starts(f, c, n)
    BY <1>2
  <2>2. PICK last : last = IF n = 0 THEN 0 ELSE f[n] + Width(c, n) + 1
    OBVIOUS
  <2>3. PICK g : g = [k \in 1 .. n + 1 |-> IF k = n + 1 THEN last ELSE f[k]]
    OBVIOUS
  <2>4. ASSUME NEW k \in 1 .. n + 1
        PROVE  g[k] = IF k = 1 THEN 0 ELSE g[k - 1] + Width(c, k - 1) + 1
    <3>1. CASE k = n + 1
      <4>1. CASE n = 0
        BY <2>2, <2>3, <3>1, <4>1
      <4>2. CASE n # 0
        <5>1. k - 1 = n /\ k # 1 /\ g[k] = last /\ g[n] = f[n]
          BY <1>2, <2>3, <3>1, <4>2
        <5> QED BY <2>2, <4>2, <5>1
      <4> QED BY <4>1, <4>2
    <3>2. CASE k \in 1 .. n
      <4>1. f[k] = IF k = 1 THEN 0 ELSE f[k - 1] + Width(c, k - 1) + 1
        BY <2>1, <3>2 DEF Starts
      <4>2. g[k] = f[k] /\ (k # 1 => g[k - 1] = f[k - 1])
        BY <1>2, <2>3, <3>2
      <4> QED BY <4>1, <4>2
    <3> QED BY <1>2, <3>1, <3>2
  <2>5. Starts(g, c, n + 1)
    BY <2>3, <2>4 DEF Starts
  <2> QED BY <1>2, <2>5
<1>3. Nat \subseteq S
  <2> HIDE DEF S
  <2> QED BY <1>1, <1>2, Induction
<1>4. LastLine(c) \in Nat /\ DOMAIN Texts[c] = 1 .. LastLine(c)
  BY TextLines
<1>5. \E f : Starts(f, c, LastLine(c))
  BY <1>3, <1>4
<1>6. \A l \in 1 .. LastLine(c) : LineStart(c, l) = (CHOOSE f : Starts(f, c, LastLine(c)))[l]
  BY <1>4 DEF LineStart, Starts
<1> QED BY <1>5, <1>6

LEMMA LineStartNext ==
    ASSUME NEW c \in Calls
    PROVE  /\ LineStart(c, 1) = 0
           /\ \A l \in 1 .. LastLine(c) : LineStart(c, l) \in Nat
           /\ \A l \in 1 .. LastLine(c) - 1 : LineStart(c, l + 1) = LineStart(c, l) + Width(c, l) + 1
<1>1. PICK f : Starts(f, c, LastLine(c)) /\ \A l \in 1 .. LastLine(c) : LineStart(c, l) = f[l]
  BY LineStarts
<1>2. LastLine(c) \in Nat \ {0} /\ \A l \in 1 .. LastLine(c) : Width(c, l) \in Nat
  BY TextLines
<1>3. \A k \in 1 .. LastLine(c) : f[k] = IF k = 1 THEN 0 ELSE f[k - 1] + Width(c, k - 1) + 1
  BY <1>1 DEF Starts
<1>4. f[1] = 0
  BY <1>2, <1>3
<1>5. ASSUME NEW l \in 1 .. LastLine(c) - 1
      PROVE  f[l + 1] = f[l] + Width(c, l) + 1
  <2>1. l + 1 \in 1 .. LastLine(c) /\ l + 1 # 1 /\ (l + 1) - 1 = l
    BY <1>2
  <2> QED BY <1>3, <2>1
<1> DEFINE S == {i \in Nat : i + 1 <= LastLine(c) => f[i + 1] \in Nat}
<1>6. 0 \in S
  BY <1>4
<1>7. ASSUME NEW i \in Nat, i \in S
      PROVE  i + 1 \in S
  <2> SUFFICES ASSUME (i + 1) + 1 <= LastLine(c)
               PROVE  f[(i + 1) + 1] \in Nat
    BY <1>7
  <2>1. i + 1 \in 1 .. LastLine(c) - 1 /\ i + 1 \in 1 .. LastLine(c) /\ f[i + 1] \in Nat
    BY <1>2, <1>7
  <2>2. f[(i + 1) + 1] = f[i + 1] + Width(c, i + 1) + 1
    BY <1>5, <2>1
  <2> QED BY <1>2, <2>1, <2>2
<1>8. Nat \subseteq S
  <2> HIDE DEF S
  <2> QED BY <1>6, <1>7, Induction
<1>9. ASSUME NEW l \in 1 .. LastLine(c)
      PROVE  f[l] \in Nat
  <2>1. l - 1 \in Nat /\ (l - 1) + 1 = l
    OBVIOUS
  <2>2. l - 1 \in S
    BY <1>8, <2>1
  <2> QED BY <1>2, <2>1, <2>2
<1>10. /\ 1 \in 1 .. LastLine(c)
       /\ \A l \in 1 .. LastLine(c) - 1 : l \in 1 .. LastLine(c) /\ l + 1 \in 1 .. LastLine(c)
  BY <1>2
<1> QED BY <1>1, <1>4, <1>5, <1>9, <1>10

\* One past the newline of line l.
LineEnd(c, l) == LineStart(c, l) + Width(c, l) + 1

LEMMA LinesApart ==
    ASSUME NEW c \in Calls, NEW l \in 1 .. LastLine(c), NEW m \in 1 .. LastLine(c), l < m
    PROVE  LineEnd(c, l) <= LineStart(c, m)
<1>1. /\ LastLine(c) \in Nat
      /\ \A k \in 1 .. LastLine(c) : Width(c, k) \in Nat /\ LineStart(c, k) \in Nat
      /\ \A k \in 1 .. LastLine(c) - 1 : LineStart(c, k + 1) = LineEnd(c, k)
  BY TextLines, LineStartNext DEF LineEnd
<1>2. \A k \in 1 .. LastLine(c) : LineEnd(c, k) \in Nat /\ LineStart(c, k) <= LineEnd(c, k)
  BY <1>1 DEF LineEnd
<1> DEFINE S == {i \in Nat : (l + 1) + i <= LastLine(c) => LineEnd(c, l) <= LineStart(c, (l + 1) + i)}
<1>3. 0 \in S
  <2> SUFFICES ASSUME l + 1 <= LastLine(c)
               PROVE  LineEnd(c, l) <= LineStart(c, l + 1)
    BY <1>1
  <2>1. l \in 1 .. LastLine(c) - 1
    BY <1>1
  <2> QED BY <1>1, <1>2, <2>1
<1>4. ASSUME NEW i \in Nat, i \in S
      PROVE  i + 1 \in S
  <2>1. PICK k : k = (l + 1) + i
    OBVIOUS
  <2>2. (l + 1) + (i + 1) = k + 1 /\ k \in Nat
    BY <2>1
  <2> SUFFICES ASSUME k + 1 <= LastLine(c)
               PROVE  LineEnd(c, l) <= LineStart(c, k + 1)
    BY <1>4, <2>2
  <2>3. k \in 1 .. LastLine(c) - 1 /\ k \in 1 .. LastLine(c)
    BY <1>1, <1>4, <2>1, <2>2
  <2>4. LineEnd(c, l) <= LineStart(c, k)
    BY <1>4, <2>1, <2>3
  <2>5. LineStart(c, k + 1) = LineEnd(c, k) /\ LineStart(c, k) <= LineEnd(c, k)
    BY <1>1, <1>2, <2>3
  <2>6. /\ LineEnd(c, l) \in Nat /\ LineStart(c, k) \in Nat /\ LineEnd(c, k) \in Nat
    BY <1>1, <1>2, <2>3
  <2> QED BY <2>4, <2>5, <2>6
<1>5. Nat \subseteq S
  <2> HIDE DEF S
  <2> QED BY <1>3, <1>4, Induction
<1>6. m - (l + 1) \in Nat /\ (l + 1) + (m - (l + 1)) = m /\ m <= LastLine(c)
  BY <1>1
<1>7. m - (l + 1) \in S
  BY <1>5, <1>6
<1> QED BY <1>6, <1>7

\* Each character of line l of c is one unit.
NarrowLine(c, l) == \A i \in 1 .. Width(c, l) : Texts[c][l].widths[i] = 1

\* What the first k characters of a line come to.
FirstCharacters(g, c, l, raw, k) ==
    /\ Len(g) >= k
    /\ NarrowLine(c, l) => Len(g) = k /\ \A i \in 1 .. k : g[i] = Unit(c, l, i, raw)

LEMMA CharacterParts ==
    ASSUME NEW c \in Calls, NEW l \in 1 .. LastLine(c), NEW raw
    PROVE  /\ Characters(c, l, raw) \in Seq(Seq(Parts(c, raw)))
           /\ Len(Characters(c, l, raw)) = Width(c, l)
           /\ \A at \in 1 .. Width(c, l) :
                 /\ Len(Characters(c, l, raw)[at]) \in Nat \ {0}
                 /\ NarrowLine(c, l) => /\ Len(Characters(c, l, raw)[at]) = 1
                                        /\ Characters(c, l, raw)[at][1] = Unit(c, l, at, raw)
<1>1. l \in DOMAIN Texts[c]
  BY TextLines
<1>2. Characters(c, l, raw) \in Seq(Seq(Parts(c, raw)))
  BY <1>1, CharactersType
<1>3. PICK n, w, s : n = Width(c, l) /\ w = Texts[c][l].widths /\ s = Characters(c, l, raw)
  OBVIOUS
<1>4. n \in Nat /\ n = Len(w)
  BY <1>3, TextLines DEF Width
<1>5. \A at \in 1 .. n : w[at] \in {1, 2}
  <2>1. Texts[c][l] \in Lines
    BY TextsAssumption, ElementOfSeq DEF LastLine
  <2>2. w \in Seq({1, 2})
    BY <1>3, <2>1 DEF Lines
  <2> QED BY <1>4, <2>2, ElementOfSeq
<1>6. s = [at \in 1 .. n |-> [k \in 1 .. w[at] |-> Unit(c, l, at, raw)]]
  BY <1>3 DEF Characters
<1>7. Len(s) = n
  BY <1>4, <1>6
<1>8. ASSUME NEW at \in 1 .. n
      PROVE  /\ Len(s[at]) \in Nat \ {0}
             /\ w[at] = 1 => Len(s[at]) = 1 /\ s[at][1] = Unit(c, l, at, raw)
  <2>1. PICK u, x : u = Unit(c, l, at, raw) /\ x = [k \in 1 .. w[at] |-> u]
    OBVIOUS
  <2>2. s[at] = x
    BY <1>6, <2>1
  <2>3. w[at] \in {1, 2}
    BY <1>5
  <2>4. Len(x) = w[at]
    BY <2>1, <2>3
  <2>5. w[at] = 1 => x[1] = u
    BY <2>1
  <2> QED BY <2>1, <2>2, <2>3, <2>4, <2>5
<1>9. NarrowLine(c, l) => \A at \in 1 .. n : w[at] = 1
  BY <1>3 DEF NarrowLine
<1> QED BY <1>2, <1>3, <1>7, <1>8, <1>9

LEMMA FlattenedCharacters ==
    ASSUME NEW c \in Calls, NEW l \in 1 .. LastLine(c), NEW raw
    PROVE  FirstCharacters(FlattenSeq(Characters(c, l, raw)), c, l, raw, Width(c, l))
<1>1. PICK n, s, V : n = Width(c, l) /\ s = Characters(c, l, raw) /\ V = Parts(c, raw)
  OBVIOUS
<1>2. n \in Nat
  BY <1>1, TextLines
<1>3. /\ s \in Seq(Seq(V)) /\ Len(s) = n
      /\ \A at \in 1 .. n :
            /\ Len(s[at]) \in Nat \ {0}
            /\ NarrowLine(c, l) => Len(s[at]) = 1 /\ s[at][1] = Unit(c, l, at, raw)
  BY <1>1, CharacterParts
<1>4. CASE n = 0
  <2>1. s = <<>>
    BY <1>3, <1>4, EmptySeq
  <2>2. FlattenSeq(s) = <<>>
    BY <2>1 DEF FlattenSeq
  <2>3. FirstCharacters(<<>>, c, l, raw, 0)
    BY DEF FirstCharacters
  <2> QED BY <1>1, <1>4, <2>2, <2>3
<1>5. CASE n # 0
  <2>1. s # <<>>
    BY <1>3, <1>5
  <2>2. PICK f : Flattens(f, s, Len(s)) /\ FlattenSeq(s) = f[Len(s)]
    BY <1>3, <2>1, FlattenSeqFlattens
  <2>3. /\ f[1] = s[1]
        /\ \A i \in 1 .. n : i # 1 => f[i] = Joined(f[i - 1], s[i])
    BY <1>3, <2>1, <2>2, FlattensAt
  <2>4. \A i \in 1 .. n : f[i] \in Seq(V) /\ s[i] \in Seq(V)
    BY <1>3, <2>2, FlattensType, ElementOfSeq
  <2> DEFINE S == {i \in Nat : i + 1 <= n => FirstCharacters(f[i + 1], c, l, raw, i + 1)}
  <2>5. 0 \in S
    <3> SUFFICES FirstCharacters(s[1], c, l, raw, 1)
      BY <2>3
    <3>1. /\ Len(s[1]) \in Nat \ {0}
          /\ NarrowLine(c, l) => Len(s[1]) = 1 /\ s[1][1] = Unit(c, l, 1, raw)
      BY <1>2, <1>3, <1>5
    <3>2. \A i \in 1 .. 1 : i = 1
      OBVIOUS
    <3> QED BY <3>1, <3>2 DEF FirstCharacters
  <2>6. ASSUME NEW i \in Nat, i \in S
        PROVE  i + 1 \in S
    <3>1. PICK k, j : k = i + 1 /\ j = k + 1
      OBVIOUS
    <3> SUFFICES ASSUME j <= n
                 PROVE  FirstCharacters(f[j], c, l, raw, j)
      BY <2>6, <3>1
    <3>2. /\ k \in 1 .. n /\ j \in 1 .. n /\ j # 1 /\ j - 1 = k /\ k \in Nat /\ j = k + 1
      BY <1>2, <2>6, <3>1
    <3>3. FirstCharacters(f[k], c, l, raw, k)
      BY <2>6, <3>1, <3>2
    <3>4. f[j] = Joined(f[k], s[j]) /\ f[k] \in Seq(V) /\ s[j] \in Seq(V)
      BY <2>3, <2>4, <3>2
    <3>5. PICK a, b : a = Len(f[k]) /\ b = Len(s[j])
      OBVIOUS
    <3>6. a \in Nat /\ b \in Nat \ {0} /\ a >= k /\ Len(f[j]) = a + b
      <4>1. Len(Joined(f[k], s[j])) = Len(f[k]) + Len(s[j])
        BY <3>4, JoinedType
      <4>2. Len(f[k]) \in Nat
        BY <3>4, LenProperties
      <4>3. Len(f[k]) >= k
        BY <3>3 DEF FirstCharacters
      <4> QED BY <1>3, <3>2, <3>4, <3>5, <4>1, <4>2, <4>3
    <3>7. \A p \in 1 .. a + b : f[j][p] = IF p <= a THEN f[k][p] ELSE s[j][p - a]
      <4>1. \A p \in 1 .. Len(f[k]) + Len(s[j]) :
               Joined(f[k], s[j])[p] = IF p <= Len(f[k]) THEN f[k][p] ELSE s[j][p - Len(f[k])]
        BY <3>4, JoinedAt
      <4> QED BY <3>4, <3>5, <4>1
    <3>8. ASSUME NarrowLine(c, l)
          PROVE  Len(f[j]) = j /\ \A p \in 1 .. j : f[j][p] = Unit(c, l, p, raw)
      <4>1. /\ a = k /\ b = 1 /\ s[j][1] = Unit(c, l, j, raw)
            /\ \A p \in 1 .. k : f[k][p] = Unit(c, l, p, raw)
        BY <1>3, <3>2, <3>3, <3>5, <3>8 DEF FirstCharacters
      <4>2. ASSUME NEW p \in 1 .. j
            PROVE  f[j][p] = Unit(c, l, p, raw)
        <5>1. CASE p = j
          <6>1. p \in 1 .. a + b /\ ~(p <= a) /\ p - a = 1
            BY <3>2, <4>1, <5>1
          <6> QED BY <3>7, <4>1, <5>1, <6>1
        <5>2. CASE p # j
          <6>1. p \in 1 .. a + b /\ p <= a /\ p \in 1 .. k
            BY <3>2, <4>1, <5>2
          <6> QED BY <3>7, <4>1, <6>1
        <5> QED BY <5>1, <5>2
      <4> QED BY <3>2, <3>6, <4>1, <4>2
    <3>9. Len(f[j]) >= j
      BY <3>2, <3>6
    <3> QED BY <3>8, <3>9 DEF FirstCharacters
  <2>7. Nat \subseteq S
    <3> HIDE DEF S
    <3> QED BY <2>5, <2>6, Induction
  <2>8. n - 1 \in Nat /\ (n - 1) + 1 = n
    BY <1>2, <1>5
  <2>9. n - 1 \in S
    BY <2>7, <2>8
  <2>10. FirstCharacters(f[n], c, l, raw, n)
    BY <1>2, <2>8, <2>9
  <2> QED BY <1>1, <1>3, <2>2, <2>10
<1> QED BY <1>4, <1>5

LEMMA LineUnitsAt ==
    ASSUME NEW c \in Calls, NEW l \in 1 .. LastLine(c), NEW raw, raw = FALSE,
           NEW x, x = LineUnits(c, l, raw)
    PROVE  /\ x \in Seq(Parts(c, raw)) /\ Len(x) \in Nat /\ Len(x) >= Width(c, l) + 1
           /\ x[Len(x)] = Unit(c, l, 0, raw)
           /\ NarrowLine(c, l) => /\ Len(x) = Width(c, l) + 1
                                  /\ \A i \in 1 .. Width(c, l) : x[i] = Unit(c, l, i, raw)
<1>1. PICK g, u, n, V : /\ g = FlattenSeq(Characters(c, l, raw)) /\ u = Unit(c, l, 0, raw)
                        /\ n = Width(c, l) /\ V = Parts(c, raw)
  OBVIOUS
<1>2. l \in DOMAIN Texts[c] /\ n \in Nat
  BY <1>1, TextLines
<1>3. g \in Seq(V) /\ u \in V
  BY <1>1, <1>2, CharactersType, FlattenSeqType, UnitPart
<1>4. x = Joined(g, <<u>>)
  BY <1>1 DEF LineUnits, Characters, Joined
<1>5. FirstCharacters(g, c, l, raw, n)
  BY <1>1, FlattenedCharacters
<1>6. <<u>> \in Seq(V) /\ Len(<<u>>) = 1
  BY <1>3, Single
<1>7. PICK m, s : m = Len(g) /\ s = <<u>>
  OBVIOUS
<1>8. m \in Nat /\ m >= n
  BY <1>3, <1>5, <1>7, LenProperties DEF FirstCharacters
<1>9. x \in Seq(V) /\ Len(x) = m + 1
  BY <1>3, <1>4, <1>6, <1>7, JoinedType
<1>10. \A p \in 1 .. m + 1 : x[p] = IF p <= m THEN g[p] ELSE s[p - m]
  <2>1. s \in Seq(V) /\ Len(s) = 1
    BY <1>6, <1>7
  <2>2. \A p \in 1 .. Len(g) + Len(s) : Joined(g, s)[p] = IF p <= Len(g) THEN g[p] ELSE s[p - Len(g)]
    BY <1>3, <2>1, JoinedAt
  <2> QED BY <1>4, <1>7, <2>1, <2>2
<1>11. x[m + 1] = u
  <2>1. m + 1 \in 1 .. m + 1 /\ ~(m + 1 <= m) /\ (m + 1) - m = 1
    BY <1>8
  <2>2. s[1] = u
    BY <1>7
  <2> QED BY <1>10, <2>1, <2>2
<1>12. ASSUME NarrowLine(c, l)
       PROVE  Len(x) = n + 1 /\ \A i \in 1 .. n : x[i] = Unit(c, l, i, raw)
  <2>1. m = n /\ \A i \in 1 .. n : g[i] = Unit(c, l, i, raw)
    BY <1>5, <1>7, <1>12 DEF FirstCharacters
  <2>2. \A i \in 1 .. n : i \in 1 .. m + 1 /\ i <= m
    BY <1>2, <2>1
  <2> QED BY <1>9, <1>10, <2>1, <2>2
<1>13. Len(x) \in Nat /\ Len(x) >= n + 1
  BY <1>2, <1>8, <1>9
<1> QED BY <1>1, <1>9, <1>11, <1>12, <1>13

\* The unit u of call c belongs at place p of its text.
InPlace(c, u, p) ==
    /\ u.line \in 1 .. LastLine(c) /\ u.at \in 0 .. Width(c, u.line)
    /\ p = LineStart(c, u.line) + IF u.at = 0 THEN Width(c, u.line) + 1 ELSE u.at

\* What the first k lines of c come to.
FirstLines(g, c, k) ==
    /\ Len(g) >= LineEnd(c, k) /\ g[Len(g)].at = 0
    /\ Narrow(c) => Len(g) = LineEnd(c, k) /\ \A p \in 1 .. LineEnd(c, k) : InPlace(c, g[p], p)

LEMMA LineInPlace ==
    ASSUME NEW c \in Calls, NEW l \in 1 .. LastLine(c), NEW raw, raw = FALSE,
           NEW x, x = LineUnits(c, l, raw), Narrow(c), NEW i \in 1 .. Width(c, l) + 1
    PROVE  Len(x) = Width(c, l) + 1 /\ InPlace(c, x[i], LineStart(c, l) + i)
<1>1. Width(c, l) \in Nat /\ l \in DOMAIN Texts[c] /\ LineStart(c, l) \in Nat /\ l \in Nat
  BY TextLines, LineStartNext
<1>2. NarrowLine(c, l)
  BY <1>1 DEF Narrow, NarrowLine
<1>3. /\ Len(x) = Width(c, l) + 1 /\ x[Len(x)] = Unit(c, l, 0, raw)
      /\ \A k \in 1 .. Width(c, l) : x[k] = Unit(c, l, k, raw)
  BY <1>2, LineUnitsAt
<1>4. CASE i = Width(c, l) + 1
  <2>1. x[i].line = l /\ x[i].at = 0
    BY <1>3, <1>4 DEF Unit
  <2> QED BY <1>1, <1>3, <1>4, <2>1 DEF InPlace
<1>5. CASE i # Width(c, l) + 1
  <2>1. i \in 1 .. Width(c, l) /\ i # 0 /\ i \in 0 .. Width(c, l)
    BY <1>1, <1>5
  <2>2. x[i].line = l /\ x[i].at = i
    <3>1. x[i] = Unit(c, l, i, raw)
      BY <1>3, <2>1
    <3>2. Unit(c, l, i, raw).line = l /\ Unit(c, l, i, raw).at = i
      BY DEF Unit
    <3> QED BY <3>1, <3>2
  <2> QED BY <1>3, <2>1, <2>2 DEF InPlace
<1> QED BY <1>4, <1>5

LEMMA TextInPlace ==
    ASSUME NEW c \in Calls, NEW raw, raw = FALSE
    PROVE  FirstLines(Text(c, raw), c, LastLine(c))
<1>1. PICK s, n, V : /\ s = [l \in DOMAIN Texts[c] |-> LineUnits(c, l, raw)]
                     /\ n = LastLine(c) /\ V = Parts(c, raw)
  OBVIOUS
<1>2. n \in Nat \ {0} /\ DOMAIN Texts[c] = 1 .. n /\ raw \in BOOLEAN
  BY <1>1, TextLines
<1>3. s \in Seq(Seq(V)) /\ Len(s) = n /\ \A l \in 1 .. n : s[l] = LineUnits(c, l, raw)
  <2>1. s \in Seq(Seq(V))
    BY <1>1, <1>2, LinesType
  <2>2. Len(s) = n /\ \A l \in 1 .. n : s[l] = LineUnits(c, l, raw)
    BY <1>1, <1>2
  <2> QED BY <2>1, <2>2
<1>4. s # <<>>
  BY <1>2, <1>3
<1>5. PICK f : Flattens(f, s, Len(s)) /\ FlattenSeq(s) = f[Len(s)]
  BY <1>3, <1>4, FlattenSeqFlattens
<1>6. f[1] = s[1] /\ \A i \in 1 .. n : i # 1 => f[i] = Joined(f[i - 1], s[i])
  BY <1>3, <1>4, <1>5, FlattensAt
<1>7. \A i \in 1 .. n : f[i] \in Seq(V)
  BY <1>3, <1>5, FlattensType
<1>8. ASSUME NEW l \in 1 .. n
      PROVE  /\ s[l] \in Seq(V) /\ Len(s[l]) \in Nat /\ Len(s[l]) >= Width(c, l) + 1
             /\ s[l][Len(s[l])].at = 0
             /\ Narrow(c) => /\ Len(s[l]) = Width(c, l) + 1
                             /\ \A i \in 1 .. Width(c, l) + 1 :
                                   InPlace(c, s[l][i], LineStart(c, l) + i)
  <2>1. PICK x : x = s[l]
    OBVIOUS
  <2>2. x = LineUnits(c, l, raw) /\ l \in 1 .. LastLine(c)
    BY <1>1, <1>3, <2>1
  <2>3. /\ x \in Seq(V) /\ Len(x) \in Nat /\ Len(x) >= Width(c, l) + 1
        /\ x[Len(x)] = Unit(c, l, 0, raw)
    BY <1>1, <2>2, LineUnitsAt
  <2>4. x[Len(x)].at = 0
    BY <2>3 DEF Unit
  <2>5. ASSUME Narrow(c)
        PROVE  /\ Len(x) = Width(c, l) + 1
               /\ \A i \in 1 .. Width(c, l) + 1 : InPlace(c, x[i], LineStart(c, l) + i)
    <3>1. 1 \in 1 .. Width(c, l) + 1
      BY <2>2, TextLines
    <3> QED BY <2>2, <2>5, <3>1, LineInPlace
  <2> QED BY <2>1, <2>3, <2>4, <2>5
<1>9. \A l \in 1 .. n : Width(c, l) \in Nat /\ LineStart(c, l) \in Nat
  BY <1>1, TextLines, LineStartNext
<1> DEFINE S == {i \in Nat : i + 1 <= n => FirstLines(f[i + 1], c, i + 1)}
<1>10. 0 \in S
  <2> SUFFICES FirstLines(s[1], c, 1)
    BY <1>6
  <2>1. 1 \in 1 .. n /\ LineStart(c, 1) = 0
    BY <1>2, LineStartNext
  <2>2. LineEnd(c, 1) = Width(c, 1) + 1
    BY <1>9, <2>1 DEF LineEnd
  <2>3. \A i \in 1 .. Width(c, 1) + 1 : LineStart(c, 1) + i = i
    BY <2>1
  <2> QED BY <1>8, <2>1, <2>2, <2>3 DEF FirstLines
<1>11. ASSUME NEW i \in Nat, i \in S
       PROVE  i + 1 \in S
  <2>1. PICK k, j : k = i + 1 /\ j = k + 1
    OBVIOUS
  <2> SUFFICES ASSUME j <= n
               PROVE  FirstLines(f[j], c, j)
    BY <1>11, <2>1
  <2>2. k \in 1 .. n - 1 /\ k \in 1 .. n /\ j \in 1 .. n /\ j # 1 /\ j - 1 = k /\ j = k + 1
    BY <1>2, <1>11, <2>1
  <2>3. FirstLines(f[k], c, k)
    BY <1>11, <2>1, <2>2
  <2>4. f[j] = Joined(f[k], s[j]) /\ f[k] \in Seq(V) /\ s[j] \in Seq(V)
    BY <1>6, <1>7, <1>8, <2>2
  <2>5. PICK a, b, w : a = Len(f[k]) /\ b = Len(s[j]) /\ w = Width(c, j)
    OBVIOUS
  <2>6. a \in Nat /\ b \in Nat /\ w \in Nat /\ b >= w + 1 /\ a >= LineEnd(c, k)
    <3>1. Len(f[k]) \in Nat
      BY <2>4, LenProperties
    <3>2. Len(f[k]) >= LineEnd(c, k)
      BY <2>3 DEF FirstLines
    <3> QED BY <1>8, <1>9, <2>2, <2>5, <3>1, <3>2
  <2>7. Len(f[j]) = a + b
    BY <2>4, <2>5, JoinedType
  <2>8. \A p \in 1 .. a + b : f[j][p] = IF p <= a THEN f[k][p] ELSE s[j][p - a]
    <3>1. \A p \in 1 .. Len(f[k]) + Len(s[j]) :
             Joined(f[k], s[j])[p] = IF p <= Len(f[k]) THEN f[k][p] ELSE s[j][p - Len(f[k])]
      BY <2>4, JoinedAt
    <3> QED BY <2>4, <2>5, <3>1
  <2>9. LineStart(c, j) = LineEnd(c, k) /\ LineEnd(c, j) = LineEnd(c, k) + w + 1 /\ LineEnd(c, k) \in Nat
    <3>1. LineStart(c, k + 1) = LineStart(c, k) + Width(c, k) + 1
      BY <1>1, <2>2, LineStartNext
    <3> QED BY <1>9, <2>2, <2>5, <3>1 DEF LineEnd
  <2>10. Len(f[j]) >= LineEnd(c, j)
    BY <2>6, <2>7, <2>9
  <2>11. f[j][Len(f[j])].at = 0
    <3>1. a + b \in 1 .. a + b /\ ~(a + b <= a) /\ (a + b) - a = b
      BY <2>6
    <3>2. f[j][a + b] = s[j][b]
      BY <2>8, <3>1
    <3> QED BY <1>8, <2>2, <2>5, <2>7, <3>2
  <2>12. ASSUME Narrow(c)
         PROVE  Len(f[j]) = LineEnd(c, j) /\ \A p \in 1 .. LineEnd(c, j) : InPlace(c, f[j][p], p)
    <3>1. a = LineEnd(c, k) /\ \A p \in 1 .. a : InPlace(c, f[k][p], p)
      BY <2>3, <2>5, <2>12 DEF FirstLines
    <3>2. b = w + 1 /\ \A q \in 1 .. b : InPlace(c, s[j][q], LineStart(c, j) + q)
      BY <1>8, <2>2, <2>5, <2>12
    <3>3. a + b = LineEnd(c, j) /\ LineStart(c, j) = a
      BY <2>6, <2>9, <3>1, <3>2
    <3>4. ASSUME NEW p \in 1 .. a + b
          PROVE  InPlace(c, f[j][p], p)
      <4>1. CASE p <= a
        <5>1. p \in 1 .. a
          BY <2>6, <4>1
        <5> QED BY <2>8, <3>1, <4>1, <5>1
      <4>2. CASE ~(p <= a)
        <5>1. PICK q : q = p - a
          OBVIOUS
        <5>2. q \in 1 .. b /\ LineStart(c, j) + q = p
          BY <2>6, <3>3, <4>2, <5>1
        <5>3. f[j][p] = s[j][q]
          BY <2>8, <4>2, <5>1
        <5>4. InPlace(c, s[j][q], LineStart(c, j) + q)
          BY <3>2, <5>2
        <5> QED BY <5>2, <5>3, <5>4
      <4> QED BY <4>1, <4>2
    <3> QED BY <2>7, <3>3, <3>4
  <2> QED BY <2>10, <2>11, <2>12 DEF FirstLines
<1>12. Nat \subseteq S
  <2> HIDE DEF S
  <2> QED BY <1>10, <1>11, Induction
<1>13. n - 1 \in Nat /\ (n - 1) + 1 = n
  BY <1>2
<1>14. n - 1 \in S
  BY <1>12, <1>13
<1>15. FirstLines(f[n], c, n)
  BY <1>2, <1>13, <1>14
<1>16. Text(c, raw) = FlattenSeq(s)
  BY <1>1 DEF Text
<1> QED BY <1>1, <1>3, <1>5, <1>15, <1>16

\* A place in the text of c that is covered by one of the ranges.
Reached(o, ranges) == \E r \in ranges : r[1] < o /\ o <= r[2]

LEMMA CoveredReached ==
    ASSUME NEW p \in Int, NEW base \in Int, NEW ranges, \A r \in ranges : r[1] \in Int /\ r[2] \in Int
    PROVE  Covered(p, ranges, base) <=> Reached(p - base, ranges)
<1>1. ASSUME NEW r \in ranges
      PROVE  (base + r[1] < p /\ p <= base + r[2]) <=> (r[1] < p - base /\ p - base <= r[2])
  OBVIOUS
<1> QED BY <1>1 DEF Covered, Reached

\* The ranges lie in the text, the bold ones before its last newline.
LEMMA RangesWithin ==
    ASSUME NEW c \in Calls
    PROVE  /\ \A r \in Bolds(c) : r[1] \in Nat /\ r[2] \in Nat /\ r[2] < LineEnd(c, LastLine(c))
           /\ \A r \in Headings(c) : r[1] \in Nat /\ r[2] \in Nat /\ r[2] <= LineEnd(c, LastLine(c))
           /\ LineEnd(c, LastLine(c)) \in Nat
<1>1. /\ LastLine(c) \in Nat \ {0} /\ DOMAIN Texts[c] = 1 .. LastLine(c)
      /\ \A l \in 1 .. LastLine(c) :
            /\ Width(c, l) \in Nat /\ LineStart(c, l) \in Nat
            /\ Texts[c][l].bold \in 0 .. Width(c, l)
  BY TextLines, LineStartNext
<1>2. \A l \in 1 .. LastLine(c) : LineEnd(c, l) \in Nat /\ LineEnd(c, l) <= LineEnd(c, LastLine(c))
  <2> SUFFICES ASSUME NEW l \in 1 .. LastLine(c)
               PROVE  LineEnd(c, l) \in Nat /\ LineEnd(c, l) <= LineEnd(c, LastLine(c))
    OBVIOUS
  <2>1. LastLine(c) \in 1 .. LastLine(c)
    BY <1>1
  <2>2. /\ LineEnd(c, l) \in Nat /\ LineEnd(c, LastLine(c)) \in Nat
        /\ LineStart(c, LastLine(c)) \in Nat /\ LineStart(c, LastLine(c)) <= LineEnd(c, LastLine(c))
    BY <1>1, <2>1 DEF LineEnd
  <2>3. CASE l = LastLine(c)
    BY <2>2, <2>3
  <2>4. CASE l # LastLine(c)
    <3>1. l < LastLine(c)
      BY <1>1, <2>4
    <3>2. LineEnd(c, l) <= LineStart(c, LastLine(c))
      BY <2>1, <3>1, LinesApart
    <3> QED BY <2>2, <3>2
  <2> QED BY <2>3, <2>4
<1>3. ASSUME NEW r \in Bolds(c)
      PROVE  r[1] \in Nat /\ r[2] \in Nat /\ r[2] < LineEnd(c, LastLine(c))
  <2>1. PICK l \in 1 .. LastLine(c) :
           r = <<LineStart(c, l) + Width(c, l) - Texts[c][l].bold, LineStart(c, l) + Width(c, l)>>
    BY <1>1 DEF Bolds
  <2>2. PICK b, m, w : b = Texts[c][l].bold /\ m = LineStart(c, l) /\ w = Width(c, l)
    OBVIOUS
  <2>3. m \in Nat /\ w \in Nat /\ b \in 0 .. w /\ LineEnd(c, l) = m + w + 1
    BY <1>1, <2>2 DEF LineEnd
  <2>4. r[1] = m + w - b /\ r[2] = m + w
    BY <2>1, <2>2
  <2>5. LineEnd(c, l) <= LineEnd(c, LastLine(c)) /\ LineEnd(c, LastLine(c)) \in Nat
    BY <1>1, <1>2
  <2> QED BY <2>3, <2>4, <2>5
<1>4. ASSUME NEW r \in Headings(c)
      PROVE  r[1] \in Nat /\ r[2] \in Nat /\ r[2] <= LineEnd(c, LastLine(c))
  <2>1. PICK l \in 1 .. LastLine(c) : r = <<LineStart(c, l), LineEnd(c, l)>>
    BY <1>1 DEF Headings, LineEnd
  <2> QED BY <1>1, <1>2, <2>1
<1> QED BY <1>1, <1>2, <1>3, <1>4

\* A place of one line is not one of another.
LEMMA PlacesApart ==
    ASSUME NEW c \in Calls, NEW l \in 1 .. LastLine(c), NEW m \in 1 .. LastLine(c), NEW o \in Int,
           LineStart(c, l) < o, o <= LineEnd(c, l), LineStart(c, m) < o, o <= LineEnd(c, m)
    PROVE  l = m
<1>1. /\ LineStart(c, l) \in Int /\ LineEnd(c, l) \in Int
      /\ LineStart(c, m) \in Int /\ LineEnd(c, m) \in Int /\ l \in Int /\ m \in Int
  BY TextLines, LineStartNext DEF LineEnd
<1>2. CASE l < m
  BY <1>1, <1>2, LinesApart
<1>3. CASE m < l
  BY <1>1, <1>3, LinesApart
<1> QED BY <1>1, <1>2, <1>3

\* The ranges reach a unit in its place just when its line says so.
LEMMA BoldReached ==
    ASSUME NEW c \in Calls, NEW u, NEW o \in Nat, InPlace(c, u, o)
    PROVE  Reached(o, Bolds(c)) <=> u.at > Width(c, u.line) - Texts[c][u.line].bold
<1>1. PICK l, at : l = u.line /\ at = u.at
  OBVIOUS
<1>2. /\ DOMAIN Texts[c] = 1 .. LastLine(c)
      /\ \A k \in 1 .. LastLine(c) :
            /\ Width(c, k) \in Nat /\ LineStart(c, k) \in Nat
            /\ Texts[c][k].bold \in 0 .. Width(c, k)
  BY TextLines, LineStartNext
<1>3. /\ l \in 1 .. LastLine(c) /\ at \in 0 .. Width(c, l)
      /\ o = LineStart(c, l) + IF at = 0 THEN Width(c, l) + 1 ELSE at
  BY <1>1 DEF InPlace
<1>4. LineStart(c, l) < o /\ o <= LineEnd(c, l)
  BY <1>2, <1>3 DEF LineEnd
<1>5. ASSUME Reached(o, Bolds(c))
      PROVE  at > Width(c, l) - Texts[c][l].bold
  <2>1. PICK r \in Bolds(c) : r[1] < o /\ o <= r[2]
    BY <1>5 DEF Reached
  <2>2. PICK m \in 1 .. LastLine(c) :
           r = <<LineStart(c, m) + Width(c, m) - Texts[c][m].bold, LineStart(c, m) + Width(c, m)>>
    BY <1>2 DEF Bolds
  <2>3. /\ LineStart(c, m) + Width(c, m) - Texts[c][m].bold < o
        /\ o <= LineStart(c, m) + Width(c, m)
    BY <2>1, <2>2
  <2>4. LineStart(c, m) < o /\ o <= LineEnd(c, m)
    BY <1>2, <2>3 DEF LineEnd
  <2>5. l = m
    BY <1>3, <1>4, <2>4, PlacesApart
  <2> QED BY <1>2, <1>3, <2>3, <2>5
<1>6. ASSUME at > Width(c, l) - Texts[c][l].bold
      PROVE  Reached(o, Bolds(c))
  <2>1. at # 0 /\ Texts[c][l].bold > 0
    BY <1>2, <1>3, <1>6
  <2>2. PICK r : r = <<LineStart(c, l) + Width(c, l) - Texts[c][l].bold, LineStart(c, l) + Width(c, l)>>
    OBVIOUS
  <2>3. r \in Bolds(c)
    BY <1>2, <1>3, <2>1, <2>2 DEF Bolds
  <2>4. r[1] < o /\ o <= r[2]
    BY <1>2, <1>3, <1>6, <2>1, <2>2
  <2> QED BY <2>3, <2>4 DEF Reached
<1> QED BY <1>1, <1>5, <1>6

LEMMA HeadingReached ==
    ASSUME NEW c \in Calls, NEW l \in 1 .. LastLine(c), NEW o \in Int,
           LineStart(c, l) < o, o <= LineEnd(c, l)
    PROVE  Reached(o, Headings(c)) <=> Texts[c][l].heading
<1>1. DOMAIN Texts[c] = 1 .. LastLine(c)
  BY TextLines
<1>2. ASSUME Reached(o, Headings(c))
      PROVE  Texts[c][l].heading
  <2>1. PICK r \in Headings(c) : r[1] < o /\ o <= r[2]
    BY <1>2 DEF Reached
  <2>2. PICK m \in 1 .. LastLine(c) : r = <<LineStart(c, m), LineEnd(c, m)>> /\ Texts[c][m].heading
    BY <1>1 DEF Headings, LineEnd
  <2>3. LineStart(c, m) < o /\ o <= LineEnd(c, m)
    BY <2>1, <2>2
  <2>4. l = m
    BY <2>3, PlacesApart
  <2> QED BY <2>2, <2>4
<1>3. ASSUME Texts[c][l].heading
      PROVE  Reached(o, Headings(c))
  <2>1. PICK r : r = <<LineStart(c, l), LineEnd(c, l)>>
    OBVIOUS
  <2>2. r \in Headings(c)
    BY <1>1, <1>3, <2>1 DEF Headings, LineEnd
  <2> QED BY <2>1, <2>2 DEF Reached
<1> QED BY <1>2, <1>3

-------------------------------------------------------------------------------
\* The styles in a document

\* A unit is styled as it was written; once a batch has landed early, at least that.
AsWritten(u, gone) ==
    (u.by \in Calls /\ Narrow(u.by)) =>
       /\ WrittenBold(u) => u.bold
       /\ WrittenHeading(u) => u.heading
       /\ ~gone => /\ u.bold => WrittenBold(u)
                   /\ u.heading => WrittenHeading(u)

\* Until then, what is appended takes no style over: not from the unit before the
\* closing newline, and not from the paragraph that one ends.
Laid(d, gone) ==
    /\ Closed(d) /\ d[Len(d)].by = "person"
    /\ \A p \in 1 .. Len(d) : AsWritten(d[p], gone)
    /\ ~gone => /\ ~d[Len(d)].heading
                /\ Len(d) > 1 => ~d[Len(d) - 1].bold

\* Document e is d with m units put in at a place, ...
Widened(d, e, m, at) ==
    /\ e \in Seq(Units) /\ Len(e) = Len(d) + m
    /\ \A p \in 1 .. at : e[p] = d[p]
    /\ \A p \in at + 1 .. Len(d) : e[p + m] = d[p]

\* ... which are those of the text t of call k, without a style, ...
Unstyled(e, k, t, at, gone) ==
    \A i \in 1 .. Len(t) :
       /\ e[at + i].by = k /\ Said(e[at + i]) = Said(t[i])
       /\ ~gone => ~e[at + i].bold /\ ~e[at + i].heading

\* ... or styled as they were written.
NewAsWritten(e, m, at, gone) ==
    /\ \A i \in 1 .. m : AsWritten(e[at + i], gone)
    /\ ~gone /\ m > 0 => ~e[at + m].bold

LEMMA InsertedWidens ==
    ASSUME NEW d, NEW gone \in BOOLEAN, Laid(d, gone), NEW k \in Calls, NEW raw \in BOOLEAN,
           NEW t, t = Text(k, raw), NEW at \in Nat, at < Len(d),
           NEW gone2 \in BOOLEAN, gone2 <=> gone \/ at < Len(d) - 1
    PROVE  /\ Widened(d, Inserted(d, t, at), Len(t), at)
           /\ Unstyled(Inserted(d, t, at), k, t, at, gone2)
<1>1. d \in Seq(Units) /\ Len(d) \in Nat /\ d[Len(d)].at = 0
  BY DEF Laid, Closed
<1>2. PICK pre, new, post \in Seq(Units) : CutOpen(d, k, t, at, pre, new, post)
  BY <1>1, InsertedParts
<1>3. PICK a, e, m, n : a = Joined(pre, new) /\ e = Joined(a, post) /\ m = Len(t) /\ n = Len(post)
  OBVIOUS
<1>4. /\ d = Joined(pre, post) /\ Inserted(d, t, at) = e
      /\ Len(pre) = at /\ Len(new) = m /\ n = Len(d) - at
      /\ \A i \in 1 .. m :
            /\ new[i].by = k /\ Said(new[i]) = Said(t[i])
            /\ new[i].bold => at > 0 /\ d[at].bold
            /\ at = Len(d) - 1 /\ new[i].heading => d[Len(d)].heading
  BY <1>2, <1>3 DEF CutOpen
<1>5. m \in Nat /\ n \in Nat /\ Len(d) = at + n
  <2>1. Len(new) \in Nat /\ Len(post) \in Nat
    BY LenProperties
  <2> QED BY <1>1, <1>3, <1>4, <2>1
<1>6. a \in Seq(Units) /\ Len(a) = at + m
  <2>1. a \in Seq(Units) /\ Len(a) = Len(pre) + Len(new)
    BY <1>3, JoinedType
  <2> QED BY <1>4, <2>1
<1>7. e \in Seq(Units) /\ Len(e) = (at + m) + n
  BY <1>3, <1>6, JoinedType
<1>8. \A p \in 1 .. at + n : d[p] = IF p <= at THEN pre[p] ELSE post[p - at]
  <2>1. \A p \in 1 .. Len(pre) + Len(post) :
           Joined(pre, post)[p] = IF p <= Len(pre) THEN pre[p] ELSE post[p - Len(pre)]
    BY JoinedAt
  <2> QED BY <1>3, <1>4, <2>1
<1>9. \A p \in 1 .. at + m : a[p] = IF p <= at THEN pre[p] ELSE new[p - at]
  <2>1. \A p \in 1 .. Len(pre) + Len(new) :
           Joined(pre, new)[p] = IF p <= Len(pre) THEN pre[p] ELSE new[p - Len(pre)]
    BY JoinedAt
  <2> QED BY <1>3, <1>4, <2>1
<1>10. \A p \in 1 .. (at + m) + n : e[p] = IF p <= at + m THEN a[p] ELSE post[p - (at + m)]
  <2>1. \A p \in 1 .. Len(a) + Len(post) :
           Joined(a, post)[p] = IF p <= Len(a) THEN a[p] ELSE post[p - Len(a)]
    BY <1>6, JoinedAt
  <2> QED BY <1>3, <1>6, <2>1
<1>11. ASSUME NEW p \in 1 .. at
       PROVE  e[p] = d[p]
  <2>1. p \in 1 .. at + n /\ p \in 1 .. at + m /\ p \in 1 .. (at + m) + n /\ p <= at /\ p <= at + m
    BY <1>5
  <2>2. e[p] = a[p] /\ a[p] = pre[p] /\ d[p] = pre[p]
    BY <1>8, <1>9, <1>10, <2>1
  <2> QED BY <2>2
<1>12. ASSUME NEW i \in 1 .. m
       PROVE  e[at + i] = new[i]
  <2>1. PICK p : p = at + i
    OBVIOUS
  <2>2. p \in 1 .. at + m /\ p \in 1 .. (at + m) + n /\ ~(p <= at) /\ p <= at + m /\ p - at = i
    BY <1>5, <2>1
  <2>3. e[p] = a[p] /\ a[p] = new[p - at]
    BY <1>9, <1>10, <2>2
  <2> QED BY <2>1, <2>2, <2>3
<1>13. ASSUME NEW p \in at + 1 .. Len(d)
       PROVE  e[p + m] = d[p]
  <2>1. PICK q : q = p + m
    OBVIOUS
  <2>2. /\ q \in 1 .. (at + m) + n /\ ~(q <= at + m) /\ q - (at + m) = p - at
        /\ p \in 1 .. at + n /\ ~(p <= at)
    BY <1>5, <2>1
  <2>3. e[q] = post[q - (at + m)] /\ d[p] = post[p - at]
    BY <1>8, <1>10, <2>2
  <2> QED BY <2>1, <2>2, <2>3
<1>14. ASSUME NEW i \in 1 .. m, ~gone2
       PROVE  ~new[i].bold /\ ~new[i].heading
  <2>1. ~gone /\ at = Len(d) - 1
    BY <1>1, <1>14
  <2>2. ~d[Len(d)].heading /\ (at > 0 => ~d[at].bold)
    BY <1>1, <2>1 DEF Laid
  <2> QED BY <1>4, <2>1, <2>2
<1>15. Len(e) = Len(d) + m
  BY <1>5, <1>7
<1>16. Widened(d, e, m, at)
  BY <1>7, <1>11, <1>13, <1>15 DEF Widened
<1>17. Unstyled(e, k, t, at, gone2)
  <2> SUFFICES ASSUME NEW i \in 1 .. m
               PROVE  /\ e[at + i].by = k /\ Said(e[at + i]) = Said(t[i])
                      /\ ~gone2 => ~e[at + i].bold /\ ~e[at + i].heading
    BY <1>3 DEF Unstyled
  <2> QED BY <1>4, <1>12, <1>14
<1> QED BY <1>3, <1>4, <1>16, <1>17

\* Only what becomes of the new units is left to show, when the others stay as they are.
LEMMA WidenedLaid ==
    ASSUME NEW d, NEW gone \in BOOLEAN, Laid(d, gone), NEW m \in Nat, NEW at \in Nat, at < Len(d),
           NEW gone2 \in BOOLEAN, gone2 <=> gone \/ at < Len(d) - 1,
           NEW f, Closed(f), Widened(d, f, m, at), NewAsWritten(f, m, at, gone2)
    PROVE  Laid(f, gone2)
<1>1. PICK n : n = Len(d)
  OBVIOUS
<1>2. n \in Nat /\ n > 0 /\ Len(f) = n + m /\ at < n
  BY <1>1, LenProperties DEF Laid, Closed, Widened
<1>3. /\ \A p \in 1 .. at : f[p] = d[p]
      /\ \A p \in at + 1 .. n : f[p + m] = d[p]
  BY <1>1 DEF Widened
<1>4. f[n + m] = d[n]
  <2>1. n \in at + 1 .. n
    BY <1>2
  <2> QED BY <1>3, <2>1
<1>5. ASSUME NEW p \in 1 .. n + m
      PROVE  AsWritten(f[p], gone2)
  <2>1. ASSUME NEW q \in 1 .. n
        PROVE  AsWritten(d[q], gone2)
    <3>1. AsWritten(d[q], gone) /\ (gone => gone2)
      BY <1>1 DEF Laid
    <3> QED BY <3>1 DEF AsWritten
  <2>2. CASE p <= at
    <3>1. p \in 1 .. at /\ p \in 1 .. n
      BY <1>2, <2>2
    <3> QED BY <1>3, <2>1, <3>1
  <2>3. CASE at < p /\ p <= at + m
    <3>1. p - at \in 1 .. m /\ at + (p - at) = p
      BY <1>2, <2>3
    <3>2. AsWritten(f[at + (p - at)], gone2)
      BY <3>1 DEF NewAsWritten
    <3> QED BY <3>1, <3>2
  <2>4. CASE at + m < p
    <3>1. PICK q : q = p - m
      OBVIOUS
    <3>2. q \in at + 1 .. n /\ q \in 1 .. n /\ q + m = p
      BY <1>2, <2>4, <3>1
    <3>3. f[q + m] = d[q]
      BY <1>3, <3>2
    <3> QED BY <2>1, <3>2, <3>3
  <2> QED BY <1>2, <2>2, <2>3, <2>4
<1>6. ASSUME ~gone2
      PROVE  ~f[n + m].heading /\ (n + m > 1 => ~f[n + m - 1].bold)
  <2>1. ~gone /\ at = n - 1
    BY <1>1, <1>2, <1>6
  <2>2. ~d[n].heading /\ (n > 1 => ~d[n - 1].bold)
    BY <1>1, <2>1 DEF Laid
  <2>3. CASE m = 0
    <3>1. n > 1 => n - 1 \in 1 .. at
      BY <1>2, <2>1
    <3>2. n > 1 => f[n - 1] = d[n - 1]
      BY <1>3, <3>1
    <3>3. n + m = n /\ n + m - 1 = n - 1
      BY <1>2, <2>3
    <3>4. ~f[n + m].heading
      BY <1>4, <2>2
    <3>5. n + m > 1 => ~f[n + m - 1].bold
      BY <2>2, <3>2, <3>3
    <3> QED BY <3>4, <3>5
  <2>4. CASE m # 0
    <3>1. n + m - 1 = at + m /\ m > 0
      BY <1>2, <2>1, <2>4
    <3>2. ~f[at + m].bold
      BY <1>6, <3>1 DEF NewAsWritten
    <3> QED BY <1>4, <2>2, <3>1, <3>2
  <2> QED BY <2>3, <2>4
<1>7. f[n + m].by = "person"
  BY <1>1, <1>4 DEF Laid
<1> QED BY <1>2, <1>5, <1>6, <1>7 DEF Laid

LEMMA RawLaid ==
    ASSUME NEW d, NEW gone \in BOOLEAN, Laid(d, gone), NEW k \in Calls, NEW raw, raw = TRUE,
           NEW t, t = Text(k, raw), NEW at \in Nat, at < Len(d),
           NEW gone2 \in BOOLEAN, gone2 <=> gone \/ at < Len(d) - 1
    PROVE  Laid(Inserted(d, t, at), gone2)
<1>1. PICK f, m : f = Inserted(d, t, at) /\ m = Len(t)
  OBVIOUS
<1>2. raw \in BOOLEAN /\ Closed(d)
  BY DEF Laid
<1>3. Widened(d, f, m, at) /\ Unstyled(f, k, t, at, gone2)
  BY <1>1, <1>2, InsertedWidens
<1>4. Closed(f)
  BY <1>1, <1>2, InsertedSays
<1>5. t \in Seq(Parts(k, raw)) /\ m \in Nat
  BY <1>1, <1>2, TextType, LenProperties
<1>6. ASSUME NEW i \in 1 .. m
      PROVE  AsWritten(f[at + i], gone2)
  <2>1. t[i] \in Parts(k, raw)
    BY <1>1, <1>5, ElementOfSeq
  <2>2. /\ Said(f[at + i]) = Said(t[i])
        /\ ~gone2 => ~f[at + i].bold /\ ~f[at + i].heading
    BY <1>1, <1>3 DEF Unstyled
  <2>3. f[at + i].raw = TRUE
    BY <2>1, <2>2 DEF Said, Parts
  <2> QED BY <2>2, <2>3 DEF AsWritten, WrittenBold, WrittenHeading
<1>7. ~gone2 /\ m > 0 => ~f[at + m].bold
  <2>1. m > 0 => m \in 1 .. m
    BY <1>5
  <2> QED BY <1>1, <1>3, <2>1 DEF Unstyled
<1>8. NewAsWritten(f, m, at, gone2)
  BY <1>6, <1>7 DEF NewAsWritten
<1>9. Laid(f, gone2)
  BY <1>3, <1>4, <1>5, <1>8, WidenedLaid
<1> QED BY <1>1, <1>9

\* Before a line of a text is the newline of the line before.
LEMMA NewlineBefore ==
    ASSUME NEW c \in Calls, Narrow(c), NEW l \in 1 .. LastLine(c), NEW u,
           LineStart(c, l) > 0, InPlace(c, u, LineStart(c, l))
    PROVE  u.at = 0
<1>1. /\ LastLine(c) \in Nat /\ LineStart(c, 1) = 0
      /\ \A k \in 1 .. LastLine(c) : Width(c, k) \in Nat /\ LineStart(c, k) \in Nat
      /\ \A k \in 1 .. LastLine(c) - 1 : LineStart(c, k + 1) = LineEnd(c, k)
  BY TextLines, LineStartNext DEF LineEnd
<1>2. PICK k, o, m, at : k = l - 1 /\ o = LineStart(c, l) /\ m = u.line /\ at = u.at
  OBVIOUS
<1>3. l # 1
  BY <1>1
<1>4. k \in 1 .. LastLine(c) - 1 /\ k \in 1 .. LastLine(c) /\ k + 1 = l
  BY <1>1, <1>2, <1>3
<1>5. o = LineEnd(c, k) /\ LineStart(c, k) < o /\ o \in Int
  BY <1>1, <1>2, <1>4 DEF LineEnd
<1>6. /\ m \in 1 .. LastLine(c) /\ at \in 0 .. Width(c, m)
      /\ o = LineStart(c, m) + IF at = 0 THEN Width(c, m) + 1 ELSE at
  BY <1>2 DEF InPlace
<1>7. LineStart(c, m) < o /\ o <= LineEnd(c, m)
  BY <1>1, <1>6 DEF LineEnd
<1>8. o <= LineEnd(c, k)
  BY <1>1, <1>4, <1>5 DEF LineEnd
<1>9. m = k
  BY <1>4, <1>5, <1>6, <1>7, <1>8, PlacesApart
<1>10. o = LineStart(c, k) + Width(c, k) + 1 /\ Width(c, k) \in Nat /\ LineStart(c, k) \in Nat
  BY <1>1, <1>4, <1>5 DEF LineEnd
<1> QED BY <1>2, <1>6, <1>9, <1>10

\* Document e has the text t of call k after the place at, and f is e with its styles.
Restyled(e, f, k, t, at) ==
    /\ f \in Seq(Units) /\ Len(f) = Len(e)
    /\ \A p \in 1 .. Len(e) :
          /\ f[p].by = e[p].by /\ Said(f[p]) = Said(e[p])
          /\ f[p].bold <=> e[p].bold \/ Covered(p, Bolds(k), at)
          /\ f[p].heading <=> e[p].heading \/ InHeading(e, p, k, at)
    /\ \A i \in 1 .. Len(t) : e[at + i].by = k /\ Said(e[at + i]) = Said(t[i])

\* The new bold characters are bold, and no others of the text.
LEMMA NewBold ==
    ASSUME NEW e, NEW f, NEW k \in Calls, Narrow(k), NEW raw, raw = FALSE,
           NEW t, t = Text(k, raw), NEW at \in Nat, at + Len(t) <= Len(e),
           Restyled(e, f, k, t, at), NEW i \in 1 .. Len(t)
    PROVE  f[at + i].bold <=> e[at + i].bold \/ WrittenBold(f[at + i])
<1>1. PICK p, u : p = at + i /\ u = f[p]
  OBVIOUS
<1>2. t \in Seq(Parts(k, raw)) /\ Len(t) \in Nat /\ t[i] \in Parts(k, raw)
  BY TextType, LenProperties, ElementOfSeq
<1>3. p \in 1 .. Len(e) /\ p - at = i /\ p \in Int /\ i \in Nat
  <2>1. p \in Nat /\ p >= 1 /\ p <= at + Len(t)
    BY <1>1, <1>2
  <2> QED BY <1>1, <2>1
<1>4. /\ u.by = k /\ Said(u) = Said(t[i])
      /\ u.bold <=> e[p].bold \/ Covered(p, Bolds(k), at)
  BY <1>1, <1>3 DEF Restyled
<1>5. u.line = t[i].line /\ u.at = t[i].at /\ u.raw = FALSE
  BY <1>2, <1>4 DEF Said, Parts
<1>6. InPlace(k, u, i)
  <2>1. InPlace(k, t[i], i)
    BY TextInPlace DEF FirstLines
  <2> QED BY <1>5, <2>1 DEF InPlace
<1>7. Covered(p, Bolds(k), at) <=> Reached(i, Bolds(k))
  <2>1. \A r \in Bolds(k) : r[1] \in Int /\ r[2] \in Int
    BY RangesWithin
  <2>2. Covered(p, Bolds(k), at) <=> Reached(p - at, Bolds(k))
    BY <1>3, <2>1, CoveredReached
  <2> QED BY <1>3, <2>2
<1>8. Reached(i, Bolds(k)) <=> u.at > Width(k, u.line) - Texts[k][u.line].bold
  BY <1>3, <1>6, BoldReached
<1>9. WrittenBold(u) <=> u.at > Width(k, u.line) - Texts[k][u.line].bold
  BY <1>4, <1>5 DEF WrittenBold
<1> QED BY <1>1, <1>4, <1>7, <1>8, <1>9

\* The new headings are headings, and no other paragraphs of the text.
LEMMA NewHeading ==
    ASSUME NEW e, NEW f, NEW k \in Calls, Narrow(k), NEW raw, raw = FALSE,
           NEW t, t = Text(k, raw), NEW at \in Nat, at + Len(t) <= Len(e),
           Restyled(e, f, k, t, at), NEW i \in 1 .. Len(t)
    PROVE  f[at + i].heading <=> e[at + i].heading \/ WrittenHeading(f[at + i])
<1>1. PICK p, u, l : p = at + i /\ u = f[p] /\ l = u.line
  OBVIOUS
<1>2. t \in Seq(Parts(k, raw)) /\ Len(t) \in Nat /\ t[i] \in Parts(k, raw)
  BY TextType, LenProperties, ElementOfSeq
<1>3. p \in 1 .. Len(e) /\ p - at = i /\ p \in Int /\ i \in Nat
  <2>1. p \in Nat /\ p >= 1 /\ p <= at + Len(t)
    BY <1>1, <1>2
  <2> QED BY <1>1, <2>1
<1>4. /\ u.by = k /\ Said(u) = Said(t[i]) /\ Said(u) = Said(e[p])
      /\ u.heading <=> e[p].heading \/ InHeading(e, p, k, at)
  BY <1>1, <1>3 DEF Restyled
<1>5. u.line = t[i].line /\ u.at = t[i].at /\ u.raw = FALSE /\ e[p].at = u.at
  BY <1>2, <1>4 DEF Said, Parts
<1>6. \A j \in 1 .. Len(t) : InPlace(k, t[j], j)
  BY TextInPlace DEF FirstLines
<1>7. InPlace(k, u, i)
  BY <1>5, <1>6 DEF InPlace
<1>8. /\ l \in 1 .. LastLine(k) /\ u.at \in 0 .. Width(k, l) /\ Width(k, l) \in Nat
      /\ LineStart(k, l) \in Nat /\ LineEnd(k, l) \in Nat
      /\ u.at = 0 => i = LineEnd(k, l)
      /\ LineStart(k, l) < LineEnd(k, l)
  <2>1. l \in 1 .. LastLine(k) /\ u.at \in 0 .. Width(k, l)
    BY <1>1, <1>7 DEF InPlace
  <2>2. LineStart(k, l) \in Nat /\ Width(k, l) \in Nat
    BY <2>1, TextLines, LineStartNext
  <2>3. u.at = 0 => i = LineStart(k, l) + (Width(k, l) + 1)
    BY <1>1, <1>7 DEF InPlace
  <2> QED BY <2>1, <2>2, <2>3 DEF LineEnd
<1>9. \A q \in Int : Covered(q, Headings(k), at) <=> Reached(q - at, Headings(k))
  <2>1. \A r \in Headings(k) : r[1] \in Int /\ r[2] \in Int
    BY RangesWithin
  <2> QED BY <2>1, CoveredReached
<1>10. WrittenHeading(u) <=> u.at = 0 /\ Texts[k][l].heading
  BY <1>1, <1>4, <1>5 DEF WrittenHeading
<1>11. ASSUME u.at = 0, Texts[k][l].heading
       PROVE  InHeading(e, p, k, at)
  <2>1. Reached(i, Headings(k))
    <3>1. LineStart(k, l) < i /\ i <= LineEnd(k, l)
      BY <1>8, <1>11
    <3> QED BY <1>3, <1>8, <1>11, <3>1, HeadingReached
  <2>2. Covered(p, Headings(k), at)
    BY <1>3, <1>9, <2>1
  <2>3. p \in Paragraph(e, p)
    BY <1>3 DEF Paragraph
  <2> QED BY <1>5, <1>11, <2>2, <2>3 DEF InHeading
<1>12. ASSUME InHeading(e, p, k, at)
       PROVE  u.at = 0 /\ Texts[k][l].heading
  <2>1. u.at = 0
    BY <1>5, <1>12 DEF InHeading
  <2>2. PICK q \in Paragraph(e, p) : Covered(q, Headings(k), at)
    BY <1>12 DEF InHeading
  <2>3. q \in 1 .. p /\ \A j \in q .. p - 1 : e[j].at # 0
    BY <2>2 DEF Paragraph
  <2>4. PICK o : o = q - at
    OBVIOUS
  <2>5. o \in Int /\ Reached(o, Headings(k)) /\ o <= i
    BY <1>3, <1>9, <2>2, <2>3, <2>4
  <2>6. o \in Nat \ {0}
    <3>1. PICK r \in Headings(k) : r[1] < o /\ o <= r[2]
      BY <2>5 DEF Reached
    <3>2. r[1] \in Nat
      BY RangesWithin
    <3> QED BY <2>5, <3>1, <3>2
  <2>7. LineStart(k, l) < o
    <3> SUFFICES ASSUME o <= LineStart(k, l)
                 PROVE  FALSE
      BY <1>8, <2>5
    <3>1. PICK j : j = LineStart(k, l)
      OBVIOUS
    <3>2. j \in 1 .. Len(t) /\ j > 0 /\ j < i
      BY <1>2, <1>8, <2>1, <2>6, <3>1
    <3>3. t[j].at = 0
      BY <1>6, <1>8, <3>1, <3>2, NewlineBefore
    <3>4. e[at + j].at = 0
      <4>1. Said(e[at + j]) = Said(t[j])
        BY <3>2 DEF Restyled
      <4> QED BY <3>3, <4>1 DEF Said
    <3>5. at + j \in q .. p - 1
      BY <1>1, <1>3, <2>3, <2>4, <2>5, <3>1, <3>2
    <3> QED BY <2>3, <3>4, <3>5
  <2>8. o <= LineEnd(k, l)
    BY <1>8, <2>1, <2>5
  <2>9. Texts[k][l].heading
    BY <1>8, <2>5, <2>7, <2>8, HeadingReached
  <2> QED BY <2>1, <2>9
<1> QED BY <1>1, <1>4, <1>10, <1>11, <1>12

LEMMA SameUnit ==
    ASSUME NEW u \in Units, NEW v \in Units, u.by = v.by, Said(u) = Said(v),
           u.bold <=> v.bold, u.heading <=> v.heading
    PROVE  u = v
<1>1. u.line = v.line /\ u.at = v.at /\ u.raw = v.raw
  BY DEF Said
<1>2. u.bold = v.bold /\ u.heading = v.heading
  <2>1. u.bold \in BOOLEAN /\ v.bold \in BOOLEAN /\ u.heading \in BOOLEAN /\ v.heading \in BOOLEAN
    BY DEF Units
  <2> QED BY <2>1
<1> QED BY <1>1, <1>2 DEF Units

\* The styles of a text reach none of the units around it.
LEMMA OthersKeep ==
    ASSUME NEW e, e \in Seq(Units), NEW f, NEW k \in Calls, NEW raw, raw = FALSE,
           NEW t, t = Text(k, raw), NEW at \in Nat, at + Len(t) <= Len(e),
           Restyled(e, f, k, t, at)
    PROVE  \A p \in 1 .. Len(e) : p <= at \/ at + Len(t) < p => f[p] = e[p]
<1> SUFFICES ASSUME NEW p \in 1 .. Len(e), p <= at \/ at + Len(t) < p
             PROVE  f[p] = e[p]
  OBVIOUS
<1>1. PICK m : m = Len(t)
  OBVIOUS
<1>2. t \in Seq(Parts(k, raw)) /\ m \in Nat
  BY <1>1, TextType, LenProperties
<1>3. m >= LineEnd(k, LastLine(k)) /\ t[m].at = 0
  BY <1>1, TextInPlace DEF FirstLines
<1>4. /\ \A r \in Bolds(k) : r[1] \in Nat /\ r[2] \in Nat /\ r[2] <= m
      /\ \A r \in Headings(k) : r[1] \in Nat /\ r[2] \in Nat /\ r[2] <= m
  <2>1. LineEnd(k, LastLine(k)) \in Nat
    BY RangesWithin
  <2>2. /\ \A r \in Bolds(k) : r[1] \in Nat /\ r[2] \in Nat /\ r[2] < LineEnd(k, LastLine(k))
        /\ \A r \in Headings(k) : r[1] \in Nat /\ r[2] \in Nat /\ r[2] <= LineEnd(k, LastLine(k))
    BY RangesWithin
  <2> QED BY <1>2, <1>3, <2>1, <2>2
<1>5. /\ f[p].by = e[p].by /\ Said(f[p]) = Said(e[p])
      /\ f[p].bold <=> e[p].bold \/ Covered(p, Bolds(k), at)
      /\ f[p].heading <=> e[p].heading \/ InHeading(e, p, k, at)
  BY DEF Restyled
<1>6. f[p] \in Units /\ e[p] \in Units
  BY ElementOfSeq DEF Restyled
<1>7. \A q \in Int : /\ Covered(q, Bolds(k), at) => at < q /\ q <= at + m
                     /\ Covered(q, Headings(k), at) => at < q /\ q <= at + m
  BY <1>2, <1>4 DEF Covered
<1>8. p \in Int
  OBVIOUS
<1>9. ~Covered(p, Bolds(k), at)
  BY <1>1, <1>2, <1>7, <1>8
<1>10. ~InHeading(e, p, k, at)
  <2> SUFFICES ASSUME e[p].at = 0, NEW q \in Paragraph(e, p), Covered(q, Headings(k), at)
               PROVE  FALSE
    BY DEF InHeading
  <2>1. q \in 1 .. p /\ \A j \in q .. p - 1 : e[j].at # 0
    BY DEF Paragraph
  <2>2. at < q /\ q <= at + m /\ q \in Int
    BY <1>7, <2>1
  <2>3. at + m < p /\ m \in 1 .. Len(t)
    BY <1>1, <1>2, <1>8, <2>1, <2>2
  <2>4. e[at + m].at = 0
    <3>1. Said(e[at + m]) = Said(t[m])
      BY <2>3 DEF Restyled
    <3> QED BY <1>3, <3>1 DEF Said
  <2>5. at + m \in q .. p - 1
    BY <1>2, <1>8, <2>2, <2>3
  <2> QED BY <2>1, <2>4, <2>5
<1> QED BY <1>5, <1>6, <1>9, <1>10, SameUnit

LEMMA StyledLaid ==
    ASSUME NEW d, NEW gone \in BOOLEAN, Laid(d, gone), NEW k \in Calls, NEW raw, raw = FALSE,
           NEW t, t = Text(k, raw), NEW at \in Nat, at < Len(d),
           NEW gone2 \in BOOLEAN, gone2 <=> gone \/ at < Len(d) - 1
    PROVE  Laid(Styled(Inserted(d, t, at), k, at), gone2)
<1>1. PICK e, f, m : e = Inserted(d, t, at) /\ f = Styled(e, k, at) /\ m = Len(t)
  OBVIOUS
<1>2. raw \in BOOLEAN /\ Closed(d)
  BY DEF Laid
<1>3. Widened(d, e, m, at) /\ Unstyled(e, k, t, at, gone2)
  BY <1>1, <1>2, InsertedWidens
<1>4. Closed(e)
  BY <1>1, <1>2, InsertedSays
<1>5. Closed(f)
  BY <1>1, <1>4, StyledSays
<1>6. t \in Seq(Parts(k, raw)) /\ m \in Nat /\ Len(d) \in Nat
  BY <1>1, <1>2, TextType, LenProperties DEF Closed
<1>7. e \in Seq(Units) /\ Len(e) = Len(d) + m /\ at + m <= Len(e)
  BY <1>3, <1>6 DEF Widened
<1>8. Restyled(e, f, k, t, at)
  BY <1>1, <1>3, <1>7, StyledType DEF Restyled, Unstyled
<1>9. Widened(d, f, m, at)
  <2>1. f \in Seq(Units) /\ Len(f) = Len(d) + m
    BY <1>7, <1>8 DEF Restyled
  <2>2. \A q \in 1 .. Len(e) : q <= at \/ at + m < q => f[q] = e[q]
    <3>1. e \in Seq(Units) /\ at + Len(t) <= Len(e)
      BY <1>1, <1>7
    <3>2. \A q \in 1 .. Len(e) : q <= at \/ at + Len(t) < q => f[q] = e[q]
      BY <1>8, <3>1, OthersKeep
    <3> QED BY <1>1, <3>2
  <2>3. ASSUME NEW p \in 1 .. at
        PROVE  f[p] = d[p]
    <3>1. p \in 1 .. Len(e) /\ p <= at
      BY <1>6, <1>7
    <3>2. f[p] = e[p]
      BY <2>2, <3>1
    <3> QED BY <1>3, <3>2 DEF Widened
  <2>4. ASSUME NEW p \in at + 1 .. Len(d)
        PROVE  f[p + m] = d[p]
    <3>1. PICK q : q = p + m
      OBVIOUS
    <3>2. q \in 1 .. Len(e) /\ at + m < q
      BY <1>6, <1>7, <3>1
    <3>3. f[q] = e[q]
      BY <2>2, <3>2
    <3> QED BY <1>3, <3>1, <3>3 DEF Widened
  <2> QED BY <2>1, <2>3, <2>4 DEF Widened
<1>10. ASSUME NEW i \in 1 .. m
       PROVE  AsWritten(f[at + i], gone2)
  <2>1. f[at + i].by = k
    <3>1. at + i \in 1 .. Len(e)
      BY <1>6, <1>7
    <3> QED BY <1>1, <1>8, <3>1 DEF Restyled
  <2>2. ~gone2 => ~e[at + i].bold /\ ~e[at + i].heading
    BY <1>1, <1>3 DEF Unstyled
  <2>3. ASSUME Narrow(k)
        PROVE  /\ f[at + i].bold <=> e[at + i].bold \/ WrittenBold(f[at + i])
               /\ f[at + i].heading <=> e[at + i].heading \/ WrittenHeading(f[at + i])
    BY <1>1, <1>7, <1>8, <2>3, NewBold, NewHeading
  <2> QED BY <2>1, <2>2, <2>3 DEF AsWritten
<1>11. ~gone2 /\ m > 0 => ~f[at + m].bold
  <2> SUFFICES ASSUME ~gone2, m > 0
               PROVE  ~f[at + m].bold
    OBVIOUS
  <2>1. m \in 1 .. m /\ at + m \in 1 .. Len(e) /\ at + m \in Int
    BY <1>6, <1>7
  <2>2. f[at + m].bold <=> e[at + m].bold \/ Covered(at + m, Bolds(k), at)
    BY <1>8, <2>1 DEF Restyled
  <2>3. ~e[at + m].bold
    BY <1>1, <1>3, <2>1 DEF Unstyled
  <2>4. m >= LineEnd(k, LastLine(k)) /\ LineEnd(k, LastLine(k)) \in Nat
    BY <1>1, TextInPlace, RangesWithin DEF FirstLines
  <2>5. \A r \in Bolds(k) : r[2] \in Nat /\ r[2] < LineEnd(k, LastLine(k))
    BY RangesWithin
  <2>6. \A r \in Bolds(k) : ~(at + m <= at + r[2])
    BY <1>6, <2>4, <2>5
  <2>7. ~Covered(at + m, Bolds(k), at)
    BY <2>6 DEF Covered
  <2> QED BY <2>2, <2>3, <2>7
<1>12. NewAsWritten(f, m, at, gone2)
  BY <1>10, <1>11 DEF NewAsWritten
<1>13. Laid(f, gone2)
  BY <1>5, <1>6, <1>9, <1>12, WidenedLaid
<1> QED BY <1>1, <1>13

LEMMA BatchLaid ==
    ASSUME NEW d, NEW gone \in BOOLEAN, Laid(d, gone), NEW k \in Calls,
           index[k] \in Nat, index[k] < Len(d),
           NEW gone2 \in BOOLEAN, gone2 <=> gone \/ index[k] < Len(d) - 1
    PROVE  Laid(Batch(d, k), gone2)
<1>1. CASE mode[k] = "styled"
  <2>1. PICK raw, t : raw = FALSE /\ t = Text(k, raw)
    OBVIOUS
  <2>2. Batch(d, k) = Styled(Inserted(d, t, index[k]), k, index[k])
    BY <1>1, <2>1 DEF Batch
  <2> QED BY <2>1, <2>2, StyledLaid
<1>2. CASE mode[k] # "styled"
  <2>1. PICK raw, t : raw = TRUE /\ t = Text(k, raw)
    OBVIOUS
  <2>2. Batch(d, k) = Inserted(d, t, index[k])
    BY <1>2, <2>1 DEF Batch
  <2> QED BY <2>1, <2>2, RawLaid
<1> QED BY <1>1, <1>2

LEMMA PersonLaid ==
    ASSUME NEW d, NEW gone \in BOOLEAN, Laid(d, gone), NEW s \in Seq(Units), s = <<Typed>>
    PROVE  Laid(Joined(s, d), gone)
<1>1. PICK e, n : e = Joined(s, d) /\ n = Len(d)
  OBVIOUS
<1>2. /\ d \in Seq(Units) /\ n \in Nat \ {0} /\ d[n].at = 0 /\ d[n].by = "person"
      /\ Len(s) = 1 /\ s[1] = Typed
  BY <1>1 DEF Laid, Closed
<1>3. e \in Seq(Units) /\ Len(e) = 1 + n
  BY <1>1, <1>2, JoinedType
<1>4. e[1] = Typed /\ \A p \in 1 .. n : e[1 + p] = d[p]
  <2>1. \A i \in 1 .. Len(s) + Len(d) : Joined(s, d)[i] = IF i <= Len(s) THEN s[i] ELSE d[i - Len(s)]
    <3>1. s \in Seq(Units) /\ d \in Seq(Units)
      BY <1>2
    <3> QED BY <3>1, JoinedAt
  <2>2. \A i \in 1 .. 1 + n : e[i] = IF i <= 1 THEN s[i] ELSE d[i - 1]
    BY <1>1, <1>2, <2>1
  <2>3. e[1] = s[1]
    BY <1>2, <2>2
  <2>4. ASSUME NEW p \in 1 .. n
        PROVE  e[1 + p] = d[p]
    <3>1. PICK i : i = 1 + p
      OBVIOUS
    <3>2. i \in 1 .. 1 + n /\ ~(i <= 1) /\ i - 1 = p
      BY <1>2, <3>1
    <3> QED BY <2>2, <3>1, <3>2
  <2> QED BY <1>2, <2>3, <2>4
<1>5. Typed.by = "person" /\ Typed.bold = FALSE
  BY DEF Typed, Unit
<1>6. Closed(e)
  <2>1. e[1 + n] = d[n]
    BY <1>2, <1>4
  <2> QED BY <1>2, <1>3, <2>1 DEF Closed
<1>7. ASSUME NEW p \in 1 .. 1 + n
      PROVE  AsWritten(e[p], gone)
  <2>1. CASE p = 1
    <3>1. e[p].by \notin Calls
      BY <1>4, <1>5, <2>1, CallsAssumption
    <3> QED BY <3>1 DEF AsWritten
  <2>2. CASE p # 1
    <3>1. p - 1 \in 1 .. n /\ 1 + (p - 1) = p
      BY <1>2, <2>2
    <3>2. e[p] = d[p - 1]
      BY <1>4, <3>1
    <3> QED BY <1>1, <3>1, <3>2 DEF Laid
  <2> QED BY <2>1, <2>2
<1>8. ASSUME ~gone
      PROVE  ~e[1 + n].heading /\ ~e[n].bold
  <2>1. ~d[n].heading /\ (n > 1 => ~d[n - 1].bold)
    BY <1>1, <1>8 DEF Laid
  <2>2. n \in 1 .. n
    BY <1>2
  <2>3. CASE n = 1
    BY <1>4, <1>5, <2>1, <2>2, <2>3
  <2>4. CASE n # 1
    <3>1. n - 1 \in 1 .. n /\ 1 + (n - 1) = n /\ n > 1
      BY <1>2, <2>4
    <3>2. e[n] = d[n - 1]
      BY <1>4, <3>1
    <3> QED BY <1>4, <2>1, <2>2, <3>1, <3>2
  <2> QED BY <2>3, <2>4
<1>9. e[1 + n].by = "person"
  BY <1>2, <1>4
<1>10. Len(e) - 1 = n
  BY <1>2, <1>3
<1> QED BY <1>1, <1>3, <1>6, <1>7, <1>8, <1>9, <1>10 DEF Laid

LEMMA PersonRemovesLaid ==
    ASSUME NEW d, NEW gone \in BOOLEAN, Laid(d, gone), d[1].by = "person", d[1].at # 0
    PROVE  Laid(Tail(d), gone)
<1>1. PICK e, n : e = Tail(d) /\ n = Len(e)
  OBVIOUS
<1>2. Closed(d) /\ Closed(e)
  BY <1>1, PersonRemoves DEF Laid
<1>3. /\ d \in Seq(Units) /\ d # <<>> /\ Len(d) \in Nat /\ n \in Nat /\ n > 0
  <2>1. d \in Seq(Units) /\ Len(d) > 0 /\ e \in Seq(Units) /\ n > 0
    BY <1>1, <1>2 DEF Closed
  <2>2. d # <<>>
    BY <2>1
  <2> QED BY <1>1, <2>1, <2>2, LenProperties
<1>4. n = Len(d) - 1 /\ \A i \in 1 .. n : e[i] = d[i + 1]
  BY <1>1, <1>3, HeadTailProperties
<1>5. n + 1 = Len(d) /\ e[n] = d[n + 1]
  BY <1>3, <1>4
<1>6. ASSUME NEW i \in 1 .. n
      PROVE  AsWritten(e[i], gone)
  <2>1. i + 1 \in 1 .. Len(d)
    BY <1>3, <1>5
  <2> QED BY <1>4, <2>1 DEF Laid
<1>7. ASSUME ~gone
      PROVE  ~e[n].heading /\ (n > 1 => ~e[n - 1].bold)
  <2>1. ~d[n + 1].heading /\ (n + 1 > 1 => ~d[(n + 1) - 1].bold)
    BY <1>5, <1>7 DEF Laid
  <2>2. n > 1 => n - 1 \in 1 .. n /\ (n - 1) + 1 = n
    BY <1>3
  <2>3. n > 1 => e[n - 1] = d[n]
    BY <1>4, <2>2
  <2> QED BY <1>3, <1>5, <2>1, <2>3
<1>8. e[n].by = "person"
  BY <1>5 DEF Laid
<1> QED BY <1>1, <1>2, <1>6, <1>7, <1>8 DEF Laid
-------------------------------------------------------------------------------
\* The styles

\* A batch that lands keeps the document laid.
LEMMA DoneLaid ==
    ASSUME Kinds, Laid(doc, early), NEW k \in Calls, Fits(k), Done(k), early' \in BOOLEAN
    PROVE  Laid(doc', early')
<1>1. PICK d, gone, gone2 : d = doc /\ gone = early /\ gone2 = early'
  OBVIOUS
<1>2. /\ gone \in BOOLEAN /\ gone2 \in BOOLEAN /\ Laid(d, gone)
      /\ index[k] \in Nat /\ index[k] < Len(d)
  BY <1>1 DEF Kinds, Fits
<1>3. gone2 <=> gone \/ index[k] < Len(d) - 1
  BY <1>1 DEF Done, EndIndex
<1>4. Laid(Batch(d, k), gone2)
  BY <1>2, <1>3, BatchLaid
<1> QED BY <1>1, <1>4 DEF Done

LEMMA PersonStepLaid ==
    ASSUME Kinds, Laid(doc, early), Person
    PROVE  Laid(doc', early')
<1>1. early' = early /\ early \in BOOLEAN
  BY DEF Person, Kinds
<1>2. CASE doc' = <<Typed>> \o doc
  <2>1. Typed \in Units
    BY DEF Typed, Unit, Units
  <2>2. PICK s : s = <<Typed>>
    OBVIOUS
  <2>3. s \in Seq(Units)
    BY <2>1, <2>2
  <2>4. doc' = Joined(s, doc)
    BY <1>2, <2>2 DEF Joined
  <2>5. Laid(Joined(s, doc), early)
    BY <1>1, <2>2, <2>3, PersonLaid
  <2> QED BY <1>1, <2>4, <2>5
<1>3. CASE doc[1].by = "person" /\ doc[1].at # 0 /\ doc' = Tail(doc)
  <2>1. Laid(Tail(doc), early)
    BY <1>1, <1>3, PersonRemovesLaid
  <2> QED BY <1>1, <1>3, <2>1
<1> QED BY <1>2, <1>3 DEF Person

LEMMA AlwaysLaid == Spec => []Laid(doc, early)
<1>1. Init => Laid(doc, early)
  <2> SUFFICES ASSUME Init
               PROVE  Laid(doc, early)
    OBVIOUS
  <2>1. Closed(doc)
    BY InitKinds DEF Kinds
  <2>2. /\ Closing.by = "person" /\ Closing.heading = FALSE
    BY DEF Closing, Unit
  <2>3. Len(doc) = 1 /\ doc[1] = Closing
    BY DEF Init
  <2>4. \A p \in 1 .. Len(doc) : doc[p].by \notin Calls
    BY <2>2, <2>3, CallsAssumption
  <2> QED BY <2>1, <2>2, <2>3, <2>4 DEF Laid, AsWritten
<1>2. Kinds /\ Kinds' /\ Laid(doc, early) /\ [Next]_vars => Laid(doc, early)'
  <2> SUFFICES ASSUME Kinds, early' \in BOOLEAN, Laid(doc, early), [Next]_vars
               PROVE  Laid(doc', early')
    BY DEF Kinds, Laid, Closed, AsWritten
  <2>1. ASSUME NEW k \in Calls, AppendAnswered(k) \/ AppendUnanswered(k)
        PROVE  Laid(doc', early')
    <3>1. Fits(k) /\ Done(k)
      BY <2>1 DEF AppendAnswered, AppendUnanswered
    <3> QED BY <3>1, DoneLaid
  <2>2. ASSUME NEW k \in Calls,
               ReadEnd(k) \/ ReadFails(k) \/ AppendFails(k) \/ AppendRefused(k)
        PROVE  Laid(doc', early')
    <3>1. doc' = doc /\ early' = early
      BY <2>2 DEF ReadEnd, ReadFails, AppendFails, AppendRefused, RefusedDoc
    <3> QED BY <3>1
  <2>3. ASSUME Person
        PROVE  Laid(doc', early')
    BY <2>3, PersonStepLaid
  <2>4. ASSUME UNCHANGED vars
        PROVE  Laid(doc', early')
    <3>1. doc' = doc /\ early' = early
      BY <2>4 DEF vars
    <3> QED BY <3>1
  <2> QED BY <2>1, <2>2, <2>3, <2>4 DEF Next
<1> QED BY <1>1, <1>2, AlwaysKinds, PTL DEF Spec

\* Styles land on the characters they were written for: of a text without wide
\* characters each bold character and heading is styled, and nothing else of it is as
\* long as no batch has landed before the end (docs.py:137-205).
THEOREM StylesAreAsWritten == Spec => []StyledAsWritten
<1>1. Laid(doc, early) => StyledAsWritten
  <2> SUFFICES ASSUME Laid(doc, early), NEW p \in DOMAIN doc
               PROVE  AsWritten(doc[p], early)
    BY DEF StyledAsWritten, AsWritten
  <2>1. doc \in Seq(Units)
    BY DEF Laid, Closed
  <2>2. p \in 1 .. Len(doc)
    BY <2>1, LenProperties
  <2> QED BY <2>2 DEF Laid
<1> QED BY <1>1, AlwaysLaid, PTL

================================================================================
