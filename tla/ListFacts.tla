------------------------------ MODULE ListFacts ------------------------------
(***************************************************************************)
(* What the operators on sequences do to the elements of a sequence, for   *)
(* the invariants that say something of every element of a queue, and the  *)
(* smallest and the largest of a set of numbers.                           *)
(***************************************************************************)
EXTENDS Lists, SequencesExt, TLAPS, SequenceTheorems, WellFoundedInduction

\* A sequence, of whatever elements.
IsList(q) == q \in Seq(Range(q))

\* A sequence over any set is one over its own elements, which are in that set.
LEMMA SeqIsList ==
    ASSUME NEW S, NEW q \in Seq(S)
    PROVE  /\ IsList(q) /\ Range(q) \subseteq S /\ DOMAIN q = 1..Len(q) /\ Len(q) \in Nat
           /\ Range(q) = {q[i] : i \in 1..Len(q)}
<1>1. DOMAIN q = 1..Len(q) /\ Len(q) \in Nat /\ \A i \in 1..Len(q) : q[i] \in S
  OBVIOUS
<1>2. Range(q) = {q[i] : i \in 1..Len(q)}
  BY <1>1 DEF Range
<1>3. \A i \in 1..Len(q) : q[i] \in Range(q)
  BY <1>2
<1>4. q \in Seq(Range(q))
  BY <1>1, <1>3
<1> QED BY <1>1, <1>2, <1>4 DEF IsList

\* A list is a function on 1..Len.
LEMMA ListShape ==
    ASSUME NEW q, IsList(q)
    PROVE  /\ DOMAIN q = 1..Len(q) /\ Len(q) \in Nat
           /\ Range(q) = {q[i] : i \in 1..Len(q)}
  BY SeqIsList DEF IsList

\* The empty list has no element.
LEMMA EmptyList == IsList(<<>>) /\ Range(<<>>) = {} /\ DOMAIN <<>> = {}
  BY DEF IsList, Range

\* Append adds the element.
LEMMA AppendList ==
    ASSUME NEW q, IsList(q), NEW x
    PROVE  IsList(Append(q, x)) /\ Range(Append(q, x)) \subseteq Range(q) \cup {x}
<1> DEFINE S == Range(q) \cup {x}
<1>1. q \in Seq(S) /\ x \in S
  BY DEF IsList
<1> HIDE DEF S
<1>2. Append(q, x) \in Seq(S)
  BY <1>1
<1> QED BY <1>2, SeqIsList DEF S

\* A concatenation has the elements of both.
LEMMA ConcatList ==
    ASSUME NEW q, IsList(q), NEW r, IsList(r)
    PROVE  IsList(q \o r) /\ Range(q \o r) = Range(q) \cup Range(r)
<1> DEFINE S == Range(q) \cup Range(r)
<1>1. q \in Seq(S) /\ r \in Seq(S)
  BY DEF IsList
<1> HIDE DEF S
<1>2. q \o r \in Seq(S)
  BY <1>1
<1>3. /\ Len(q) \in Nat /\ Len(r) \in Nat /\ Len(q \o r) = Len(q) + Len(r)
      /\ \A i \in 1..Len(q) : (q \o r)[i] = q[i]
      /\ \A i \in 1..Len(r) : (q \o r)[Len(q) + i] = r[i]
  BY <1>1
<1>4. /\ Range(q) = {q[i] : i \in 1..Len(q)} /\ Range(r) = {r[i] : i \in 1..Len(r)}
      /\ Range(q \o r) = {(q \o r)[i] : i \in 1..Len(q \o r)}
  BY <1>2, SeqIsList, ListShape
<1>5. Range(q) \subseteq Range(q \o r)
  BY <1>3, <1>4
<1>6. ASSUME NEW i \in 1..Len(r)
      PROVE  r[i] \in Range(q \o r)
  <2>1. Len(q) + i \in 1..Len(q \o r)
    BY <1>3
  <2> QED BY <1>3, <1>4, <2>1
<1>7. Range(r) \subseteq Range(q \o r)
  BY <1>4, <1>6
<1> QED BY <1>2, <1>5, <1>7, SeqIsList DEF S

\* The head is an element, and the tail has no others.
LEMMA TailList ==
    ASSUME NEW q, IsList(q), q # <<>>
    PROVE  IsList(Tail(q)) /\ Range(Tail(q)) \subseteq Range(q) /\ Head(q) \in Range(q)
<1> DEFINE S == Range(q)
<1>1. q \in Seq(S)
  BY DEF IsList
<1> HIDE DEF S
<1>2. Tail(q) \in Seq(S) /\ Head(q) \in S
  BY <1>1
<1> QED BY <1>2, SeqIsList DEF S

\* Nothing is behind the head of a list of one element, and only of such a list.
LEMMA TailOfOne ==
    ASSUME NEW q, IsList(q), q # <<>>
    PROVE  Tail(q) = <<>> <=> Len(q) = 1
<1> DEFINE S == Range(q)
<1>1. q \in Seq(S)
  BY DEF IsList
<1> HIDE DEF S
<1>2. Tail(q) \in Seq(S) /\ Len(Tail(q)) = Len(q) - 1 /\ Len(q) \in Nat
  BY <1>1, HeadTailProperties
<1>3. Tail(q) = <<>> <=> Len(Tail(q)) = 0
  BY <1>2, EmptySeq
<1> QED BY <1>2, <1>3

\* So has a part of the sequence.
LEMMA PartList ==
    ASSUME NEW q, IsList(q), NEW m \in Nat \ {0}, NEW n \in 0..Len(q)
    PROVE  IsList(SubSeq(q, m, n)) /\ Range(SubSeq(q, m, n)) \subseteq Range(q)
<1> DEFINE S == Range(q)
<1>1. q \in Seq(S)
  BY DEF IsList
<1> HIDE DEF S
<1>2. Len(q) \in Nat /\ n \in Nat /\ n <= Len(q) /\ m >= 1
  BY <1>1
<1>3. \A i \in m..n : i \in 1..Len(q)
  BY <1>2
<1>4. SubSeq(q, m, n) \in Seq(S)
  BY <1>1, <1>2, <1>3, SubSeqProperties
<1> QED BY <1>4, SeqIsList DEF S

\* A list of one element.
LEMMA OneList ==
    ASSUME NEW x
    PROVE  IsList(<<x>>) /\ Range(<<x>>) = {x}
<1>1. <<x>> \in Seq({x}) /\ Len(<<x>>) = 1 /\ <<x>>[1] = x
  OBVIOUS
<1>2. IsList(<<x>>) /\ Range(<<x>>) = {<<x>>[j] : j \in 1..1}
  BY <1>1, SeqIsList
<1> QED BY <1>1, <1>2

\* A list whose elements are replaced one by one.
LEMMA ReplacedList ==
    ASSUME NEW q, IsList(q), NEW r, DOMAIN r = DOMAIN q, r = [i \in DOMAIN q |-> r[i]]
    PROVE  IsList(r) /\ Len(r) = Len(q)
<1>1. DOMAIN q = 1..Len(q) /\ Len(q) \in Nat
  BY ListShape
<1>2. \A i \in 1..Len(q) : r[i] \in Range(r)
  BY <1>1 DEF Range
<1>3. r \in [1..Len(q) -> Range(r)]
  BY <1>1, <1>2
<1>4. r \in Seq(Range(r)) /\ Len(r) = Len(q)
  BY <1>1, <1>3
<1> QED BY <1>4 DEF IsList

\* A list of two elements.
LEMMA PairList ==
    ASSUME NEW x, NEW y
    PROVE  IsList(<<x, y>>) /\ Range(<<x, y>>) = {x, y}
<1>1. <<x, y>> \in Seq({x, y}) /\ Len(<<x, y>>) = 2 /\ <<x, y>>[1] = x /\ <<x, y>>[2] = y
  OBVIOUS
<1>2. IsList(<<x, y>>) /\ Range(<<x, y>>) = {<<x, y>>[j] : j \in 1..2}
  BY <1>1, SeqIsList
<1>3. 1..2 = {1, 2}
  OBVIOUS
<1> QED BY <1>1, <1>2, <1>3

\* A function on 1..n.
LEMMA MadeList ==
    ASSUME NEW n \in Nat, NEW q, DOMAIN q = 1..n, q = [i \in 1..n |-> q[i]]
    PROVE  IsList(q) /\ Range(q) = {q[i] : i \in 1..n}
<1>1. \A i \in 1..n : q[i] \in Range(q)
  BY DEF Range
<1>2. q \in Seq(Range(q)) /\ Len(q) = n
  BY <1>1
<1>3. Range(q) = {q[i] : i \in 1..n}
  BY DEF Range
<1> QED BY <1>2, <1>3 DEF IsList

\* What is appended stands behind the elements that were there.
LEMMA AppendShape ==
    ASSUME NEW q, IsList(q), NEW x
    PROVE  LET r == Append(q, x)
           IN  /\ IsList(r) /\ DOMAIN r = 1..(Len(q) + 1) /\ Len(r) = Len(q) + 1
               /\ r[Len(q) + 1] = x
               /\ \A i \in 1..Len(q) : r[i] = q[i] /\ i \in DOMAIN q
<1> DEFINE S == Range(q) \cup {x}
<1>1. q \in Seq(S) /\ x \in S
  BY DEF IsList
<1> HIDE DEF S
<1> QED BY <1>1, AppendList

\* A list of four elements has them.
LEMMA QuadList ==
    ASSUME NEW a, NEW b, NEW c, NEW d
    PROVE  IsList(<<a, b, c, d>>) /\ {a, b, c, d} \subseteq Range(<<a, b, c, d>>)
<1> DEFINE q == <<a, b, c, d>>
<1>1. q \in Seq({a, b, c, d}) /\ Len(q) = 4 /\ q[1] = a /\ q[2] = b /\ q[3] = c /\ q[4] = d
  OBVIOUS
<1> HIDE DEF q
<1>2. IsList(q) /\ Range(q) = {q[j] : j \in 1..4}
  BY <1>1, SeqIsList
<1>3. {q[1], q[2], q[3], q[4]} \subseteq Range(q)
  BY <1>2
<1> QED BY <1>1, <1>2, <1>3 DEF q

\* A set of numbers has a smallest one.
LEMMA SmallestExists ==
    ASSUME NEW S, S \subseteq Nat, S # {}
    PROVE  \E x \in S : \A y \in S : x <= y
<1> DEFINE Less == OpToRel(<, Nat)
<1>1. IsWellFoundedOn(Less, Nat)
  BY NatLessThanWellFounded
<1>2. \A x, y \in Nat : x < y => <<x, y>> \in Less
  BY DEF OpToRel
<1> HIDE DEF Less
<1>3. PICK x \in S : \A y \in S : ~ (<<y, x>> \in Less)
  BY <1>1, WFMin
<1>4. ASSUME NEW y \in S
      PROVE  x <= y
  <2>1. x \in Nat /\ y \in Nat
    OBVIOUS
  <2>2. ~ (y < x)
    BY <1>2, <1>3, <2>1
  <2> QED BY <2>1, <2>2
<1> QED BY <1>4

\* A bounded set of numbers has a largest one.
LEMMA LargestExists ==
    ASSUME NEW n \in Nat, NEW S, S \subseteq 0..n, S # {}
    PROVE  \E x \in S : \A y \in S : y <= x
<1> DEFINE T == {n - x : x \in S}
<1>1. T \subseteq Nat /\ T # {}
  <2>1. \A x \in S : n - x \in Nat
    OBVIOUS
  <2>2. PICK x : x \in S
    OBVIOUS
  <2>3. n - x \in T
    BY <2>2
  <2> QED BY <2>1, <2>3
<1>2. PICK d \in T : \A e \in T : d <= e
  BY <1>1, SmallestExists
<1>3. PICK x \in S : d = n - x
  BY <1>2
<1>4. ASSUME NEW y \in S
      PROVE  y <= x
  <2>1. n - x <= n - y
    BY <1>2, <1>3
  <2> QED BY <1>3, <2>1
<1> QED BY <1>3, <1>4

-----------------------------------------------------------------------------
\* Where the elements of the tail stand.
LEMMA TailShape ==
    ASSUME NEW S, NEW q \in Seq(S), q # <<>>
    PROVE  /\ Tail(q) \in Seq(S) /\ Len(q) \in Nat \ {0} /\ Len(Tail(q)) = Len(q) - 1
           /\ DOMAIN q = 1..Len(q) /\ DOMAIN Tail(q) = 1..Len(Tail(q))
           /\ 1 \in DOMAIN q /\ Head(q) = q[1] /\ q[1] \in S
           /\ \A j \in DOMAIN Tail(q) : j + 1 \in DOMAIN q /\ Tail(q)[j] = q[j + 1]
           /\ \A j \in DOMAIN q : j # 1 => j - 1 \in DOMAIN Tail(q) /\ Tail(q)[j - 1] = q[j]
<1>1. /\ Tail(q) \in Seq(S) /\ Len(q) \in Nat \ {0} /\ Len(Tail(q)) = Len(q) - 1
      /\ DOMAIN q = 1..Len(q) /\ DOMAIN Tail(q) = 1..Len(Tail(q))
      /\ \A j \in 1..(Len(q) - 1) : Tail(q)[j] = q[j + 1]
  OBVIOUS
<1>2. 1 \in DOMAIN q /\ Head(q) = q[1] /\ q[1] \in S
  BY <1>1
<1>3. ASSUME NEW j \in DOMAIN Tail(q) PROVE j + 1 \in DOMAIN q /\ Tail(q)[j] = q[j + 1]
  BY <1>1
<1>4. ASSUME NEW j \in DOMAIN q, j # 1
      PROVE  j - 1 \in DOMAIN Tail(q) /\ Tail(q)[j - 1] = q[j]
  <2>1. j - 1 \in 1..(Len(q) - 1) /\ (j - 1) + 1 = j
    BY <1>1, <1>4
  <2> QED BY <1>1, <2>1
<1> QED BY <1>1, <1>2, <1>3, <1>4

\* Where the elements of a concatenation stand.
LEMMA ConcatShape ==
    ASSUME NEW S, NEW q \in Seq(S), NEW r \in Seq(S)
    PROVE  LET t == q \o r
           IN  /\ t \in Seq(S) /\ Len(q) \in Nat /\ Len(r) \in Nat /\ Len(t) = Len(q) + Len(r)
               /\ DOMAIN q = 1..Len(q) /\ DOMAIN r = 1..Len(r) /\ DOMAIN t = 1..Len(t)
               /\ \A j \in DOMAIN q : j \in DOMAIN t /\ t[j] = q[j]
               /\ \A c \in DOMAIN r : Len(q) + c \in DOMAIN t /\ t[Len(q) + c] = r[c]
               /\ \A j \in DOMAIN t : \/ j \in DOMAIN q
                                      \/ \E c \in DOMAIN r : j = Len(q) + c
<1> DEFINE t == q \o r
<1>1. /\ t \in Seq(S) /\ Len(q) \in Nat /\ Len(r) \in Nat /\ Len(t) = Len(q) + Len(r)
      /\ DOMAIN q = 1..Len(q) /\ DOMAIN r = 1..Len(r) /\ DOMAIN t = 1..Len(t)
      /\ \A j \in 1..Len(q) : t[j] = q[j]
      /\ \A c \in 1..Len(r) : t[Len(q) + c] = r[c]
  OBVIOUS
<1> HIDE DEF t
<1>2. \A j \in DOMAIN q : j \in DOMAIN t /\ t[j] = q[j]
  BY <1>1
<1>3. \A c \in DOMAIN r : Len(q) + c \in DOMAIN t /\ t[Len(q) + c] = r[c]
  BY <1>1
<1>4. ASSUME NEW j \in DOMAIN t, j \notin DOMAIN q
      PROVE  \E c \in DOMAIN r : j = Len(q) + c
  <2>1. j - Len(q) \in DOMAIN r /\ j = Len(q) + (j - Len(q))
    BY <1>1, <1>4
  <2> QED BY <2>1
<1> QED BY <1>1, <1>2, <1>3, <1>4 DEF t

-----------------------------------------------------------------------------
(* Lists: one element less, the same elements in the same order *)

\* A list without the first occurrence of an element, which occurs once.
LEMMA RemovedShape ==
    ASSUME NEW S, NEW q \in Seq(S), IsInjective(q), NEW x \in Range(q)
    PROVE  LET r == RemoveFirst(q, x)
           IN  /\ r \in Seq(S) /\ IsInjective(r) /\ Range(r) = Range(q) \ {x}
               /\ \E p \in 1..Len(q) :
                     /\ q[p] = x /\ Len(r) = Len(q) - 1
                     /\ \A i \in 1..Len(r) : r[i] = IF i < p THEN q[i] ELSE q[i + 1]
<1> DEFINE I == {i \in 1..Len(q) : q[i] = x}
           p == SelectInSeq(q, LAMBDA v : v = x)
           r == RemoveFirst(q, x)
<1>1. Len(q) \in Nat /\ DOMAIN q = 1..Len(q) /\ \A i \in 1..Len(q) : q[i] \in S
  OBVIOUS
<1>2. I # {} /\ I \subseteq 1..Len(q)
  BY <1>1 DEF Range
<1>3. p = Min(I)
  BY <1>2 DEF SelectInSeq
<1>4. p \in I
  <2> HIDE DEF I, p
  <2>1. I \subseteq Nat
    BY <1>1, <1>2
  <2>2. \E y \in I : \A z \in I : y <= z
    BY <1>2, <2>1, SmallestExists
  <2> QED BY <1>3, <2>2 DEF Min
<1>5. p \in 1..Len(q) /\ q[p] = x
  BY <1>4
<1>6. r = RemoveAt(q, p)
  BY <1>5 DEF RemoveFirst
<1> HIDE DEF I, p
<1>7. r = SubSeq(q, 1, p - 1) \o SubSeq(q, p + 1, Len(q))
  BY <1>6 DEF RemoveAt
<1> DEFINE a == SubSeq(q, 1, p - 1)
           b == SubSeq(q, p + 1, Len(q))
<1>8. a \in Seq(S) /\ Len(a) = p - 1 /\ \A i \in 1..(p - 1) : a[i] = q[i]
  BY <1>1, <1>5
<1>9. b \in Seq(S) /\ Len(b) = Len(q) - p /\ \A i \in 1..(Len(q) - p) : b[i] = q[p + i]
  <2>1. \A i \in (p + 1)..Len(q) : i \in 1..Len(q)
    BY <1>1, <1>5
  <2>2. /\ b \in Seq(S) /\ Len(b) = IF p + 1 <= Len(q) THEN Len(q) - (p + 1) + 1 ELSE 0
        /\ \A i \in 1..(Len(q) - (p + 1) + 1) : b[i] = q[(p + 1) + i - 1]
    BY <1>1, <1>5, <2>1, SubSeqProperties
  <2>3. Len(b) = Len(q) - p
    <3>1. p + 1 <= Len(q) => Len(q) - (p + 1) + 1 = Len(q) - p
      BY <1>1, <1>5
    <3>2. ~(p + 1 <= Len(q)) => 0 = Len(q) - p
      <4>1. \A m \in Nat : \A k \in 1..m : ~(k + 1 <= m) => 0 = m - k
        OBVIOUS
      <4> QED BY <1>1, <1>5, <4>1
    <3> HIDE DEF b
    <3> QED BY <2>2, <3>1, <3>2
  <2>4. ASSUME NEW i \in 1..(Len(q) - p) PROVE b[i] = q[p + i]
    <3>1. i \in 1..(Len(q) - (p + 1) + 1) /\ (p + 1) + i - 1 = p + i
      BY <1>1, <1>5
    <3> HIDE DEF b
    <3> QED BY <2>2, <3>1
  <2> QED BY <2>2, <2>3, <2>4
<1> HIDE DEF r, a, b
<1>10. /\ r \in Seq(S) /\ Len(r) = Len(q) - 1 /\ DOMAIN r = 1..Len(r)
       /\ \A i \in 1..Len(a) : r[i] = a[i]
       /\ \A i \in 1..Len(b) : r[Len(a) + i] = b[i]
  <2>0. a \in Seq(S) /\ b \in Seq(S)
    BY <1>8, <1>9
  <2>1. /\ a \o b \in Seq(S) /\ Len(a \o b) = Len(a) + Len(b) /\ DOMAIN (a \o b) = 1..Len(a \o b)
        /\ \A i \in 1..Len(a) : (a \o b)[i] = a[i]
        /\ \A i \in 1..Len(b) : (a \o b)[Len(a) + i] = b[i]
    BY <2>0
  <2>2. r = a \o b
    BY <1>7 DEF a, b
  <2>3. Len(a) + Len(b) = Len(q) - 1
    <3>1. (p - 1) + (Len(q) - p) = Len(q) - 1
      BY <1>1, <1>5
    <3> QED BY <1>8, <1>9, <3>1
  <2> QED BY <2>1, <2>2, <2>3
<1>11. ASSUME NEW i \in 1..Len(r)
       PROVE  r[i] = IF i < p THEN q[i] ELSE q[i + 1]
  <2>1. CASE i < p
    <3>1. i \in 1..(p - 1) /\ i \in 1..Len(a)
      BY <1>5, <1>8, <1>10, <2>1
    <3> QED BY <1>8, <1>10, <2>1, <3>1
  <2>2. CASE ~(i < p)
    <3>1. i - (p - 1) \in 1..(Len(q) - p) /\ (p - 1) + (i - (p - 1)) = i /\ p + (i - (p - 1)) = i + 1
      BY <1>1, <1>5, <1>10, <2>2
    <3>2. r[(p - 1) + (i - (p - 1))] = b[i - (p - 1)] /\ b[i - (p - 1)] = q[p + (i - (p - 1))]
      BY <1>8, <1>9, <1>10, <3>1
    <3> QED BY <2>2, <3>1, <3>2
  <2> QED BY <2>1, <2>2
<1> DEFINE old(i) == IF i < p THEN i ELSE i + 1
<1>12. \A i \in 1..Len(r) : old(i) \in 1..Len(q) /\ old(i) # p /\ r[i] = q[old(i)]
  BY <1>1, <1>5, <1>10, <1>11
<1>13. \A i, j \in 1..Len(r) : old(i) = old(j) => i = j
  BY <1>1, <1>5, <1>10
<1>14. IsInjective(r)
  <2> SUFFICES ASSUME NEW i \in 1..Len(r), NEW j \in 1..Len(r), r[i] = r[j] PROVE i = j
    BY <1>10 DEF IsInjective
  <2>1. old(i) = old(j)
    <3> HIDE DEF old
    <3> QED BY <1>1, <1>12 DEF IsInjective
  <2> HIDE DEF old
  <2> QED BY <1>13, <2>1
<1>15. Range(r) \subseteq Range(q) \ {x}
  <2> SUFFICES ASSUME NEW i \in 1..Len(r) PROVE r[i] \in Range(q) \ {x}
    BY <1>10 DEF Range
  <2> HIDE DEF old
  <2>1. old(i) \in DOMAIN q /\ p \in DOMAIN q /\ old(i) # p /\ r[i] = q[old(i)]
    BY <1>1, <1>5, <1>12
  <2> QED BY <1>5, <2>1 DEF IsInjective, Range
<1>16. Range(q) \ {x} \subseteq Range(r)
  <2> SUFFICES ASSUME NEW k \in 1..Len(q), q[k] # x PROVE q[k] \in Range(r)
    BY <1>1 DEF Range
  <2>1. k # p
    BY <1>5
  <2>2. PICK i \in 1..Len(r) : old(i) = k
    <3>1. CASE k < p
      <4>1. k \in 1..Len(r) /\ old(k) = k
        BY <1>1, <1>5, <1>10, <3>1
      <4> HIDE DEF old
      <4> QED BY <4>1
    <3>2. CASE k > p
      <4>1. k - 1 \in 1..Len(r) /\ old(k - 1) = k
        BY <1>1, <1>5, <1>10, <3>2
      <4> HIDE DEF old
      <4> QED BY <4>1
    <3> QED BY <1>1, <1>5, <2>1, <3>1, <3>2
  <2> HIDE DEF old
  <2>3. i \in DOMAIN r /\ r[i] = q[k]
    BY <1>10, <1>12, <2>2
  <2> QED BY <2>3 DEF Range
<1> QED BY <1>5, <1>10, <1>11, <1>14, <1>15, <1>16 DEF r

\* A list that puts the elements of an injective one at increasing places does not put
\* any of them before its own place.
LEMMA NotBefore ==
    ASSUME NEW n \in Nat, NEW m \in Nat, NEW f \in [1..n -> 1..m],
           \A i, j \in 1..n : i < j => f[i] < f[j]
    PROVE  \A i \in 1..n : i <= f[i]
<1> DEFINE Bad == {i \in 1..n : ~(i <= f[i])}
<1> SUFFICES ASSUME Bad # {} PROVE FALSE
  OBVIOUS
<1>1. PICK i \in Bad : \A k \in Bad : i <= k
  <2>1. Bad \subseteq Nat
    OBVIOUS
  <2> HIDE DEF Bad
  <2> QED BY <2>1, SmallestExists
<1>2. i \in 1..n /\ f[i] < i /\ f[i] \in 1..m
  <2>1. i \in 1..n /\ ~(i <= f[i]) /\ f[i] \in 1..m
    OBVIOUS
  <2> QED BY <2>1
<1>3. i - 1 \in 1..n /\ i - 1 < i
  BY <1>2
<1>4. f[i - 1] < f[i] /\ f[i - 1] \in 1..m
  BY <1>2, <1>3
<1>5. i - 1 \in Bad
  BY <1>2, <1>3, <1>4
<1> HIDE DEF Bad
<1> QED BY <1>1, <1>2, <1>3, <1>5

\* Two lists of the same elements, each once, in the same order are the same list.
LEMMA SameOrder ==
    ASSUME NEW S, NEW q \in Seq(S), NEW r \in Seq(S), IsInjective(q), IsInjective(r),
           Range(q) = Range(r),
           \A i, j \in DOMAIN q : \A m, n \in DOMAIN r :
               i < j /\ r[m] = q[i] /\ r[n] = q[j] => m < n
    PROVE  Len(q) = Len(r) /\ q = r
<1>1. /\ Len(q) \in Nat /\ Len(r) \in Nat /\ DOMAIN q = 1..Len(q) /\ DOMAIN r = 1..Len(r)
  OBVIOUS
<1>2. \A i \in 1..Len(q) : \E m \in 1..Len(r) : r[m] = q[i]
  <2> TAKE i \in 1..Len(q)
  <2>1. q[i] \in Range(r)
    BY <1>1 DEF Range
  <2> QED BY <1>1, <2>1 DEF Range
<1>3. \A m \in 1..Len(r) : \E i \in 1..Len(q) : q[i] = r[m]
  <2> TAKE m \in 1..Len(r)
  <2>1. r[m] \in Range(q)
    BY <1>1 DEF Range
  <2> QED BY <1>1, <2>1 DEF Range
<1> DEFINE f == [i \in 1..Len(q) |-> CHOOSE m \in 1..Len(r) : r[m] = q[i]]
           g == [m \in 1..Len(r) |-> CHOOSE i \in 1..Len(q) : q[i] = r[m]]
<1>4. /\ f \in [1..Len(q) -> 1..Len(r)] /\ \A i \in 1..Len(q) : r[f[i]] = q[i]
  BY <1>2
<1>5. /\ g \in [1..Len(r) -> 1..Len(q)] /\ \A m \in 1..Len(r) : q[g[m]] = r[m]
  BY <1>3
<1> HIDE DEF f, g
<1>6. \A i, j \in 1..Len(q) : i < j => f[i] < f[j]
  BY <1>1, <1>4
<1>7. \A i \in 1..Len(q) : g[f[i]] = i
  BY <1>1, <1>4, <1>5 DEF IsInjective
<1>8. \A m \in 1..Len(r) : f[g[m]] = m
  BY <1>1, <1>4, <1>5 DEF IsInjective
<1>9. ASSUME NEW m \in 1..Len(r), NEW n \in 1..Len(r), m < n PROVE g[m] < g[n]
  <2>1. g[m] \in 1..Len(q) /\ g[n] \in 1..Len(q) /\ f[g[m]] = m /\ f[g[n]] = n
    BY <1>5, <1>8
  <2>2. ~(g[n] < g[m]) /\ g[n] # g[m]
    BY <1>1, <1>6, <1>9, <2>1
  <2> QED BY <1>1, <2>1, <2>2
<1>10. \A i \in 1..Len(q) : i <= f[i]
  BY <1>1, <1>4, <1>6, NotBefore
<1>11. \A m \in 1..Len(r) : m <= g[m]
  BY <1>1, <1>5, <1>9, NotBefore
<1>12. \A i \in 1..Len(q) : f[i] = i
  <2> TAKE i \in 1..Len(q)
  <2>1. i <= f[i] /\ f[i] <= g[f[i]] /\ g[f[i]] = i /\ f[i] \in 1..Len(r)
    BY <1>4, <1>7, <1>10, <1>11
  <2> QED BY <1>1, <2>1
<1>13. Len(q) <= Len(r)
  <2>1. CASE Len(q) = 0
    BY <1>1, <2>1
  <2>2. CASE Len(q) # 0
    <3>1. Len(q) \in 1..Len(q)
      BY <1>1, <2>2
    <3>2. Len(q) \in 1..Len(r)
      BY <1>4, <1>12, <3>1
    <3> QED BY <1>1, <3>2
  <2> QED BY <2>1, <2>2
<1>14. Len(r) <= Len(q)
  <2>1. CASE Len(r) = 0
    BY <1>1, <2>1
  <2>2. CASE Len(r) # 0
    <3>1. Len(r) \in 1..Len(r)
      BY <1>1, <2>2
    <3>2. Len(r) <= g[Len(r)] /\ g[Len(r)] \in 1..Len(q)
      BY <1>5, <1>11, <3>1
    <3> QED BY <1>1, <3>2
  <2> QED BY <2>1, <2>2
<1>15. Len(q) = Len(r)
  <2>1. \A a, b \in Nat : a <= b /\ b <= a => a = b
    OBVIOUS
  <2>2. Len(q) \in Nat /\ Len(r) \in Nat
    BY <1>1
  <2> QED BY <1>13, <1>14, <2>1, <2>2, Zenon
<1>16. \A i \in 1..Len(q) : q[i] = r[i]
  BY <1>4, <1>12
<1>17. q = [i \in 1..Len(q) |-> q[i]] /\ r = [i \in 1..Len(r) |-> r[i]]
  OBVIOUS
<1> QED BY <1>15, <1>16, <1>17

-----------------------------------------------------------------------------
(* Events on their way: kinds of them are sets *)

\* What a queue has, which kind it ends with and which kind comes before which.
Meets(q, T) == \E j \in DOMAIN q : q[j] \in T

EndsIn(q, T, G) == \A j \in DOMAIN q : q[j] \in T \ G => \E k \in DOMAIN q : k > j /\ q[k] \in T

AllBefore(q, T, U) == \A m, n \in DOMAIN q : q[m] \in T /\ q[n] \in U => m < n

\* T, a part of A, is the first of A if it comes at all.
FirstIn(q, T, A) == \A m, n \in DOMAIN q : q[m] \in T /\ q[n] \in A => m <= n

\* What is left of it when the oldest event has been taken ...
LEMMA QueueTaken ==
    ASSUME NEW S, NEW q \in Seq(S), q # <<>>
    PROVE  LET e == Head(q)
               t == Tail(q)
           IN  /\ e \in S /\ t \in Seq(S)
               /\ \A T : Meets(q, T) <=> e \in T \/ Meets(t, T)
               /\ \A T, G : EndsIn(q, T, G) => EndsIn(t, T, G) /\ (e \in T \ G => Meets(t, T))
               /\ \A T, U : AllBefore(q, T, U) => AllBefore(t, T, U) /\ (e \in U => ~Meets(t, T))
               /\ \A T, A : FirstIn(q, T, A) => FirstIn(t, T, A) /\ (e \in A => ~Meets(t, T))
<1> DEFINE e == Head(q)
           t == Tail(q)
<1>1. /\ t \in Seq(S) /\ Len(q) \in Nat \ {0} /\ Len(t) = Len(q) - 1
      /\ DOMAIN q = 1..Len(q) /\ DOMAIN t = 1..Len(t)
      /\ 1 \in DOMAIN q /\ e = q[1] /\ q[1] \in S
      /\ \A j \in DOMAIN t : j + 1 \in DOMAIN q /\ t[j] = q[j + 1]
      /\ \A j \in DOMAIN q : j # 1 => j - 1 \in DOMAIN t /\ t[j - 1] = q[j]
  BY TailShape
<1> HIDE DEF e, t
<1>2. ASSUME NEW T PROVE Meets(q, T) <=> e \in T \/ Meets(t, T)
  BY <1>1 DEF Meets
<1>3. ASSUME NEW T, NEW G, EndsIn(q, T, G)
      PROVE  EndsIn(t, T, G) /\ (e \in T \ G => Meets(t, T))
  <2>1. ASSUME NEW j \in DOMAIN t, t[j] \in T \ G
        PROVE  \E k \in DOMAIN t : k > j /\ t[k] \in T
    <3>1. j + 1 \in DOMAIN q /\ q[j + 1] \in T \ G
      BY <1>1, <2>1
    <3>2. PICK k \in DOMAIN q : k > j + 1 /\ q[k] \in T
      BY <1>3, <3>1 DEF EndsIn
    <3>3. j \in Nat /\ k \in Nat /\ k # 1 /\ k - 1 > j
      BY <1>1, <3>2
    <3>4. k - 1 \in DOMAIN t /\ t[k - 1] \in T
      BY <1>1, <3>2, <3>3
    <3> QED BY <3>3, <3>4
  <2>2. ASSUME e \in T \ G PROVE Meets(t, T)
    <3>1. PICK k \in DOMAIN q : k > 1 /\ q[k] \in T
      BY <1>1, <1>3, <2>2 DEF EndsIn
    <3>2. k # 1
      BY <3>1
    <3> QED BY <1>1, <3>1, <3>2 DEF Meets
  <2> QED BY <2>1, <2>2 DEF EndsIn
<1>4. ASSUME NEW T, NEW U, AllBefore(q, T, U)
      PROVE  AllBefore(t, T, U) /\ (e \in U => ~Meets(t, T))
  <2>1. ASSUME NEW m \in DOMAIN t, NEW n \in DOMAIN t, t[m] \in T, t[n] \in U PROVE m < n
    <3>1. m + 1 < n + 1
      BY <1>1, <1>4, <2>1 DEF AllBefore
    <3> QED BY <1>1, <3>1
  <2>2. ASSUME e \in U, NEW m \in DOMAIN t, t[m] \in T PROVE FALSE
    <3>1. m + 1 < 1
      BY <1>1, <1>4, <2>2 DEF AllBefore
    <3> QED BY <1>1, <3>1
  <2> QED BY <2>1, <2>2 DEF AllBefore, Meets
<1>5. ASSUME NEW T, NEW A, FirstIn(q, T, A)
      PROVE  FirstIn(t, T, A) /\ (e \in A => ~Meets(t, T))
  <2>1. ASSUME NEW m \in DOMAIN t, NEW n \in DOMAIN t, t[m] \in T, t[n] \in A PROVE m <= n
    <3>1. m + 1 <= n + 1
      BY <1>1, <1>5, <2>1 DEF FirstIn
    <3> QED BY <1>1, <3>1
  <2>2. ASSUME e \in A, NEW m \in DOMAIN t, t[m] \in T PROVE FALSE
    <3>1. m + 1 <= 1
      BY <1>1, <1>5, <2>2 DEF FirstIn
    <3> QED BY <1>1, <3>1
  <2> QED BY <2>1, <2>2 DEF FirstIn, Meets
<1> QED BY <1>1, <1>2, <1>3, <1>4, <1>5 DEF e, t

\* ... and when more events have come.
LEMMA QueueGrown ==
    ASSUME NEW S, NEW q \in Seq(S), NEW r \in Seq(S)
    PROVE  LET t == q \o r
           IN  /\ t \in Seq(S)
               /\ \A T : Meets(t, T) <=> Meets(q, T) \/ Meets(r, T)
               /\ \A T, G, H : EndsIn(q, T, G) /\ ~Meets(r, T \ H) /\ (Meets(r, T) \/ G \subseteq H)
                               => EndsIn(t, T, H)
               /\ \A T, U : AllBefore(q, T, U) /\ ~Meets(r, T) => AllBefore(t, T, U)
               /\ \A T, A : FirstIn(q, T, A) /\ ~Meets(r, T) => FirstIn(t, T, A)
               /\ \A T, A : ~Meets(q, A) /\ T \subseteq A /\ FirstIn(r, T, A) => FirstIn(t, T, A)
<1> DEFINE t == q \o r
<1>1. /\ t \in Seq(S) /\ Len(q) \in Nat /\ Len(r) \in Nat /\ Len(t) = Len(q) + Len(r)
      /\ DOMAIN q = 1..Len(q) /\ DOMAIN r = 1..Len(r) /\ DOMAIN t = 1..Len(t)
      /\ \A j \in DOMAIN q : j \in DOMAIN t /\ t[j] = q[j]
      /\ \A c \in DOMAIN r : Len(q) + c \in DOMAIN t /\ t[Len(q) + c] = r[c]
      /\ \A j \in DOMAIN t : \/ j \in DOMAIN q
                             \/ \E c \in DOMAIN r : j = Len(q) + c
  BY ConcatShape
<1> HIDE DEF t
<1>2. ASSUME NEW T PROVE Meets(t, T) <=> Meets(q, T) \/ Meets(r, T)
  <2>1. Meets(q, T) \/ Meets(r, T) => Meets(t, T)
    BY <1>1 DEF Meets
  <2>2. ASSUME NEW j \in DOMAIN t, t[j] \in T PROVE Meets(q, T) \/ Meets(r, T)
    <3>1. CASE j \in DOMAIN q
      BY <1>1, <2>2, <3>1 DEF Meets
    <3>2. CASE \E c \in DOMAIN r : j = Len(q) + c
      BY <1>1, <2>2, <3>2 DEF Meets
    <3> QED BY <1>1, <3>1, <3>2
  <2> QED BY <2>1, <2>2 DEF Meets
<1>3. ASSUME NEW T, NEW G, NEW H, EndsIn(q, T, G), ~Meets(r, T \ H), Meets(r, T) \/ G \subseteq H
      PROVE  EndsIn(t, T, H)
  <2> SUFFICES ASSUME NEW j \in DOMAIN t, t[j] \in T \ H
               PROVE  \E k \in DOMAIN t : k > j /\ t[k] \in T
    BY DEF EndsIn
  <2>1. j \in DOMAIN q
    BY <1>1, <1>3 DEF Meets
  <2>2. CASE Meets(r, T)
    <3>1. PICK c \in DOMAIN r : r[c] \in T
      BY <2>2 DEF Meets
    <3>2. Len(q) + c \in DOMAIN t /\ t[Len(q) + c] \in T /\ Len(q) + c > j
      BY <1>1, <2>1, <3>1
    <3> QED BY <3>2
  <2>3. CASE G \subseteq H
    <3>1. PICK k \in DOMAIN q : k > j /\ q[k] \in T
      BY <1>1, <1>3, <2>1, <2>3 DEF EndsIn
    <3> QED BY <1>1, <3>1
  <2> QED BY <1>3, <2>2, <2>3
<1>4. ASSUME NEW T, NEW U, AllBefore(q, T, U), ~Meets(r, T) PROVE AllBefore(t, T, U)
  <2> SUFFICES ASSUME NEW m \in DOMAIN t, NEW n \in DOMAIN t, t[m] \in T, t[n] \in U PROVE m < n
    BY DEF AllBefore
  <2>1. m \in DOMAIN q
    BY <1>1, <1>4 DEF Meets
  <2>2. CASE n \in DOMAIN q
    BY <1>1, <1>4, <2>1, <2>2 DEF AllBefore
  <2>3. CASE \E c \in DOMAIN r : n = Len(q) + c
    BY <1>1, <2>1, <2>3
  <2> QED BY <1>1, <2>2, <2>3
<1>5. ASSUME NEW T, NEW A, FirstIn(q, T, A), ~Meets(r, T) PROVE FirstIn(t, T, A)
  <2> SUFFICES ASSUME NEW m \in DOMAIN t, NEW n \in DOMAIN t, t[m] \in T, t[n] \in A PROVE m <= n
    BY DEF FirstIn
  <2>1. m \in DOMAIN q
    BY <1>1, <1>5 DEF Meets
  <2>2. CASE n \in DOMAIN q
    BY <1>1, <1>5, <2>1, <2>2 DEF FirstIn
  <2>3. CASE \E c \in DOMAIN r : n = Len(q) + c
    BY <1>1, <2>1, <2>3
  <2> QED BY <1>1, <2>2, <2>3
<1>6. ASSUME NEW T, NEW A, ~Meets(q, A), T \subseteq A, FirstIn(r, T, A) PROVE FirstIn(t, T, A)
  <2> SUFFICES ASSUME NEW m \in DOMAIN t, NEW n \in DOMAIN t, t[m] \in T, t[n] \in A PROVE m <= n
    BY DEF FirstIn
  <2>1. m \notin DOMAIN q /\ n \notin DOMAIN q
    BY <1>1, <1>6 DEF Meets
  <2>2. PICK c \in DOMAIN r : m = Len(q) + c
    BY <1>1, <2>1
  <2>3. PICK d \in DOMAIN r : n = Len(q) + d
    BY <1>1, <2>1
  <2>4. c <= d
    BY <1>1, <1>6, <2>2, <2>3 DEF FirstIn
  <2> QED BY <1>1, <2>2, <2>3, <2>4
<1> QED BY <1>1, <1>2, <1>3, <1>4, <1>5, <1>6 DEF t

\* A queue that ends in G has something of G when it has something of T.
LEMMA LastIn ==
    ASSUME NEW S, NEW q \in Seq(S), NEW T, NEW G, EndsIn(q, T, G), Meets(q, T)
    PROVE  Meets(q, T \cap G)
<1> DEFINE I == {j \in DOMAIN q : q[j] \in T}
<1>1. DOMAIN q = 1..Len(q) /\ Len(q) \in Nat
  OBVIOUS
<1>2. I \subseteq 0..Len(q) /\ I # {}
  BY <1>1 DEF Meets
<1> HIDE DEF I
<1>3. PICK j \in I : \A k \in I : k <= j
  BY <1>1, <1>2, LargestExists
<1>4. j \in DOMAIN q /\ q[j] \in T
  BY DEF I
<1>5. ~ \E k \in DOMAIN q : k > j /\ q[k] \in T
  <2> SUFFICES ASSUME NEW k \in DOMAIN q, k > j, q[k] \in T PROVE FALSE
    OBVIOUS
  <2>1. k \in I
    BY DEF I
  <2>2. k <= j
    BY <1>3, <2>1
  <2> QED BY <1>1, <1>4, <2>2
<1>6. q[j] \in G
  BY <1>4, <1>5 DEF EndsIn
<1> QED BY <1>4, <1>6 DEF Meets

\* What a list has is what is among its elements.
LEMMA MeetsRange ==
    ASSUME NEW q, NEW T
    PROVE  Meets(q, T) <=> \E e \in Range(q) : e \in T
  BY DEF Meets, Range

LEMMA ListOver ==
    ASSUME NEW q, IsList(q), NEW S, Range(q) \subseteq S
    PROVE  q \in Seq(S)
<1> DEFINE R == Range(q)
<1>1. q \in Seq(R) /\ R \subseteq S
  BY DEF IsList
<1> HIDE DEF R
<1> QED BY <1>1

-----------------------------------------------------------------------------
(* Recursion over the places of a list *)

\* f starts with the first value and makes one step for each place.
Runs(n, first, step, f) == f[0] = first /\ \A i \in 1..n : f[i] = step[i][f[i - 1]]

\* Such an f exists: of the lengths for which it does not there would be a least, served
\* by what there is for the length before.
LEMMA RunExists ==
    ASSUME NEW n \in Nat, NEW A, NEW first \in A, NEW step \in [1..n -> [A -> A]]
    PROVE  \E f \in [0..n -> A] : Runs(n, first, step, f)
<1> DEFINE Some(m) == \E f \in [0..m -> A] : Runs(m, first, step, f)
           Missing == {m \in 0..n : ~Some(m)}
<1>1. Missing = {}
  <2> SUFFICES ASSUME Missing # {} PROVE FALSE
    OBVIOUS
  <2>1. PICK m \in Missing : \A k \in Missing : m <= k
    <3>1. Missing \subseteq Nat
      OBVIOUS
    <3> HIDE DEF Missing
    <3> QED BY <3>1, SmallestExists
  <2>2. m \in 0..n /\ ~Some(m)
    BY <2>1
  <2>3. m # 0
    <3> DEFINE f == [i \in 0..0 |-> first]
    <3>1. f \in [0..0 -> A] /\ f[0] = first /\ 1..0 = {}
      OBVIOUS
    <3> HIDE DEF f
    <3>2. Some(0)
      BY <3>1 DEF Runs
    <3> HIDE DEF Some
    <3> QED BY <2>2, <3>2
  <2>4. m - 1 \in 0..n /\ m \in 1..n /\ m - 1 \notin Missing
    <3>1. m - 1 \in 0..n /\ m \in 1..n /\ ~(m <= m - 1)
      BY <2>2, <2>3
    <3> HIDE DEF Missing
    <3> QED BY <2>1, <3>1
  <2>5. PICK g \in [0..(m - 1) -> A] : Runs(m - 1, first, step, g)
    BY <2>4
  <2> DEFINE f == [i \in 0..m |-> IF i = m THEN step[m][g[m - 1]] ELSE g[i]]
  <2>6. g[m - 1] \in A /\ step[m] \in [A -> A]
    BY <2>4
  <2>7. f \in [0..m -> A]
    <3>1. \A i \in 0..m : i # m => i \in 0..(m - 1)
      BY <2>2
    <3> QED BY <2>6, <3>1
  <2>8. f[m] = step[m][g[m - 1]] /\ \A i \in 0..(m - 1) : f[i] = g[i]
    BY <2>4
  <2> HIDE DEF f
  <2>9. g[0] = first /\ \A i \in 1..(m - 1) : g[i] = step[i][g[i - 1]]
    BY <2>5 DEF Runs
  <2>10. f[0] = first
    <3>1. 0 \in 0..(m - 1)
      BY <2>4
    <3> QED BY <2>8, <2>9, <3>1
  <2>11. ASSUME NEW i \in 1..m PROVE f[i] = step[i][f[i - 1]]
    <3>1. i - 1 \in 0..(m - 1)
      BY <2>4
    <3>2. CASE i = m
      BY <2>8, <3>1, <3>2
    <3>3. CASE i # m
      <4>1. i \in 1..(m - 1) /\ i \in 0..(m - 1)
        BY <2>4, <3>3
      <4> QED BY <2>8, <2>9, <3>1, <4>1
    <3> QED BY <3>2, <3>3
  <2>12. Runs(m, first, step, f)
    BY <2>10, <2>11 DEF Runs
  <2>13. Some(m)
    BY <2>7, <2>12
  <2> HIDE DEF Some
  <2> QED BY <2>2, <2>13
<1>2. n \in 0..n
  OBVIOUS
<1> HIDE DEF Some
<1>3. Some(n)
  BY <1>1, <1>2
<1> QED BY <1>3 DEF Some

\* What holds of the first value and is kept by each step holds of all.
LEMMA RunKeeps ==
    ASSUME NEW n \in Nat, NEW Good \in SUBSET (0..n), 0 \in Good,
           \A i \in 1..n : i - 1 \in Good => i \in Good
    PROVE  \A i \in 0..n : i \in Good
<1> DEFINE Bad == (0..n) \ Good
<1> SUFFICES ASSUME Bad # {} PROVE FALSE
  OBVIOUS
<1>1. PICK m \in Bad : \A k \in Bad : m <= k
  <2>1. Bad \subseteq Nat
    OBVIOUS
  <2> HIDE DEF Bad
  <2> QED BY <2>1, SmallestExists
<1>2. m \in 0..n /\ m \notin Good /\ m # 0
  BY <1>1
<1>3. m \in 1..n /\ m - 1 \in 0..n /\ ~(m <= m - 1)
  BY <1>2
<1>4. m - 1 \notin Bad
  BY <1>1, <1>3
<1>5. m - 1 \in Good
  BY <1>3, <1>4
<1> QED BY <1>2, <1>3, <1>5

LEMMA AppendRange ==
    ASSUME NEW q, IsList(q), NEW x
    PROVE  Range(Append(q, x)) = Range(q) \cup {x}
<1>1. LET r == Append(q, x)
      IN  /\ DOMAIN r = 1..(Len(q) + 1) /\ r[Len(q) + 1] = x
          /\ \A i \in 1..Len(q) : r[i] = q[i] /\ i \in DOMAIN q
  BY AppendShape
<1>2. DOMAIN q = 1..Len(q) /\ Len(q) \in Nat /\ 1..(Len(q) + 1) = (1..Len(q)) \cup {Len(q) + 1}
  BY ListShape
<1> QED BY <1>1, <1>2 DEF Range

\* The elements outside a set, and no others, in a list of their own.
LEMMA OutsideList ==
    ASSUME NEW T, NEW S, NEW q \in Seq(T)
    PROVE  /\ Outside(S, q) \in Seq(T) /\ Outside(S, q) \in Seq(T \ S)
           /\ Range(Outside(S, q)) = Range(q) \ S
<1> DEFINE n == Len(q)
           upTo == CHOOSE f : f = [i \in 0..n |-> IF i = 0 THEN <<>>
                                      ELSE IF q[i] \in S THEN f[i - 1] ELSE Append(f[i - 1], q[i])]
<1>1. n \in Nat /\ DOMAIN q = 1..n /\ \A i \in 1..n : q[i] \in T
  OBVIOUS
<1>2. Outside(S, q) = upTo[n]
  BY DEF Outside
<1> HIDE DEF n, upTo
<1>3. PICK A : A = Seq(T)
  OBVIOUS
<1>4. PICK step : step = [i \in 1..n |-> [l \in A |-> IF q[i] \in S THEN l ELSE Append(l, q[i])]]
  OBVIOUS
<1>5. /\ step \in [1..n -> [A -> A]] /\ <<>> \in A
      /\ \A i \in 1..n : \A l \in A : step[i][l] = IF q[i] \in S THEN l ELSE Append(l, q[i])
  BY <1>1, <1>3, <1>4
<1>6. PICK f \in [0..n -> A] : Runs(n, <<>>, step, f)
  BY <1>1, <1>5, RunExists
<1>7. f = [i \in 0..n |-> IF i = 0 THEN <<>>
                            ELSE IF q[i] \in S THEN f[i - 1] ELSE Append(f[i - 1], q[i])]
  <2>1. ASSUME NEW i \in 0..n
        PROVE  f[i] = IF i = 0 THEN <<>> ELSE IF q[i] \in S THEN f[i - 1] ELSE Append(f[i - 1], q[i])
    <3>1. i # 0 => i \in 1..n /\ i - 1 \in 0..n
      BY <1>1
    <3> QED BY <1>5, <1>6, <3>1 DEF Runs
  <2>2. f = [i \in 0..n |-> f[i]]
    BY <1>6
  <2> QED BY <2>1, <2>2
<1>8. upTo = [i \in 0..n |-> IF i = 0 THEN <<>>
                              ELSE IF q[i] \in S THEN upTo[i - 1] ELSE Append(upTo[i - 1], q[i])]
  <2> DEFINE P(g) == g = [i \in 0..n |-> IF i = 0 THEN <<>>
                              ELSE IF q[i] \in S THEN g[i - 1] ELSE Append(g[i - 1], q[i])]
  <2>1. P(f)
    BY <1>7
  <2>2. upTo = CHOOSE g : P(g)
    BY DEF upTo
  <2> HIDE DEF P
  <2>3. P(upTo)
    BY <2>1, <2>2
  <2> QED BY <2>3 DEF P
<1>9. /\ upTo[0] = <<>>
      /\ \A i \in 1..n : upTo[i] = IF q[i] \in S THEN upTo[i - 1] ELSE Append(upTo[i - 1], q[i])
  <2>1. 0 \in 0..n /\ \A i \in 1..n : i \in 0..n /\ i # 0
    BY <1>1
  <2> QED BY <1>8, <2>1
<1> DEFINE Holds(i) == /\ upTo[i] \in Seq(T) /\ upTo[i] \in Seq(T \ S)
                       /\ Range(upTo[i]) = {q[k] : k \in 1..i} \ S
           Good == {i \in 0..n : Holds(i)}
<1>10. 0 \in Good
  <2>1. Holds(0)
    <3>1. Range(upTo[0]) = {} /\ 1..0 = {}
      BY <1>9, EmptyList
    <3> QED BY <1>9, <3>1
  <2> QED BY <1>1, <2>1
<1>11. ASSUME NEW i \in 1..n, i - 1 \in Good PROVE i \in Good
  <2> DEFINE l == upTo[i - 1]
             x == q[i]
  <2>1. l \in Seq(T) /\ l \in Seq(T \ S) /\ Range(l) = {q[k] : k \in 1..(i - 1)} \ S /\ x \in T
    BY <1>1, <1>11
  <2>2. {q[k] : k \in 1..i} = {q[k] : k \in 1..(i - 1)} \cup {x}
    <3>1. 1..i = (1..(i - 1)) \cup {i}
      BY <1>1
    <3> QED BY <3>1
  <2>3. upTo[i] = IF x \in S THEN l ELSE Append(l, x)
    BY <1>9
  <2> HIDE DEF l
  <2>4. CASE x \in S
    <3>1. Holds(i)
      BY <2>1, <2>2, <2>3, <2>4
    <3> HIDE DEF Holds
    <3> QED BY <1>1, <3>1
  <2>5. CASE x \notin S
    <3> HIDE DEF x
    <3>1. Append(l, x) \in Seq(T) /\ Append(l, x) \in Seq(T \ S)
      BY <2>1, <2>5
    <3>2. Range(Append(l, x)) = Range(l) \cup {x}
      <4>1. IsList(l)
        BY <2>1, SeqIsList
      <4> QED BY <4>1, AppendRange
    <3>3. Range(Append(l, x)) = {q[k] : k \in 1..i} \ S
      BY <2>1, <2>2, <2>5, <3>2
    <3>4. Holds(i)
      BY <2>3, <2>5, <3>1, <3>3
    <3> HIDE DEF Holds
    <3> QED BY <1>1, <3>4
  <2> QED BY <2>4, <2>5
<1>12. \A i \in 0..n : i \in Good
  <2>1. Good \in SUBSET (0..n)
    OBVIOUS
  <2> HIDE DEF Good
  <2> QED BY <1>1, <1>10, <1>11, <2>1, RunKeeps
<1>13. Holds(n)
  <2>1. n \in 0..n
    BY <1>1
  <2>2. n \in Good
    BY <1>12, <2>1
  <2> HIDE DEF Holds
  <2> QED BY <2>2
<1>14. Range(q) = {q[k] : k \in 1..n}
  BY <1>1 DEF Range
<1> QED BY <1>2, <1>13, <1>14

\* The concatenation of lists is the last of those made by adding one after another.
Flattens(n, blocks, flat) ==
    /\ flat[0] = <<>> /\ \A i \in 1..n : flat[i] = flat[i - 1] \o blocks[i]
    /\ FlattenSeq(blocks) = flat[n]

LEMMA FlattenedRun ==
    ASSUME NEW S, NEW n \in Nat \ {0}, NEW blocks \in [1..n -> Seq(S)]
    PROVE  \E flat \in [0..n -> Seq(S)] : Flattens(n, blocks, flat)
<1>1. PICK A : A = Seq(S)
  OBVIOUS
<1>2. PICK step : step = [i \in 1..n |-> [l \in A |-> l \o blocks[i]]]
  OBVIOUS
<1>3. \A i \in 1..n : blocks[i] \in Seq(S)
  OBVIOUS
<1>4. \A i \in 1..n : \A l \in A : step[i][l] = l \o blocks[i] /\ l \o blocks[i] \in A
  BY <1>1, <1>2, <1>3
<1>5. step \in [1..n -> [A -> A]] /\ <<>> \in A
  <2>1. \A i \in 1..n : step[i] \in [A -> A]
    BY <1>2, <1>4
  <2>2. step = [i \in 1..n |-> step[i]]
    BY <1>2
  <2> QED BY <1>1, <2>1, <2>2
<1>6. PICK f \in [0..n -> A] : Runs(n, <<>>, step, f)
  BY <1>5, RunExists
<1>7. f \in [0..n -> Seq(S)] /\ f[0] = <<>> /\ \A i \in 1..n : f[i] = f[i - 1] \o blocks[i]
  <2>1. \A i \in 1..n : i - 1 \in 0..n
    OBVIOUS
  <2> QED BY <1>1, <1>4, <1>6, <2>1 DEF Runs
<1>a. f[1] = blocks[1]
  <2>1. 1 \in 1..n /\ 1 - 1 = 0
    OBVIOUS
  <2>2. f[1] = f[0] \o blocks[1] /\ blocks[1] \in Seq(S)
    BY <1>3, <1>7, <2>1
  <2>3. \A l \in Seq(S) : <<>> \o l = l
    OBVIOUS
  <2> QED BY <1>7, <2>2, <2>3
<1> DEFINE P(g) == g = [i \in 1..n |-> IF i = 1 THEN blocks[i] ELSE g[i - 1] \o blocks[i]]
           made == CHOOSE g : P(g)
<1>8. blocks \in Seq(Seq(S)) /\ Len(blocks) = n /\ ~(n = 0)
  OBVIOUS
<1>9. FlattenSeq(blocks) = made[n]
  BY <1>8 DEF FlattenSeq
<1>10. P([i \in 1..n |-> f[i]])
  <2> DEFINE g == [i \in 1..n |-> f[i]]
  <2>1. ASSUME NEW i \in 1..n
        PROVE  g[i] = IF i = 1 THEN blocks[i] ELSE g[i - 1] \o blocks[i]
    <3>1. CASE i = 1
      BY <1>a, <3>1
    <3>2. CASE i # 1
      <4>1. i - 1 \in 1..n
        BY <3>2
      <4>2. g[i] = f[i] /\ g[i - 1] = f[i - 1]
        BY <4>1
      <4> HIDE DEF g
      <4> QED BY <1>7, <3>2, <4>2
    <3> QED BY <3>1, <3>2
  <2>2. g = [i \in 1..n |-> g[i]]
    OBVIOUS
  <2> HIDE DEF g
  <2> QED BY <2>1, <2>2 DEF g
<1> HIDE DEF P
<1>11. P(made)
  BY <1>10
<1> HIDE DEF made
<1>12. \A i \in 1..n : made[i] = IF i = 1 THEN blocks[i] ELSE made[i - 1] \o blocks[i]
  BY <1>11 DEF P
<1> DEFINE Good == {i \in 0..n : i # 0 => made[i] = f[i]}
<1>13. ASSUME NEW i \in 1..n, i - 1 \in Good PROVE i \in Good
  <2>1. CASE i = 1
    <3>1. made[1] = blocks[1]
      BY <1>12, <2>1
    <3> QED BY <1>a, <2>1, <3>1
  <2>2. CASE i # 1
    <3>1. i - 1 # 0 /\ made[i - 1] = f[i - 1] /\ i \in 0..n
      BY <1>13, <2>2
    <3>2. made[i] = f[i]
      BY <1>7, <1>12, <2>2, <3>1
    <3> QED BY <3>1, <3>2
  <2> QED BY <2>1, <2>2
<1>14. \A i \in 0..n : i \in Good
  <2>1. 0 \in Good /\ Good \in SUBSET (0..n) /\ n \in Nat
    OBVIOUS
  <2> HIDE DEF Good
  <2> QED BY <1>13, <2>1, RunKeeps
<1>15. made[n] = f[n]
  <2>1. n \in 0..n /\ n # 0
    OBVIOUS
  <2> QED BY <1>14, <2>1
<1> QED BY <1>7, <1>9, <1>15 DEF Flattens

\* A list made of lists of four elements each.
LEMMA FlattenedFours ==
    ASSUME NEW S, NEW n \in Nat, NEW blocks \in Seq(Seq(S)), Len(blocks) = n,
           \A i \in 1..n : Len(blocks[i]) = 4
    PROVE  LET t == FlattenSeq(blocks)
           IN  /\ t \in Seq(S) /\ Len(t) = 4 * n
               /\ \A i \in 1..n : \A c \in 1..4 : t[4 * (i - 1) + c] = blocks[i][c]
<1> DEFINE t == FlattenSeq(blocks)
<1>1. blocks \in [1..n -> Seq(S)]
  OBVIOUS
<1>2. CASE n = 0
  <2>1. t = blocks /\ blocks = <<>>
    BY <1>2 DEF FlattenSeq
  <2>2. t \in Seq(S) /\ Len(t) = 4 * n /\ 1..n = {}
    <3> HIDE DEF t
    <3>1. <<>> \in Seq(S) /\ Len(<<>>) = 0 /\ 4 * 0 = 0 /\ 1..0 = {}
      OBVIOUS
    <3> QED BY <1>2, <2>1, <3>1
  <2> HIDE DEF t
  <2> QED BY <2>2 DEF t
<1>3. CASE n # 0
  <2>a. PICK flat \in [0..n -> Seq(S)] : Flattens(n, blocks, flat)
    BY <1>1, <1>3, FlattenedRun
  <2>1. /\ flat[0] = <<>> /\ \A i \in 1..n : flat[i] = flat[i - 1] \o blocks[i]
        /\ t = flat[n]
    BY <2>a DEF Flattens
  <2> HIDE DEF t
  <2> DEFINE Holds(m) == /\ Len(flat[m]) = 4 * m
                         /\ \A i \in 1..m : \A c \in 1..4 : flat[m][4 * (i - 1) + c] = blocks[i][c]
             Good == {m \in 0..n : Holds(m)}
  <2>2. 0 \in Good
    <3>1. Holds(0)
      <4>1. Len(<<>>) = 0 /\ 4 * 0 = 0 /\ 1..0 = {}
        OBVIOUS
      <4> QED BY <2>1, <4>1
    <3> HIDE DEF Holds
    <3> QED BY <3>1
  <2>3. ASSUME NEW m \in 1..n, m - 1 \in Good PROVE m \in Good
    <3>a. PICK a : a = flat[m - 1]
      OBVIOUS
    <3>b. PICK b : b = blocks[m]
      OBVIOUS
    <3>1. flat[m] = a \o b /\ m - 1 \in 0..n
      <4>1. flat[m] = flat[m - 1] \o blocks[m]
        BY <2>1
      <4> QED BY <3>a, <3>b, <4>1
    <3>2. /\ a \in Seq(S) /\ Len(a) = 4 * (m - 1)
          /\ \A i \in 1..(m - 1) : \A c \in 1..4 : a[4 * (i - 1) + c] = blocks[i][c]
      BY <2>3, <3>1, <3>a
    <3>3. b \in Seq(S) /\ Len(b) = 4
      BY <3>b
    <3>4. /\ Len(a \o b) = 4 * (m - 1) + 4
          /\ \A j \in 1..(4 * (m - 1)) : (a \o b)[j] = a[j]
          /\ \A c \in 1..4 : (a \o b)[4 * (m - 1) + c] = b[c]
      <4>1. /\ Len(a \o b) = Len(a) + Len(b)
            /\ \A j \in 1..Len(a) : (a \o b)[j] = a[j]
            /\ \A c \in 1..Len(b) : (a \o b)[Len(a) + c] = b[c]
        <5>1. a \in Seq(S) /\ b \in Seq(S)
          BY <3>2, <3>3
        <5> QED BY <5>1
      <4> QED BY <3>2, <3>3, <4>1
    <3>5. 4 * (m - 1) + 4 = 4 * m /\ m \in 0..n
      OBVIOUS
    <3>6. ASSUME NEW i \in 1..m, NEW c \in 1..4
          PROVE  flat[m][4 * (i - 1) + c] = blocks[i][c]
      <4>1. CASE i = m
        BY <3>1, <3>4, <3>b, <4>1
      <4>2. CASE i # m
        <5>1. i \in 1..(m - 1) /\ 4 * (i - 1) + c \in 1..(4 * (m - 1))
          BY <4>2
        <5> QED BY <3>1, <3>2, <3>4, <5>1
      <4> QED BY <4>1, <4>2
    <3>7. Holds(m)
      BY <3>1, <3>4, <3>5, <3>6
    <3> HIDE DEF Holds
    <3> QED BY <3>5, <3>7
  <2>4. \A m \in 0..n : m \in Good
    <3>1. Good \in SUBSET (0..n)
      OBVIOUS
    <3> HIDE DEF Good
    <3> QED BY <2>2, <2>3, <3>1, RunKeeps
  <2>5. Holds(n)
    <3>1. n \in 0..n
      OBVIOUS
    <3>2. n \in Good
      BY <2>4, <3>1
    <3> HIDE DEF Holds
    <3> QED BY <3>2
  <2> QED BY <2>1, <2>5 DEF t
<1> QED BY <1>2, <1>3

-----------------------------------------------------------------------------
(* Events that come in the order of a list of lists *)

\* Before what is in U comes something that is in T.
Led(q, T, U) == \A n \in DOMAIN q : q[n] \in U => \E m \in DOMAIN q : m < n /\ q[m] \in T

LEMMA LedTaken ==
    ASSUME NEW S, NEW q \in Seq(S), q # <<>>, NEW T, NEW U, Led(q, T, U)
    PROVE  Head(q) \notin U /\ (Head(q) \notin T => Led(Tail(q), T, U))
<1> DEFINE e == Head(q)
           t == Tail(q)
<1>1. /\ t \in Seq(S) /\ Len(q) \in Nat \ {0} /\ Len(t) = Len(q) - 1
      /\ DOMAIN q = 1..Len(q) /\ DOMAIN t = 1..Len(t)
      /\ 1 \in DOMAIN q /\ e = q[1] /\ q[1] \in S
      /\ \A j \in DOMAIN t : j + 1 \in DOMAIN q /\ t[j] = q[j + 1]
      /\ \A j \in DOMAIN q : j # 1 => j - 1 \in DOMAIN t /\ t[j - 1] = q[j]
  BY TailShape
<1> HIDE DEF e, t
<1>2. ASSUME e \in U PROVE FALSE
  <2>1. PICK m \in DOMAIN q : m < 1
    BY <1>1, <1>2 DEF Led
  <2> QED BY <1>1, <2>1
<1>3. ASSUME e \notin T, NEW n \in DOMAIN t, t[n] \in U
      PROVE  \E m \in DOMAIN t : m < n /\ t[m] \in T
  <2>1. n + 1 \in DOMAIN q /\ q[n + 1] \in U
    BY <1>1, <1>3
  <2>2. PICK m \in DOMAIN q : m < n + 1 /\ q[m] \in T
    BY <2>1 DEF Led
  <2>3. m # 1
    BY <1>1, <1>3, <2>2
  <2>4. m - 1 \in DOMAIN t /\ t[m - 1] = q[m]
    BY <1>1, <2>2, <2>3
  <2>5. m - 1 < n
    BY <1>1, <2>2
  <2> QED BY <2>2, <2>4, <2>5
<1> QED BY <1>2, <1>3 DEF e, t, Led

LEMMA LedGrown ==
    ASSUME NEW S, NEW q \in Seq(S), NEW r \in Seq(S), NEW T, NEW U,
           Led(q, T, U), Meets(q, T) \/ Led(r, T, U)
    PROVE  Led(q \o r, T, U)
<1> DEFINE t == q \o r
<1>1. /\ t \in Seq(S) /\ Len(q) \in Nat /\ Len(r) \in Nat /\ Len(t) = Len(q) + Len(r)
      /\ DOMAIN q = 1..Len(q) /\ DOMAIN r = 1..Len(r) /\ DOMAIN t = 1..Len(t)
      /\ \A j \in DOMAIN q : j \in DOMAIN t /\ t[j] = q[j]
      /\ \A c \in DOMAIN r : Len(q) + c \in DOMAIN t /\ t[Len(q) + c] = r[c]
      /\ \A j \in DOMAIN t : \/ j \in DOMAIN q
                             \/ \E c \in DOMAIN r : j = Len(q) + c
  BY ConcatShape
<1> HIDE DEF t
<1>2. ASSUME NEW n \in DOMAIN t, t[n] \in U PROVE \E m \in DOMAIN t : m < n /\ t[m] \in T
  <2>1. CASE n \in DOMAIN q
    <3>1. PICK m \in DOMAIN q : m < n /\ q[m] \in T
      BY <1>1, <1>2, <2>1 DEF Led
    <3> QED BY <1>1, <3>1
  <2>2. CASE n \notin DOMAIN q
    <3>1. PICK d \in DOMAIN r : n = Len(q) + d
      BY <1>1, <2>2
    <3>2. CASE Meets(q, T)
      <4>1. PICK m \in DOMAIN q : q[m] \in T
        BY <3>2 DEF Meets
      <4>2. m < n
        BY <1>1, <3>1, <4>1
      <4> QED BY <1>1, <4>1, <4>2
    <3>3. CASE Led(r, T, U)
      <4>1. r[d] \in U
        BY <1>1, <1>2, <3>1
      <4>2. PICK c \in DOMAIN r : c < d /\ r[c] \in T
        BY <3>3, <4>1 DEF Led
      <4>3. Len(q) + c < n
        BY <1>1, <3>1, <4>2
      <4> QED BY <1>1, <4>2, <4>3
    <3> QED BY <3>2, <3>3
  <2> QED BY <2>1, <2>2
<1> QED BY <1>2 DEF t, Led

\* More about what has grown: the order of two kinds that come again.
LEMMA OrderGrown ==
    ASSUME NEW S, NEW q \in Seq(S), NEW r \in Seq(S), NEW T, NEW A
    PROVE  /\ AllBefore(q, T, A) /\ AllBefore(r, T, A) /\ ~(Meets(q, A) /\ Meets(r, T))
                => AllBefore(q \o r, T, A)
           /\ FirstIn(q, T, A) /\ FirstIn(r, T, A) /\ ~(Meets(q, A) /\ Meets(r, T))
                => FirstIn(q \o r, T, A)
<1> DEFINE t == q \o r
<1>1. /\ t \in Seq(S) /\ Len(q) \in Nat /\ Len(r) \in Nat /\ Len(t) = Len(q) + Len(r)
      /\ DOMAIN q = 1..Len(q) /\ DOMAIN r = 1..Len(r) /\ DOMAIN t = 1..Len(t)
      /\ \A j \in DOMAIN q : j \in DOMAIN t /\ t[j] = q[j]
      /\ \A c \in DOMAIN r : Len(q) + c \in DOMAIN t /\ t[Len(q) + c] = r[c]
      /\ \A j \in DOMAIN t : \/ j \in DOMAIN q
                             \/ \E c \in DOMAIN r : j = Len(q) + c
  BY ConcatShape
<1> HIDE DEF t
<1>2. ASSUME ~(Meets(q, A) /\ Meets(r, T)), NEW m \in DOMAIN t, NEW n \in DOMAIN t,
             t[m] \in T, t[n] \in A
      PROVE  \/ m \in DOMAIN q /\ n \in DOMAIN q /\ q[m] \in T /\ q[n] \in A
             \/ m < n
             \/ \E c, d \in DOMAIN r : /\ m = Len(q) + c /\ n = Len(q) + d
                                       /\ r[c] \in T /\ r[d] \in A
  <2>1. CASE m \in DOMAIN q
    <3>1. CASE n \in DOMAIN q
      BY <1>1, <1>2, <2>1, <3>1
    <3>2. CASE \E d \in DOMAIN r : n = Len(q) + d
      BY <1>1, <2>1, <3>2
    <3> QED BY <1>1, <3>1, <3>2
  <2>2. CASE m \notin DOMAIN q
    <3>1. PICK c \in DOMAIN r : m = Len(q) + c /\ r[c] \in T
      BY <1>1, <1>2, <2>2
    <3>2. ~Meets(q, A)
      BY <1>2, <3>1 DEF Meets
    <3>3. n \notin DOMAIN q
      BY <1>1, <1>2, <3>2 DEF Meets
    <3>4. PICK d \in DOMAIN r : n = Len(q) + d /\ r[d] \in A
      BY <1>1, <1>2, <3>3
    <3> QED BY <3>1, <3>4
  <2> QED BY <2>1, <2>2
<1>3. ASSUME AllBefore(q, T, A), AllBefore(r, T, A), ~(Meets(q, A) /\ Meets(r, T))
      PROVE  AllBefore(t, T, A)
  <2> SUFFICES ASSUME NEW m \in DOMAIN t, NEW n \in DOMAIN t, t[m] \in T, t[n] \in A PROVE m < n
    BY DEF AllBefore
  <2>1. ASSUME m \in DOMAIN q, n \in DOMAIN q, q[m] \in T, q[n] \in A PROVE m < n
    BY <1>3, <2>1 DEF AllBefore
  <2>2. ASSUME NEW c \in DOMAIN r, NEW d \in DOMAIN r, m = Len(q) + c, n = Len(q) + d,
               r[c] \in T, r[d] \in A
        PROVE  m < n
    <3>1. c < d
      BY <1>3, <2>2 DEF AllBefore
    <3> QED BY <1>1, <2>2, <3>1
  <2> QED BY <1>2, <1>3, <2>1, <2>2
<1>4. ASSUME FirstIn(q, T, A), FirstIn(r, T, A), ~(Meets(q, A) /\ Meets(r, T))
      PROVE  FirstIn(t, T, A)
  <2> SUFFICES ASSUME NEW m \in DOMAIN t, NEW n \in DOMAIN t, t[m] \in T, t[n] \in A PROVE m <= n
    BY DEF FirstIn
  <2>1. ASSUME m \in DOMAIN q, n \in DOMAIN q, q[m] \in T, q[n] \in A PROVE m <= n
    BY <1>4, <2>1 DEF FirstIn
  <2>2. ASSUME NEW c \in DOMAIN r, NEW d \in DOMAIN r, m = Len(q) + c, n = Len(q) + d,
               r[c] \in T, r[d] \in A
        PROVE  m <= n
    <3>1. c <= d
      BY <1>4, <2>2 DEF FirstIn
    <3> QED BY <1>1, <2>2, <3>1
  <2>3. m < n => m <= n
    BY <1>1
  <2> QED BY <1>2, <1>4, <2>1, <2>2, <2>3
<1> QED BY <1>3, <1>4 DEF t

\* What holds of the kinds in each of the lists, and of those in an earlier and a later
\* one, holds in all of them together.
LEMMA FlattenedKinds ==
    ASSUME NEW S, NEW n \in Nat \ {0}, NEW blocks \in [1..n -> Seq(S)]
    PROVE  LET t == FlattenSeq(blocks)
               Apart(T, A) == \A i, j \in 1..n : i < j => ~(Meets(blocks[i], A) /\ Meets(blocks[j], T))
           IN  /\ t \in Seq(S)
               /\ \A T : Meets(t, T) <=> \E i \in 1..n : Meets(blocks[i], T)
               /\ \A T, A : Apart(T, A) /\ (\A i \in 1..n : AllBefore(blocks[i], T, A)) => AllBefore(t, T, A)
               /\ \A T, A : Apart(T, A) /\ (\A i \in 1..n : FirstIn(blocks[i], T, A)) => FirstIn(t, T, A)
               /\ \A T, U : (\A i \in 1..n : Led(blocks[i], T, U)) => Led(t, T, U)
<1> DEFINE Apart(T, A) == \A i, j \in 1..n : i < j => ~(Meets(blocks[i], A) /\ Meets(blocks[j], T))
<1>a. PICK flat \in [0..n -> Seq(S)] : Flattens(n, blocks, flat)
  BY FlattenedRun
<1>1. /\ flat[0] = <<>> /\ \A i \in 1..n : flat[i] = flat[i - 1] \o blocks[i]
      /\ FlattenSeq(blocks) = flat[n]
  BY <1>a DEF Flattens
<1>2. ASSUME NEW i \in 1..n
      PROVE  /\ i - 1 \in 0..n /\ i \in 0..n /\ flat[i - 1] \in Seq(S) /\ blocks[i] \in Seq(S)
             /\ flat[i] = flat[i - 1] \o blocks[i]
             /\ 1..i = (1..(i - 1)) \cup {i} /\ \A k \in 1..(i - 1) : k \in 1..n /\ k < i
  <2>1. i - 1 \in 0..n /\ i \in 0..n
    OBVIOUS
  <2>2. flat[i - 1] \in Seq(S) /\ blocks[i] \in Seq(S)
    BY <2>1
  <2>3. 1..i = (1..(i - 1)) \cup {i} /\ \A k \in 1..(i - 1) : k \in 1..n /\ k < i
    OBVIOUS
  <2> QED BY <1>1, <2>1, <2>2, <2>3
<1>3. n \in 0..n /\ 0 \in 0..n /\ 1..0 = {} /\ n \in Nat
  OBVIOUS
<1>4. \A T : ~Meets(<<>>, T) /\ \A U : AllBefore(<<>>, T, U) /\ FirstIn(<<>>, T, U) /\ Led(<<>>, T, U)
  BY DEF Meets, AllBefore, FirstIn, Led
<1>5. ASSUME NEW T PROVE \A i \in 0..n : Meets(flat[i], T) <=> \E k \in 1..i : Meets(blocks[k], T)
  <2> DEFINE Holds(i) == Meets(flat[i], T) <=> \E k \in 1..i : Meets(blocks[k], T)
             Good == {i \in 0..n : Holds(i)}
  <2>1. 0 \in Good
    BY <1>1, <1>3, <1>4
  <2>2. ASSUME NEW i \in 1..n, i - 1 \in Good PROVE i \in Good
    <3>1. Meets(flat[i], T) <=> Meets(flat[i - 1], T) \/ Meets(blocks[i], T)
      <4>1. /\ flat[i - 1] \in Seq(S) /\ blocks[i] \in Seq(S)
            /\ flat[i] = flat[i - 1] \o blocks[i]
        BY <1>2
      <4>2. \A q, r \in Seq(S) : Meets(q \o r, T) <=> Meets(q, T) \/ Meets(r, T)
        BY QueueGrown
      <4> QED BY <4>1, <4>2
    <3>2. Holds(i - 1)
      BY <2>2
    <3>3. Holds(i)
      <4>1. 1..i = (1..(i - 1)) \cup {i}
        BY <1>2
      <4> QED BY <3>1, <3>2, <4>1
    <3> HIDE DEF Holds
    <3> QED BY <1>2, <3>3
  <2>3. Good \in SUBSET (0..n)
    OBVIOUS
  <2> HIDE DEF Good
  <2>4. \A i \in 0..n : i \in Good
    BY <1>3, <2>1, <2>2, <2>3, RunKeeps
  <2> QED BY <2>4 DEF Good
<1>6. ASSUME NEW T, NEW A, Apart(T, A) PROVE \A i \in 1..n : ~(Meets(flat[i - 1], A) /\ Meets(blocks[i], T))
  BY <1>2, <1>5, <1>6
<1> HIDE DEF Apart
<1>7. ASSUME NEW T, NEW A, Apart(T, A), \A i \in 1..n : AllBefore(blocks[i], T, A)
      PROVE  AllBefore(flat[n], T, A)
  <2> DEFINE Good == {i \in 0..n : AllBefore(flat[i], T, A)}
  <2>1. 0 \in Good /\ Good \in SUBSET (0..n)
    <3>1. AllBefore(flat[0], T, A)
      BY <1>1, <1>4
    <3> QED BY <1>3, <3>1
  <2>2. ASSUME NEW i \in 1..n, i - 1 \in Good PROVE i \in Good
    <3>1. /\ flat[i - 1] \in Seq(S) /\ blocks[i] \in Seq(S) /\ i \in 0..n
          /\ flat[i] = flat[i - 1] \o blocks[i]
      BY <1>2
    <3>2. AllBefore(flat[i - 1], T, A) /\ AllBefore(blocks[i], T, A) /\ ~(Meets(flat[i - 1], A) /\ Meets(blocks[i], T))
      BY <1>6, <1>7, <2>2
    <3>3. \A q, r \in Seq(S) : AllBefore(q, T, A) /\ AllBefore(r, T, A) /\ ~(Meets(q, A) /\ Meets(r, T))
              => AllBefore(q \o r, T, A)
      BY OrderGrown
    <3>4. AllBefore(flat[i - 1] \o blocks[i], T, A)
      BY <3>1, <3>2, <3>3
    <3> QED BY <3>1, <3>4
  <2> HIDE DEF Good
  <2>3. n \in Good
    BY <1>3, <2>1, <2>2, RunKeeps
  <2> QED BY <2>3 DEF Good
<1>8. ASSUME NEW T, NEW A, Apart(T, A), \A i \in 1..n : FirstIn(blocks[i], T, A)
      PROVE  FirstIn(flat[n], T, A)
  <2> DEFINE Good == {i \in 0..n : FirstIn(flat[i], T, A)}
  <2>1. 0 \in Good /\ Good \in SUBSET (0..n)
    <3>1. FirstIn(flat[0], T, A)
      BY <1>1, <1>4
    <3> QED BY <1>3, <3>1
  <2>2. ASSUME NEW i \in 1..n, i - 1 \in Good PROVE i \in Good
    <3>1. /\ flat[i - 1] \in Seq(S) /\ blocks[i] \in Seq(S) /\ i \in 0..n
          /\ flat[i] = flat[i - 1] \o blocks[i]
      BY <1>2
    <3>2. FirstIn(flat[i - 1], T, A) /\ FirstIn(blocks[i], T, A) /\ ~(Meets(flat[i - 1], A) /\ Meets(blocks[i], T))
      BY <1>6, <1>8, <2>2
    <3>3. \A q, r \in Seq(S) : FirstIn(q, T, A) /\ FirstIn(r, T, A) /\ ~(Meets(q, A) /\ Meets(r, T))
              => FirstIn(q \o r, T, A)
      BY OrderGrown
    <3>4. FirstIn(flat[i - 1] \o blocks[i], T, A)
      BY <3>1, <3>2, <3>3
    <3> QED BY <3>1, <3>4
  <2> HIDE DEF Good
  <2>3. n \in Good
    BY <1>3, <2>1, <2>2, RunKeeps
  <2> QED BY <2>3 DEF Good
<1>9. ASSUME NEW T, NEW U, \A i \in 1..n : Led(blocks[i], T, U)
      PROVE  Led(flat[n], T, U)
  <2> DEFINE Good == {i \in 0..n : Led(flat[i], T, U)}
  <2>1. 0 \in Good /\ Good \in SUBSET (0..n)
    <3>1. Led(flat[0], T, U)
      BY <1>1, <1>4
    <3> QED BY <1>3, <3>1
  <2>2. ASSUME NEW i \in 1..n, i - 1 \in Good PROVE i \in Good
    <3>1. /\ flat[i - 1] \in Seq(S) /\ blocks[i] \in Seq(S) /\ i \in 0..n
          /\ flat[i] = flat[i - 1] \o blocks[i]
      BY <1>2
    <3>2. Led(flat[i - 1], T, U) /\ Led(blocks[i], T, U)
      BY <1>9, <2>2
    <3>3. \A q, r \in Seq(S) : Led(q, T, U) /\ Led(r, T, U) => Led(q \o r, T, U)
      BY LedGrown
    <3>4. Led(flat[i - 1] \o blocks[i], T, U)
      BY <3>1, <3>2, <3>3
    <3> QED BY <3>1, <3>4
  <2> HIDE DEF Good
  <2>3. n \in Good
    BY <1>3, <2>1, <2>2, RunKeeps
  <2> QED BY <2>3 DEF Good
<1>10. flat[n] \in Seq(S) /\ \A T : Meets(flat[n], T) <=> \E i \in 1..n : Meets(blocks[i], T)
  BY <1>1, <1>3, <1>5
<1> QED BY <1>1, <1>7, <1>8, <1>9, <1>10 DEF Apart
=============================================================================
