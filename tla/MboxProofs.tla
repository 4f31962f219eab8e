----------------------------- MODULE MboxProofs -----------------------------
(***************************************************************************)
(* Proofs about MboxFormat and Mbox.                                       *)
(***************************************************************************)
EXTENDS Mbox, MCMboxFormat, WellFoundedInduction, SequenceTheorems,
        FiniteSetTheorems, TLAPS

-----------------------------------------------------------------------------
\* Induction over the natural numbers, from the library's theorem on minimal
\* elements: the property is given as the set of numbers that have it.

\* A set of natural numbers that is not empty has a least element.
LEMMA Least ==
  ASSUME NEW T \in SUBSET Nat, T # {}
  PROVE  \E n \in T : \A m \in T : n <= m
<1>1. PICK R : R = OpToRel(<, Nat)
  OBVIOUS
<1>2. IsWellFoundedOn(R, Nat)
  BY <1>1, NatLessThanWellFounded
<1>3. R = {ss \in Nat \X Nat : ss[1] < ss[2]}
  BY <1>1 DEF OpToRel
<1>4. PICK n \in T : \A m \in T : ~ (<<m, n>> \in R)
  BY <1>2, WFMin
<1>5. ASSUME NEW m \in T PROVE n <= m
  <2>1. <<m, n>> \in Nat \X Nat
    OBVIOUS
  <2>2. ~(m < n)
    BY <1>3, <1>4, <2>1
  <2>3. QED
    BY <2>2
<1>6. QED
  BY <1>5

\* What holds of 0 and of n + 1 when it holds of n holds of every number.
LEMMA Induction ==
  ASSUME NEW T, 0 \in T, \A n \in Nat : n \in T => n + 1 \in T
  PROVE  \A n \in Nat : n \in T
<1>1. SUFFICES ASSUME NEW b \in Nat, b \notin T PROVE FALSE
  OBVIOUS
<1>2. PICK n \in Nat \ T : \A m \in Nat \ T : n <= m
  BY <1>1, Least
<1>3. n # 0 /\ n - 1 \in Nat /\ n - 1 \in T
  BY <1>2
<1>4. QED
  BY <1>2, <1>3

\* Min of FiniteSetsExt is the least element.
LEMMA MinIsLeast ==
  ASSUME NEW T \in SUBSET Nat, T # {}
  PROVE  Min(T) \in T /\ \A m \in T : Min(T) <= m
BY Least DEF Min

\* Max of a pair.
LEMMA MaxOfPair ==
  ASSUME NEW a \in Nat, NEW b \in Nat
  PROVE  /\ Max({a, b}) \in {a, b}
         /\ a <= Max({a, b}) /\ b <= Max({a, b})
BY DEF Max

\* Max of a bounded set that is not empty.
LEMMA MaxIsGreatest ==
  ASSUME NEW T \in SUBSET Nat, T # {}, NEW B \in Nat, \A n \in T : n <= B
  PROVE  Max(T) \in T /\ \A m \in T : m <= Max(T)
<1> DEFINE U == {n \in Nat : \A m \in T : m <= n}
<1>1. PICK u \in U : \A n \in U : u <= n
  <2>1. U \in SUBSET Nat /\ B \in U
    OBVIOUS
  <2>2. QED
    BY <2>1, Least
<1>2. u \in T
  <2>1. SUFFICES ASSUME u \notin T PROVE FALSE
    OBVIOUS
  <2>2. PICK t \in T : TRUE
    OBVIOUS
  <2>3. t <= u /\ t # u /\ u - 1 \in Nat
    BY <1>1, <2>1, <2>2
  <2>4. \A m \in T : m <= u - 1
    BY <1>1, <2>1
  <2>5. u - 1 \in U
    BY <2>3, <2>4
  <2>6. QED
    BY <1>1, <2>5
<1>3. \E x \in T : \A y \in T : x >= y
  BY <1>1, <1>2
<1>4. Max(T) \in T /\ \A y \in T : Max(T) >= y
  BY <1>3 DEF Max
<1>5. QED
  BY <1>4

-----------------------------------------------------------------------------
\* Cells and the lines of a message.

\* What the kind of a cell says of its value.
LEMMA CellValues ==
  ASSUME NEW c \in Cells
  PROVE  (c.k = "uid" => c.v \in Uids) /\ (c.k = "body" => c.v \in Msgs)
BY DEF Cells, From, Nl, Nul, Uid, Body

\* The cells the library writes are cells.
LEMMA CellsWritten ==
  /\ {From, Nl, Nul} \subseteq Cells
  /\ \A n \in Uids : Uid(n) \in Cells
  /\ \A m \in Msgs : Body(m) \in Cells
BY DEF Cells

\* The header fields end inside the file or at its end.
LEMMA FieldsEndIs ==
  ASSUME NEW f \in Seq(Cells), NEW s \in 1..Len(f)
  PROVE  /\ FieldsStart(f, s) \in {s, s + 1}
         /\ FieldsEnd(f, s) \in FieldsStart(f, s)..(Len(f) + 1)
         /\ FieldsEnd(f, s) <= Len(f) => f[FieldsEnd(f, s)].k # "uid"
         /\ \A j \in FieldsStart(f, s)..(FieldsEnd(f, s) - 1) : f[j].k = "uid"
<1>1. FieldsStart(f, s) \in {s, s + 1}
  BY DEF FieldsStart
<1> DEFINE a == FieldsStart(f, s)
           T == {i \in a..(Len(f) + 1) : i <= Len(f) => f[i].k # "uid"}
<1> HIDE DEF a
<1>2. a \in 1..(Len(f) + 1)
  BY <1>1 DEF a
<1>3. T \in SUBSET Nat /\ Len(f) + 1 \in T
  BY <1>2
<1>4. PICK n \in T : \A m \in T : n <= m
  BY <1>3, Least
<1>5. \A j \in a..(n - 1) : f[j].k = "uid"
  BY <1>2, <1>4
<1>6. \E i \in a..(Len(f) + 1) :
        /\ i <= Len(f) => f[i].k # "uid"
        /\ \A j \in a..(i - 1) : f[j].k = "uid"
  BY <1>4, <1>5
<1>7. QED
  BY <1>1, <1>6 DEF FieldsEnd, a

\* A message's number is one.
LEMMA UidFieldType ==
  ASSUME NEW f \in Seq(Cells), NEW s \in 1..Len(f)
  PROVE  UidField(f, s) \in Uids
<1>1. CASE FieldsEnd(f, s) = FieldsStart(f, s)
  BY <1>1, FormatAssumption DEF UidField, Uids
<1>2. CASE FieldsEnd(f, s) # FieldsStart(f, s)
  <2>1. FieldsEnd(f, s) - 1 \in FieldsStart(f, s)..(FieldsEnd(f, s) - 1)
    BY <1>2, FieldsEndIs
  <2>2. f[FieldsEnd(f, s) - 1].k = "uid"
    BY <2>1, FieldsEndIs
  <2>3. f[FieldsEnd(f, s) - 1] \in Cells
    BY <2>1, FieldsEndIs
  <2>4. QED
    BY <1>2, <2>2, <2>3, CellValues DEF UidField
<1>3. QED
  BY <1>1, <1>2

\* The next message starts behind the headers of this one.
LEMMA NextStartIs ==
  ASSUME NEW f \in Seq(Cells), NEW s \in 1..Len(f)
  PROVE  /\ NextStart(f, s) \in (s + 1)..(Len(f) + 1)
         /\ FieldsEnd(f, s) \in s..NextStart(f, s)
<1> DEFINE b == FieldsEnd(f, s)
           T == {i \in b..Len(f) : i > s /\ f[i] = From /\ BlankBefore(f, b, i)}
                  \cup {Len(f) + 1}
<1> HIDE DEF b
<1>1. b \in s..(Len(f) + 1)
  BY FieldsEndIs DEF b
<1>2. T \in SUBSET Nat /\ T # {}
  BY <1>1
<1>3. NextStart(f, s) = Min(T)
  BY DEF NextStart, b
<1>4. \A i \in T : i \in (s + 1)..(Len(f) + 1) /\ b <= i
  BY <1>1
<1> HIDE DEF T
<1>5. NextStart(f, s) \in T
  BY <1>2, <1>3, MinIsLeast
<1>6. QED
  BY <1>1, <1>4, <1>5 DEF b

-----------------------------------------------------------------------------
\* Where the messages of a file start.

\* The recursion of Starts has a solution, which Starts evaluates.
LEMMA StartsLoop ==
  ASSUME NEW f \in Seq(Cells), NEW c \in 1..(Len(f) + 1)
  PROVE  \E g : /\ Starts(f, c) = g[c]
                /\ \A i \in c..(Len(f) + 1) :
                     g[i] = IF i > Len(f) THEN <<>>
                            ELSE <<i>> \o g[NextStart(f, i)]
<1> DEFINE L == Len(f) + 1
           IsLoop(g, n) ==
             g = [i \in n..L |-> IF i > Len(f) THEN <<>>
                                 ELSE <<i>> \o g[NextStart(f, i)]]
           T == {n \in Nat : n < L => \E g : IsLoop(g, L - n)}
<1>1. 0 \in T
  <2>1. PICK g : g = [i \in L..L |-> <<>>]
    OBVIOUS
  <2>2. IsLoop(g, L - 0)
    BY <2>1
  <2>3. QED
    BY <2>2
<1>2. ASSUME NEW n \in Nat, n \in T PROVE n + 1 \in T
  <2>1. SUFFICES ASSUME n + 1 < L PROVE \E g : IsLoop(g, L - (n + 1))
    OBVIOUS
  <2>2. PICK h : IsLoop(h, L - n)
    BY <1>2, <2>1
  <2>3. PICK a : a = L - (n + 1)
    OBVIOUS
  <2>4. a \in 1..Len(f) /\ a + 1 = L - n
    BY <2>1, <2>3
  <2>5. PICK g : g = [i \in a..L |-> IF i = a THEN <<a>> \o h[NextStart(f, a)]
                                              ELSE h[i]]
    OBVIOUS
  <2>6. ASSUME NEW i \in a..L
        PROVE  g[i] = IF i > Len(f) THEN <<>> ELSE <<i>> \o g[NextStart(f, i)]
    <3>1. CASE i = a
      <4>1. NextStart(f, a) \in (a + 1)..L
        BY <2>4, NextStartIs
      <4>2. QED
        BY <2>4, <2>5, <3>1, <4>1
    <3>2. CASE i # a /\ i > Len(f)
      BY <2>2, <2>4, <2>5, <3>2
    <3>3. CASE i # a /\ i <= Len(f)
      <4>1. i \in 1..Len(f) /\ i \in (L - n)..L
        BY <2>4, <3>3
      <4>2. NextStart(f, i) \in (i + 1)..L
        BY <4>1, NextStartIs
      <4>3. h[i] = <<i>> \o h[NextStart(f, i)]
        <5>1. \A k \in (L - n)..L : h[k] = IF k > Len(f) THEN <<>>
                                           ELSE <<k>> \o h[NextStart(f, k)]
          BY <2>2
        <5>2. ~(i > Len(f))
          BY <4>1
        <5>3. QED
          BY <4>1, <5>1, <5>2
      <4>4. NextStart(f, i) \in a..L /\ NextStart(f, i) # a
        BY <2>4, <4>1, <4>2
      <4>5. g[i] = h[i] /\ g[NextStart(f, i)] = h[NextStart(f, i)] /\ ~(i > Len(f))
        BY <2>5, <3>3, <4>1, <4>4
      <4>6. QED
        BY <4>3, <4>5
    <3>4. QED
      BY <2>4, <3>1, <3>2, <3>3
  <2>7. IsLoop(g, a)
    BY <2>5, <2>6
  <2>8. QED
    BY <2>3, <2>7
<1>3. L - c \in Nat /\ L - c < L /\ L - (L - c) = c
  OBVIOUS
<1>4. L - c \in T
  <2> HIDE DEF T
  <2>1. QED
    BY <1>1, <1>2, <1>3, Induction
<1>5. PICK g : g = CHOOSE h : IsLoop(h, c)
  OBVIOUS
<1>6. IsLoop(g, c)
  BY <1>3, <1>4, <1>5
<1>7. Starts(f, c) = g[c]
  BY <1>5 DEF Starts
<1>8. QED
  BY <1>6, <1>7

\* The messages from c on, one behind the other, cover the rest of the file.
Chain(f, c, S) ==
  /\ S \in Seq(c..Len(f))
  /\ Len(S) <= Len(f) + 1 - c
  /\ c <= Len(f) => Len(S) > 0 /\ S[1] = c
  /\ \A i \in 1..Len(S) :
       NextStart(f, S[i]) = IF i = Len(S) THEN Len(f) + 1 ELSE S[i + 1]
  /\ \A x \in c..Len(f) :
       \E i \in 1..Len(S) : S[i] <= x /\ x < NextStart(f, S[i])

\* One message more in front.
LEMMA ChainStep ==
  ASSUME NEW f \in Seq(Cells), NEW c \in 1..Len(f), NEW S,
         Chain(f, NextStart(f, c), S)
  PROVE  Chain(f, c, <<c>> \o S)
<1> DEFINE d == NextStart(f, c)
           R == <<c>> \o S
<1>1. d \in (c + 1)..(Len(f) + 1)
  BY NextStartIs
<1>2. S \in Seq(d..Len(f)) /\ Len(S) <= Len(f) + 1 - d
  BY DEF Chain
<1>3. d..Len(f) \subseteq c..Len(f) /\ c \in c..Len(f)
  BY <1>1
<1>4. S \in Seq(c..Len(f)) /\ <<c>> \in Seq(c..Len(f))
  <2>1. PICK D, C : D = d..Len(f) /\ C = c..Len(f)
    OBVIOUS
  <2>2. S \in Seq(C)
    BY <1>2, <1>3, <2>1, SeqMonotonic
  <2>3. <<c>> \in Seq(C)
    BY <1>3, <2>1
  <2>4. QED
    BY <2>1, <2>2, <2>3
<1>5. /\ R \in Seq(c..Len(f)) /\ Len(R) = 1 + Len(S) /\ R[1] = c
      /\ \A i \in 1..Len(S) : R[i + 1] = S[i]
  BY <1>4
<1> HIDE DEF R
<1>6. Len(R) <= Len(f) + 1 - c
  BY <1>1, <1>2, <1>5
<1>7. ASSUME NEW i \in 1..Len(R)
      PROVE  NextStart(f, R[i]) = IF i = Len(R) THEN Len(f) + 1 ELSE R[i + 1]
  <2>1. CASE i = 1
    <3>1. CASE Len(S) = 0
      <4>1. d = Len(f) + 1
        BY <1>1, <3>1 DEF Chain
      <4>2. QED
        BY <1>5, <2>1, <3>1, <4>1
    <3>2. CASE Len(S) > 0
      <4>1. d <= Len(f)
        BY <1>1, <1>2, <3>2
      <4>2. S[1] = d
        BY <4>1 DEF Chain
      <4>3. QED
        BY <1>2, <1>5, <2>1, <3>2, <4>2
    <3>3. QED
      BY <1>2, <3>1, <3>2
  <2>2. CASE i > 1
    <3>1. PICK j \in 1..Len(S) : i = j + 1
      BY <1>2, <1>5, <2>2
    <3>2. NextStart(f, S[j]) = IF j = Len(S) THEN Len(f) + 1 ELSE S[j + 1]
      BY DEF Chain
    <3>3. R[i] = S[j] /\ (j # Len(S) => R[i + 1] = S[j + 1])
      <4>1. R[i] = S[j]
        BY <1>5, <3>1, Zenon
      <4>2. ASSUME j # Len(S) PROVE R[i + 1] = S[j + 1]
        <5>1. PICK k \in 1..Len(S) : k = j + 1
          BY <1>2, <4>2
        <5>2. R[k + 1] = S[k]
          BY <1>5, Zenon
        <5>3. QED
          BY <3>1, <5>1, <5>2, Zenon
      <4>3. QED
        BY <4>1, <4>2
    <3>4. i = Len(R) <=> j = Len(S)
      BY <1>2, <1>5, <3>1
    <3>5. QED
      BY <3>2, <3>3, <3>4, Zenon
  <2>3. QED
    BY <2>1, <2>2
<1>8. ASSUME NEW x \in c..Len(f)
      PROVE  \E i \in 1..Len(R) : R[i] <= x /\ x < NextStart(f, R[i])
  <2>1. CASE x < d
    BY <1>2, <1>5, <2>1
  <2>2. CASE x >= d
    <3>1. x \in d..Len(f)
      BY <1>1, <2>2
    <3>2. PICK i \in 1..Len(S) : S[i] <= x /\ x < NextStart(f, S[i])
      BY <3>1 DEF Chain
    <3>3. i + 1 \in 1..Len(R) /\ R[i + 1] = S[i]
      BY <1>2, <1>5
    <3>4. QED
      BY <3>2, <3>3
  <2>3. QED
    BY <1>1, <2>1, <2>2
<1>9. QED
  BY <1>2, <1>5, <1>6, <1>7, <1>8 DEF Chain, R

\* Starts is such a chain.
LEMMA StartsChain ==
  ASSUME NEW f \in Seq(Cells), NEW c \in 1..(Len(f) + 1)
  PROVE  Chain(f, c, Starts(f, c))
<1>1. PICK g : /\ Starts(f, c) = g[c]
               /\ \A i \in c..(Len(f) + 1) :
                    g[i] = IF i > Len(f) THEN <<>>
                           ELSE <<i>> \o g[NextStart(f, i)]
  BY StartsLoop
<1> DEFINE L == Len(f) + 1
           T == {n \in Nat : \A i \in c..L : L - i <= n => Chain(f, i, g[i])}
<1>2. Chain(f, L, g[L])
  <2>1. L \in c..L /\ L > Len(f)
    OBVIOUS
  <2>2. g[L] = <<>>
    BY <1>1, <2>1
  <2>3. QED
    BY <2>2 DEF Chain
<1>3. 0 \in T
  BY <1>2
<1>4. ASSUME NEW n \in Nat, n \in T PROVE n + 1 \in T
  <2>1. SUFFICES ASSUME NEW i \in c..L, L - i <= n + 1 PROVE Chain(f, i, g[i])
    OBVIOUS
  <2>2. CASE i = L
    BY <1>2, <2>2
  <2>3. CASE i # L
    <3>0. i \in 1..Len(f)
      BY <2>3
    <3>1. i \in 1..Len(f) /\ NextStart(f, i) \in (i + 1)..L
      BY <3>0, NextStartIs
    <3>2. NextStart(f, i) \in c..L /\ L - NextStart(f, i) <= n
      BY <2>1, <3>1
    <3>3. Chain(f, NextStart(f, i), g[NextStart(f, i)])
      BY <1>4, <3>2
    <3>4. Chain(f, i, <<i>> \o g[NextStart(f, i)])
      BY <3>1, <3>3, ChainStep
    <3>5. QED
      BY <1>1, <3>1, <3>4
  <2>4. QED
    BY <2>2, <2>3
<1>5. L - c \in Nat
  OBVIOUS
<1>6. L - c \in T
  <2> HIDE DEF T
  <2>1. QED
    BY <1>3, <1>4, <1>5, Induction
<1>7. QED
  BY <1>1, <1>6

-----------------------------------------------------------------------------
\* The texts in a file and in its parts.

\* A text is the value of a body cell.
LEMMA TextsAre ==
  ASSUME NEW f \in Seq(Cells)
  PROVE  /\ Texts(f) \subseteq Msgs
         /\ \A m : m \in Texts(f)
                     <=> \E x \in 1..Len(f) : f[x].k = "body" /\ f[x].v = m
<1>1. DOMAIN f = 1..Len(f) /\ \A x \in 1..Len(f) : f[x] \in Cells
  OBVIOUS
<1>2. \A m : m \in Texts(f) <=> \E x \in 1..Len(f) : f[x].k = "body" /\ f[x].v = m
  BY <1>1 DEF Texts
<1>3. QED
  BY <1>1, <1>2, CellValues

\* A piece of a file.
LEMMA PieceIs ==
  ASSUME NEW f \in Seq(Cells), NEW a \in 1..(Len(f) + 1),
         NEW b \in (a - 1)..Len(f)
  PROVE  /\ SubSeq(f, a, b) \in Seq(Cells)
         /\ Len(SubSeq(f, a, b)) = b + 1 - a
         /\ \A i \in 1..(b + 1 - a) : SubSeq(f, a, b)[i] = f[a + i - 1]
<1>1. a \in Nat /\ b \in Nat /\ b + 1 - a \in Nat
  OBVIOUS
<1>2. SubSeq(f, a, b) = [i \in 1..(b + 1 - a) |-> f[a + i - 1]]
  BY <1>1
<1>3. \A i \in 1..(b + 1 - a) : a + i - 1 \in 1..Len(f)
  BY <1>1
<1>4. \A i \in 1..(b + 1 - a) : f[a + i - 1] \in Cells
  BY <1>3
<1>5. QED
  BY <1>1, <1>2, <1>4

\* Its texts.
LEMMA TextsOfPiece ==
  ASSUME NEW f \in Seq(Cells), NEW a \in 1..(Len(f) + 1),
         NEW b \in (a - 1)..Len(f)
  PROVE  /\ Texts(SubSeq(f, a, b)) \subseteq Texts(f)
         /\ \A x \in a..b : f[x].k = "body" => f[x].v \in Texts(SubSeq(f, a, b))
<1>1. PICK g : g = SubSeq(f, a, b)
  OBVIOUS
<1>2. /\ g \in Seq(Cells) /\ Len(g) = b + 1 - a
      /\ \A i \in 1..(b + 1 - a) : g[i] = f[a + i - 1]
  BY <1>1, PieceIs
<1>3. ASSUME NEW m \in Texts(g) PROVE m \in Texts(f)
  <2>1. PICK i \in 1..Len(g) : g[i].k = "body" /\ g[i].v = m
    BY <1>2, TextsAre
  <2>2. a + i - 1 \in 1..Len(f) /\ g[i] = f[a + i - 1]
    BY <1>2
  <2>3. QED
    BY <2>1, <2>2, TextsAre
<1>4. ASSUME NEW x \in a..b, f[x].k = "body" PROVE f[x].v \in Texts(g)
  <2>1. x - a + 1 \in 1..Len(g) /\ a + (x - a + 1) - 1 = x
    BY <1>2
  <2>2. g[x - a + 1] = f[x]
    BY <1>2, <2>1
  <2>3. QED
    BY <1>2, <1>4, <2>1, <2>2, TextsAre
<1>5. QED
  BY <1>1, <1>3, <1>4

\* The texts of two pieces written one behind the other.
LEMMA TextsOfConcat ==
  ASSUME NEW f \in Seq(Cells), NEW g \in Seq(Cells)
  PROVE  f \o g \in Seq(Cells) /\ Texts(f \o g) = Texts(f) \cup Texts(g)
<1>1. PICK h : h = f \o g
  OBVIOUS
<1>2. /\ h \in Seq(Cells) /\ Len(h) = Len(f) + Len(g)
      /\ \A x \in 1..Len(h) :
           h[x] = IF x <= Len(f) THEN f[x] ELSE g[x - Len(f)]
  BY <1>1, ConcatProperties
<1>3. ASSUME NEW m \in Texts(h) PROVE m \in Texts(f) \cup Texts(g)
  <2>1. PICK x \in 1..Len(h) : h[x].k = "body" /\ h[x].v = m
    BY <1>2, TextsAre
  <2>2. CASE x <= Len(f)
    <3>1. x \in 1..Len(f) /\ h[x] = f[x]
      BY <1>2, <2>2
    <3>2. QED
      BY <2>1, <3>1, TextsAre
  <2>3. CASE x > Len(f)
    <3>1. x - Len(f) \in 1..Len(g) /\ h[x] = g[x - Len(f)]
      BY <1>2, <2>3
    <3>2. QED
      BY <2>1, <3>1, TextsAre
  <2>4. QED
    BY <2>2, <2>3
<1>4. ASSUME NEW m \in Texts(f) PROVE m \in Texts(h)
  <2>1. PICK x \in 1..Len(f) : f[x].k = "body" /\ f[x].v = m
    BY TextsAre
  <2>2. x \in 1..Len(h) /\ h[x] = f[x]
    BY <1>2
  <2>3. QED
    BY <1>2, <2>1, <2>2, TextsAre
<1>5. ASSUME NEW m \in Texts(g) PROVE m \in Texts(h)
  <2>1. PICK x \in 1..Len(g) : g[x].k = "body" /\ g[x].v = m
    BY TextsAre
  <2>2. /\ Len(f) + x \in 1..Len(h) /\ ~(Len(f) + x <= Len(f))
        /\ (Len(f) + x) - Len(f) = x
    BY <1>2
  <2>3. h[Len(f) + x] = g[x]
    BY <1>2, <2>2
  <2>4. QED
    BY <1>2, <2>1, <2>2, <2>3, TextsAre
<1>6. QED
  BY <1>1, <1>2, <1>3, <1>4, <1>5

\* What mailmbox_parse_additionnal notes of a message.
LEMMA MsgInfoIs ==
  ASSUME NEW f \in Seq(Cells), NEW s \in 1..Len(f), NEW u \in Uids
  PROVE  /\ MsgInfo(f, s, u) \in Entries
         /\ MsgInfo(f, s, u).texts \subseteq Texts(f)
         /\ \A x \in s..(NextStart(f, s) - 1) :
              f[x].k = "body" => f[x].v \in MsgInfo(f, s, u).texts
<1>1. /\ NextStart(f, s) \in (s + 1)..(Len(f) + 1)
      /\ FieldsEnd(f, s) \in s..NextStart(f, s)
  BY NextStartIs
<1>2. PICK b : b = NextStart(f, s) - 1
  OBVIOUS
<1>3. s \in 1..(Len(f) + 1) /\ b \in (s - 1)..Len(f)
  BY <1>1, <1>2
<1>4. /\ Texts(SubSeq(f, s, b)) \subseteq Texts(f)
      /\ \A x \in s..b : f[x].k = "body" => f[x].v \in Texts(SubSeq(f, s, b))
  BY <1>3, TextsOfPiece
<1>5. Texts(SubSeq(f, s, b)) \in SUBSET Msgs
  BY <1>4, TextsAre
<1>6. MsgInfo(f, s, u).texts = Texts(SubSeq(f, s, b))
  BY <1>2 DEF MsgInfo
<1>7. s \in Nat /\ FieldsEnd(f, s) \in Nat /\ NextStart(f, s) \in Nat
  BY <1>1
<1>8. (u # 0) \in BOOLEAN /\ FALSE \in BOOLEAN
  OBVIOUS
<1>9. MsgInfo(f, s, u) \in Entries
  BY <1>2, <1>5, <1>7, <1>8 DEF MsgInfo, Entries
<1>10. QED
  BY <1>2, <1>4, <1>6, <1>9

-----------------------------------------------------------------------------
\* The loops over the table and over the messages: each recursion has a solution.

KnownTurn(tab, c, a, k) ==
  IF tab[k].start < c \/ tab[k].written THEN Append(a, tab[k]) ELSE a

\* The loop that removes the temporary entries from c on.
LEMMA KnownLoop ==
  ASSUME NEW tab, NEW c, Len(tab) \in Nat
  PROVE  \E g : /\ Known(tab, c) = g[Len(tab)]
                /\ g[0] = <<>>
                /\ \A k \in 1..Len(tab) :
                     g[k] = KnownTurn(tab, c, g[k - 1], k)
<1> DEFINE base == <<>>
           Turn(a, k) == KnownTurn(tab, c, a, k)
           IsLoop(g, n) ==
             g = [k \in 0..n |-> IF k = 0 THEN base ELSE Turn(g[k - 1], k)]
           T == {n \in Nat : \E g : IsLoop(g, n)}
<1> HIDE DEF base, Turn
<1>1. 0 \in T
  <2>1. PICK g : g = [k \in 0..0 |-> base]
    OBVIOUS
  <2>2. IsLoop(g, 0)
    BY <2>1
  <2>3. QED
    BY <2>2
<1>2. ASSUME NEW n \in Nat, n \in T PROVE n + 1 \in T
  <2>1. PICK h : IsLoop(h, n)
    BY <1>2
  <2>2. PICK g : g = [k \in 0..(n + 1) |->
                        IF k = n + 1 THEN Turn(h[n], n + 1) ELSE h[k]]
    OBVIOUS
  <2>3. ASSUME NEW k \in 0..(n + 1)
        PROVE  g[k] = IF k = 0 THEN base ELSE Turn(g[k - 1], k)
    BY <2>1, <2>2, <2>3
  <2>4. IsLoop(g, n + 1)
    BY <2>2, <2>3
  <2>5. QED
    BY <2>4
<1>3. Len(tab) \in T
  <2> HIDE DEF T
  <2>1. QED
    BY <1>1, <1>2, Induction
<1>4. PICK g : g = CHOOSE h : IsLoop(h, Len(tab))
  OBVIOUS
<1>5. IsLoop(g, Len(tab))
  BY <1>3, <1>4
<1>6. Known(tab, c) = g[Len(tab)]
  BY <1>4 DEF Known, KnownTurn, base, Turn
<1>7. g[0] = base /\ \A k \in 1..Len(tab) : g[k] = Turn(g[k - 1], k)
  BY <1>5
<1>8. QED
  BY <1>6, <1>7 DEF base, Turn

\* The loop over the messages that are parsed.
LEMMA ParsedLoop ==
  ASSUME NEW f, NEW starts, NEW known, Len(starts) \in Nat
  PROVE  \E g : /\ Parsed(f, starts, known) = g[Len(starts)]
                /\ g[0] = known
                /\ \A k \in 1..Len(starts) :
                     g[k] = AddParsed(f, g[k - 1], starts[k])
<1> DEFINE base == known
           Turn(a, k) == AddParsed(f, a, starts[k])
           IsLoop(g, n) ==
             g = [k \in 0..n |-> IF k = 0 THEN base ELSE Turn(g[k - 1], k)]
           T == {n \in Nat : \E g : IsLoop(g, n)}
<1> HIDE DEF base, Turn
<1>1. 0 \in T
  <2>1. PICK g : g = [k \in 0..0 |-> base]
    OBVIOUS
  <2>2. IsLoop(g, 0)
    BY <2>1
  <2>3. QED
    BY <2>2
<1>2. ASSUME NEW n \in Nat, n \in T PROVE n + 1 \in T
  <2>1. PICK h : IsLoop(h, n)
    BY <1>2
  <2>2. PICK g : g = [k \in 0..(n + 1) |->
                        IF k = n + 1 THEN Turn(h[n], n + 1) ELSE h[k]]
    OBVIOUS
  <2>3. ASSUME NEW k \in 0..(n + 1)
        PROVE  g[k] = IF k = 0 THEN base ELSE Turn(g[k - 1], k)
    BY <2>1, <2>2, <2>3
  <2>4. IsLoop(g, n + 1)
    BY <2>2, <2>3
  <2>5. QED
    BY <2>4
<1>3. Len(starts) \in T
  <2> HIDE DEF T
  <2>1. QED
    BY <1>1, <1>2, Induction
<1>4. PICK g : g = CHOOSE h : IsLoop(h, Len(starts))
  OBVIOUS
<1>5. IsLoop(g, Len(starts))
  BY <1>3, <1>4
<1>6. Parsed(f, starts, known) = g[Len(starts)]
  BY <1>4 DEF Parsed, base, Turn
<1>7. g[0] = base /\ \A k \in 1..Len(starts) : g[k] = Turn(g[k - 1], k)
  BY <1>5
<1>8. QED
  BY <1>6, <1>7 DEF base, Turn

\* The loop that gives out numbers.
LEMMA AttributedLoop ==
  ASSUME NEW parsed, Len(parsed.tab) \in Nat
  PROVE  \E g : /\ Attributed(parsed) = g[Len(parsed.tab)]
                /\ g[0] = [tab |-> <<>>, max |-> parsed.max]
                /\ \A k \in 1..Len(parsed.tab) :
                     g[k] = Attribute(g[k - 1], parsed.tab[k])
<1> DEFINE base == [tab |-> <<>>, max |-> parsed.max]
           Turn(a, k) == Attribute(a, parsed.tab[k])
           IsLoop(g, n) ==
             g = [k \in 0..n |-> IF k = 0 THEN base ELSE Turn(g[k - 1], k)]
           T == {n \in Nat : \E g : IsLoop(g, n)}
<1> HIDE DEF base, Turn
<1>1. 0 \in T
  <2>1. PICK g : g = [k \in 0..0 |-> base]
    OBVIOUS
  <2>2. IsLoop(g, 0)
    BY <2>1
  <2>3. QED
    BY <2>2
<1>2. ASSUME NEW n \in Nat, n \in T PROVE n + 1 \in T
  <2>1. PICK h : IsLoop(h, n)
    BY <1>2
  <2>2. PICK g : g = [k \in 0..(n + 1) |->
                        IF k = n + 1 THEN Turn(h[n], n + 1) ELSE h[k]]
    OBVIOUS
  <2>3. ASSUME NEW k \in 0..(n + 1)
        PROVE  g[k] = IF k = 0 THEN base ELSE Turn(g[k - 1], k)
    BY <2>1, <2>2, <2>3
  <2>4. IsLoop(g, n + 1)
    BY <2>2, <2>3
  <2>5. QED
    BY <2>4
<1>3. Len(parsed.tab) \in T
  <2> HIDE DEF T
  <2>1. QED
    BY <1>1, <1>2, Induction
<1>4. PICK g : g = CHOOSE h : IsLoop(h, Len(parsed.tab))
  OBVIOUS
<1>5. IsLoop(g, Len(parsed.tab))
  BY <1>3, <1>4
<1>6. Attributed(parsed) = g[Len(parsed.tab)]
  BY <1>4 DEF Attributed, base, Turn
<1>7. g[0] = base /\ \A k \in 1..Len(parsed.tab) : g[k] = Turn(g[k - 1], k)
  <2>1. PICK N \in Nat : N = Len(parsed.tab)
    OBVIOUS
  <2>2. IsLoop(g, N)
    BY <1>5, <2>1
  <2>3. g[0] = base /\ \A k \in 1..N : g[k] = Turn(g[k - 1], k)
    BY <2>2
  <2>4. QED
    BY <2>1, <2>3
<1>8. QED
  BY <1>6, <1>7 DEF base, Turn

ExpungeTurn(f, tab, no_uid, a, k) == a \o Kept(f, tab[k], no_uid)

\* The loop that writes the messages that stay.
LEMMA ExpungeLoop ==
  ASSUME NEW f, NEW tab, NEW no_uid, Len(tab) \in Nat
  PROVE  \E g : /\ ExpungeTo(f, tab, no_uid) = g[Len(tab)]
                /\ g[0] = <<>>
                /\ \A k \in 1..Len(tab) :
                     g[k] = ExpungeTurn(f, tab, no_uid, g[k - 1], k)
<1> DEFINE base == <<>>
           Turn(a, k) == ExpungeTurn(f, tab, no_uid, a, k)
           IsLoop(g, n) ==
             g = [k \in 0..n |-> IF k = 0 THEN base ELSE Turn(g[k - 1], k)]
           T == {n \in Nat : \E g : IsLoop(g, n)}
<1> HIDE DEF base, Turn
<1>1. 0 \in T
  <2>1. PICK g : g = [k \in 0..0 |-> base]
    OBVIOUS
  <2>2. IsLoop(g, 0)
    BY <2>1
  <2>3. QED
    BY <2>2
<1>2. ASSUME NEW n \in Nat, n \in T PROVE n + 1 \in T
  <2>1. PICK h : IsLoop(h, n)
    BY <1>2
  <2>2. PICK g : g = [k \in 0..(n + 1) |->
                        IF k = n + 1 THEN Turn(h[n], n + 1) ELSE h[k]]
    OBVIOUS
  <2>3. ASSUME NEW k \in 0..(n + 1)
        PROVE  g[k] = IF k = 0 THEN base ELSE Turn(g[k - 1], k)
    BY <2>1, <2>2, <2>3
  <2>4. IsLoop(g, n + 1)
    BY <2>2, <2>3
  <2>5. QED
    BY <2>4
<1>3. Len(tab) \in T
  <2> HIDE DEF T
  <2>1. QED
    BY <1>1, <1>2, Induction
<1>4. PICK g : g = CHOOSE h : IsLoop(h, Len(tab))
  OBVIOUS
<1>5. IsLoop(g, Len(tab))
  BY <1>3, <1>4
<1>6. ExpungeTo(f, tab, no_uid) = g[Len(tab)]
  BY <1>4 DEF ExpungeTo, ExpungeTurn, base, Turn
<1>7. g[0] = base /\ \A k \in 1..Len(tab) : g[k] = Turn(g[k - 1], k)
  BY <1>5
<1>8. QED
  BY <1>6, <1>7 DEF base, Turn

-----------------------------------------------------------------------------
\* The turns of the loops.

\* What the loops carry along.
Accs == [tab : Seq(Entries), max : Uids]

\* The numbers of a table are different.
Distinct(tab) == \A i, j \in DOMAIN tab : tab[i].uid = tab[j].uid => i = j

WithUid(e, u) == [e EXCEPT !.uid = u]

\* Another number in an entry.
LEMMA WithUidIs ==
  ASSUME NEW e \in Entries, NEW u \in Uids
  PROVE  /\ WithUid(e, u) \in Entries
         /\ WithUid(e, u).uid = u
         /\ WithUid(e, u).start = e.start /\ WithUid(e, u).body = e.body
         /\ WithUid(e, u).next = e.next /\ WithUid(e, u).texts = e.texts
         /\ WithUid(e, u).written = e.written
         /\ WithUid(e, u).deleted = e.deleted
BY DEF WithUid, Entries

\* The fields of an entry.
LEMMA EntryIs ==
  ASSUME NEW e \in Entries
  PROVE  /\ e.start \in Nat /\ e.body \in Nat /\ e.next \in Nat
         /\ e.uid \in Uids /\ e.written \in BOOLEAN /\ e.deleted \in BOOLEAN
         /\ e.texts \in SUBSET Msgs
BY DEF Entries

\* One entry more at the end of a table.
LEMMA TableGrows ==
  ASSUME NEW tab \in Seq(Entries), NEW e \in Entries
  PROVE  /\ Append(tab, e) \in Seq(Entries)
         /\ Len(Append(tab, e)) = Len(tab) + 1
         /\ \A i \in 1..Len(tab) : Append(tab, e)[i] = tab[i]
         /\ Append(tab, e)[Len(tab) + 1] = e
         /\ DOMAIN tab = 1..Len(tab) /\ Len(tab) \in Nat
         /\ DOMAIN Append(tab, e) = 1..(Len(tab) + 1)
BY AppendProperties

\* What an entry of the table becomes when the number is found in a message,
\* and the number the message gets.
Freed(e, found) ==
  IF found # 0 /\ e.uid = found /\ e.written = FALSE THEN WithUid(e, 0) ELSE e

Taken(tab, found) ==
  \E i \in DOMAIN tab : found # 0 /\ tab[i].uid = found /\ tab[i].written = TRUE

GivenUid(tab, found) == IF Taken(tab, found) THEN 0 ELSE found

\* One turn of the loop over the messages.
LEMMA AddParsedIs ==
  ASSUME NEW f \in Seq(Cells), NEW s \in 1..Len(f), NEW acc \in Accs
  PROVE  LET r == AddParsed(f, acc, s)
             n == Len(acc.tab)
             found == UidField(f, s)
             uid == GivenUid(acc.tab, found)
         IN  /\ r \in Accs
             /\ Len(r.tab) = n + 1
             /\ \A i \in 1..n : r.tab[i] = Freed(acc.tab[i], found)
             /\ r.tab[n + 1] = MsgInfo(f, s, uid)
             /\ uid \in Uids
             /\ r.max = Max({acc.max, uid})
<1>1. PICK r, n, found, uid, freed :
        /\ r = AddParsed(f, acc, s) /\ n = Len(acc.tab)
        /\ found = UidField(f, s) /\ uid = GivenUid(acc.tab, found)
        /\ freed = [i \in DOMAIN acc.tab |-> Freed(acc.tab[i], found)]
  OBVIOUS
<1>2. acc.tab \in Seq(Entries) /\ acc.max \in Uids
  BY DEF Accs
<1>3. 0 \in Uids /\ found \in Uids
  BY <1>1, UidFieldType, FormatAssumption DEF Uids
<1>4. uid \in Uids
  BY <1>1, <1>3 DEF GivenUid
<1>5. n \in Nat /\ DOMAIN acc.tab = 1..n /\ \A i \in 1..n : acc.tab[i] \in Entries
  BY <1>1, <1>2
<1>6. \A i \in 1..n : Freed(acc.tab[i], found) \in Entries
  BY <1>3, <1>5, WithUidIs DEF Freed
<1>7. freed \in Seq(Entries) /\ Len(freed) = n
      /\ \A i \in 1..n : freed[i] = Freed(acc.tab[i], found)
  BY <1>1, <1>5, <1>6
<1>8. MsgInfo(f, s, uid) \in Entries
  BY <1>4, MsgInfoIs
<1>9. r = [tab |-> Append(freed, MsgInfo(f, s, uid)), max |-> Max({acc.max, uid})]
  BY <1>1 DEF AddParsed, GivenUid, Taken, Freed, WithUid
<1>10. Max({acc.max, uid}) \in Uids
  BY <1>2, <1>4, MaxOfPair, FormatAssumption DEF Uids
<1>11. /\ r.tab \in Seq(Entries) /\ Len(r.tab) = n + 1
       /\ \A i \in 1..n : r.tab[i] = freed[i]
       /\ r.tab[n + 1] = MsgInfo(f, s, uid)
  BY <1>7, <1>8, <1>9, TableGrows
<1>12. r \in Accs
  BY <1>9, <1>10, <1>11 DEF Accs
<1>13. r.max = Max({acc.max, uid})
  BY <1>9
<1>14. QED
  BY <1>1, <1>4, <1>7, <1>11, <1>12, <1>13

\* The entry that the loop over the table puts into the new one.
Numbered(acc, e) == IF e.uid # 0 THEN e ELSE WithUid(e, NextUid(acc.max))

\* One turn of the loop that gives out numbers.
LEMMA AttributeIs ==
  ASSUME NEW acc \in Accs, NEW e \in Entries
  PROVE  /\ Attribute(acc, e) \in Accs
         /\ Numbered(acc, e) \in Entries
         /\ Attribute(acc, e).tab = Append(acc.tab, Numbered(acc, e))
         /\ Attribute(acc, e).max = IF e.uid # 0 THEN acc.max ELSE NextUid(acc.max)
<1>1. acc.tab \in Seq(Entries) /\ acc.max \in Uids /\ acc = [tab |-> acc.tab, max |-> acc.max]
  BY DEF Accs
<1>2. NextUid(acc.max) \in Uids
  BY <1>1, FormatAssumption DEF NextUid, Uids
<1>3. Numbered(acc, e) \in Entries
  BY <1>2, WithUidIs DEF Numbered
<1>4. Append(acc.tab, Numbered(acc, e)) \in Seq(Entries)
  BY <1>1, <1>3, TableGrows
<1>5. CASE e.uid # 0
  <2>1. Attribute(acc, e) = [tab |-> Append(acc.tab, e), max |-> acc.max]
    BY <1>1, <1>5 DEF Attribute
  <2>2. QED
    BY <1>1, <1>3, <1>4, <1>5, <2>1 DEF Accs, Numbered
<1>6. CASE e.uid = 0
  <2>1. Attribute(acc, e) = [tab |-> Append(acc.tab, Numbered(acc, e)), max |-> NextUid(acc.max)]
    BY <1>6 DEF Attribute, Numbered, WithUid
  <2>2. QED
    BY <1>2, <1>3, <1>4, <1>6, <2>1 DEF Accs
<1>7. QED
  BY <1>5, <1>6

-----------------------------------------------------------------------------
\* What the loops compute.

\* The entries that the first loop leaves are entries of the table.
KnownInv(tab, known, k) ==
  /\ known \in Seq(Entries)
  /\ Len(known) <= k
  /\ \A i \in 1..Len(known) : \E j \in 1..k : known[i] = tab[j]
  /\ Distinct(tab) => Distinct(known)

\* The first loop.
LEMMA KnownIs ==
  ASSUME NEW tab \in Seq(Entries), NEW c
  PROVE  KnownInv(tab, Known(tab, c), Len(tab))
<1>1. Len(tab) \in Nat /\ DOMAIN tab = 1..Len(tab)
      /\ \A k \in 1..Len(tab) : tab[k] \in Entries
  OBVIOUS
<1>2. PICK g : /\ Known(tab, c) = g[Len(tab)]
               /\ g[0] = <<>>
               /\ \A k \in 1..Len(tab) :
                    g[k] = KnownTurn(tab, c, g[k - 1], k)
  BY <1>1, KnownLoop
<1> DEFINE T == {k \in Nat : k <= Len(tab) => KnownInv(tab, g[k], k)}
<1>3. 0 \in T
  <2>1. KnownInv(tab, <<>>, 0)
    BY DEF KnownInv, Distinct
  <2>2. QED
    BY <1>2, <2>1
<1>4. ASSUME NEW k \in Nat, k \in T PROVE k + 1 \in T
  <2>1. SUFFICES ASSUME k + 1 <= Len(tab) PROVE KnownInv(tab, g[k + 1], k + 1)
    OBVIOUS
  <2>2. KnownInv(tab, g[k], k)
    BY <1>1, <1>4, <2>1
  <2>3. PICK e, old : e = tab[k + 1] /\ old = g[k]
    OBVIOUS
  <2>4. k + 1 \in 1..Len(tab) /\ (k + 1) - 1 = k /\ e \in Entries
    BY <1>1, <2>1, <2>3
  <2>5. g[k + 1] \in {old, Append(old, e)}
    <3>1. g[k + 1] = KnownTurn(tab, c, old, k + 1)
      BY <1>2, <2>3, <2>4
    <3>2. QED
      BY <2>3, <3>1 DEF KnownTurn
  <2>6. CASE g[k + 1] = old
    <3>1. \A i \in 1..Len(old) : \E j \in 1..(k + 1) : old[i] = tab[j]
      BY <2>2, <2>3 DEF KnownInv
    <3>2. QED
      BY <2>2, <2>3, <2>6, <3>1 DEF KnownInv
  <2>7. CASE g[k + 1] = Append(old, e)
    <3>1. PICK new : new = g[k + 1]
      OBVIOUS
    <3>2. old \in Seq(Entries)
      BY <2>2, <2>3 DEF KnownInv
    <3>3. /\ new \in Seq(Entries) /\ Len(new) = Len(old) + 1
          /\ \A i \in 1..Len(old) : new[i] = old[i]
          /\ new[Len(old) + 1] = e /\ DOMAIN new = 1..(Len(old) + 1)
          /\ DOMAIN old = 1..Len(old) /\ Len(old) \in Nat
      BY <2>4, <2>7, <3>1, <3>2, TableGrows
    <3>4. \A i \in 1..Len(old) : \E j \in 1..k : old[i] = tab[j]
      BY <2>2, <2>3 DEF KnownInv
    <3>5. ASSUME NEW i \in 1..Len(new) PROVE \E j \in 1..(k + 1) : new[i] = tab[j]
      <4>1. CASE i = Len(old) + 1
        BY <2>3, <3>3, <4>1
      <4>2. CASE i \in 1..Len(old)
        BY <3>3, <3>4, <4>2
      <4>3. QED
        BY <3>3, <4>1, <4>2
    <3>6. ASSUME Distinct(tab) PROVE Distinct(new)
      <4>1. Distinct(old)
        BY <2>2, <2>3, <3>6 DEF KnownInv
      <4>2. ASSUME NEW i \in 1..Len(old) PROVE old[i].uid # e.uid
        <5>1. PICK j \in 1..k : old[i] = tab[j]
          BY <3>4
        <5>2. j \in DOMAIN tab /\ k + 1 \in DOMAIN tab /\ j # k + 1
          BY <1>1, <2>4
        <5>3. QED
          BY <2>3, <3>6, <5>1, <5>2 DEF Distinct
      <4>3. SUFFICES ASSUME NEW i \in 1..(Len(old) + 1), NEW j \in 1..(Len(old) + 1),
                            new[i].uid = new[j].uid
                     PROVE  i = j
        BY <3>3 DEF Distinct
      <4>4. CASE i \in 1..Len(old) /\ j \in 1..Len(old)
        BY <3>3, <4>1, <4>3, <4>4 DEF Distinct
      <4>5. CASE i = Len(old) + 1 \/ j = Len(old) + 1
        BY <3>3, <4>2, <4>3, <4>5
      <4>6. QED
        BY <3>3, <4>4, <4>5
    <3>7. Len(new) <= k + 1
      BY <2>2, <2>3, <3>3 DEF KnownInv
    <3>8. QED
      BY <3>1, <3>3, <3>5, <3>6, <3>7 DEF KnownInv
  <2>8. QED
    BY <2>5, <2>6, <2>7
<1>5. Len(tab) \in T
  <2> HIDE DEF T
  <2>1. QED
    BY <1>1, <1>3, <1>4, Induction
<1>6. QED
  BY <1>1, <1>2, <1>5

\* The numbers in a table under construction: none above the maximum, and the
\* ones that are given are different.
NumsOK(acc) ==
  /\ \A i \in 1..Len(acc.tab) : acc.tab[i].uid <= acc.max
  /\ \A i, j \in 1..Len(acc.tab) :
       acc.tab[i].uid = acc.tab[j].uid /\ acc.tab[i].uid # 0 => i = j

\* The numbers written in a file.
FileBelow(f, B) == \A x \in 1..Len(f) : f[x].k = "uid" => f[x].v <= B

\* An entry stands for what an earlier one stood for, or for new messages.
Origin(e, tab, f) ==
  \/ \E j \in 1..Len(tab) : e.texts = tab[j].texts /\ e.deleted = tab[j].deleted
  \/ e.deleted = FALSE /\ e.texts \subseteq Texts(f)

\* A message's number is one of those in the file.
LEMMA UidFieldBelow ==
  ASSUME NEW f \in Seq(Cells), NEW s \in 1..Len(f), NEW B \in Nat, FileBelow(f, B)
  PROVE  UidField(f, s) <= B
<1>1. CASE FieldsEnd(f, s) = FieldsStart(f, s)
  BY <1>1 DEF UidField
<1>2. CASE FieldsEnd(f, s) # FieldsStart(f, s)
  <2>1. /\ FieldsEnd(f, s) - 1 \in FieldsStart(f, s)..(FieldsEnd(f, s) - 1)
        /\ FieldsEnd(f, s) - 1 \in 1..Len(f)
    BY <1>2, FieldsEndIs
  <2>2. f[FieldsEnd(f, s) - 1].k = "uid"
    BY <2>1, FieldsEndIs
  <2>3. QED
    BY <1>2, <2>1, <2>2 DEF UidField, FileBelow
<1>3. QED
  BY <1>1, <1>2

\* Freeing a number keeps what the entry stands for.
LEMMA FreedIs ==
  ASSUME NEW e \in Entries, NEW found \in Uids
  PROVE  /\ Freed(e, found) \in Entries
         /\ Freed(e, found).texts = e.texts /\ Freed(e, found).deleted = e.deleted
         /\ Freed(e, found).uid \in {0, e.uid}
         /\ (found # 0 /\ e.written = FALSE) => Freed(e, found).uid # found
         /\ e.uid = 0 => Freed(e, found) = e
<1>1. 0 \in Uids
  BY FormatAssumption DEF Uids
<1>2. QED
  BY <1>1, WithUidIs DEF Freed

\* A turn of the loop keeps the numbers different.
LEMMA AddParsedNums ==
  ASSUME NEW f \in Seq(Cells), NEW s \in 1..Len(f), NEW acc \in Accs, NumsOK(acc)
  PROVE  NumsOK(AddParsed(f, acc, s))
<1>1. PICK r, n, found, uid :
        /\ r = AddParsed(f, acc, s) /\ n = Len(acc.tab)
        /\ found = UidField(f, s) /\ uid = GivenUid(acc.tab, found)
  OBVIOUS
<1>2. /\ r \in Accs /\ Len(r.tab) = n + 1 /\ uid \in Uids
      /\ \A i \in 1..n : r.tab[i] = Freed(acc.tab[i], found)
      /\ r.tab[n + 1] = MsgInfo(f, s, uid)
      /\ r.max = Max({acc.max, uid})
  BY <1>1, AddParsedIs
<1>3. acc.tab \in Seq(Entries) /\ acc.max \in Nat /\ uid \in Nat /\ found \in Uids
  BY <1>1, <1>2, UidFieldType DEF Accs, Uids
<1>4. n \in Nat /\ DOMAIN acc.tab = 1..n /\ \A i \in 1..n : acc.tab[i] \in Entries
  BY <1>1, <1>3
<1>5. acc.max <= r.max /\ uid <= r.max /\ r.max \in Nat
  BY <1>2, <1>3, MaxOfPair
<1>6. r.tab[n + 1].uid = uid
  BY <1>2 DEF MsgInfo
<1>7. ASSUME NEW i \in 1..n
      PROVE  acc.tab[i].uid \in Nat /\ r.tab[i].uid \in {0, acc.tab[i].uid}
  <2>1. acc.tab[i].uid \in Uids /\ Freed(acc.tab[i], found).uid \in {0, acc.tab[i].uid}
    BY <1>3, <1>4, FreedIs, EntryIs
  <2>2. QED
    BY <1>2, <2>1 DEF Uids
<1>8. ASSUME NEW i \in 1..(n + 1) PROVE r.tab[i].uid <= r.max
  <2>1. CASE i = n + 1
    BY <1>5, <1>6, <2>1
  <2>2. CASE i \in 1..n
    <3>1. acc.tab[i].uid <= acc.max
      BY <1>1, <2>2 DEF NumsOK
    <3>2. QED
      BY <1>3, <1>5, <1>7, <2>2, <3>1, SMTT(30)
  <2>3. QED
    BY <1>4, <2>1, <2>2
<1>9. ASSUME NEW i \in 1..n, uid # 0 PROVE r.tab[i].uid # uid
  <2>1. uid = found /\ found # 0 /\ ~Taken(acc.tab, found)
    BY <1>1, <1>9 DEF GivenUid
  <2>2. CASE acc.tab[i].written = FALSE
    <3>1. Freed(acc.tab[i], found).uid # found
      BY <1>3, <1>4, <2>1, <2>2, FreedIs
    <3>2. QED
      BY <1>2, <2>1, <3>1
  <2>3. CASE acc.tab[i].written = TRUE
    <3>1. acc.tab[i].uid # found
      BY <1>4, <2>1, <2>3 DEF Taken
    <3>2. QED
      BY <1>7, <1>9, <2>1, <3>1
  <2>4. QED
    BY <1>4, <2>2, <2>3, EntryIs
<1>10. ASSUME NEW i \in 1..(n + 1), NEW j \in 1..(n + 1),
              r.tab[i].uid = r.tab[j].uid, r.tab[i].uid # 0
       PROVE  i = j
  <2>1. CASE i \in 1..n /\ j \in 1..n
    <3>1. acc.tab[i].uid = acc.tab[j].uid /\ acc.tab[i].uid # 0
      BY <1>7, <1>10, <2>1
    <3>2. QED
      BY <1>1, <2>1, <3>1 DEF NumsOK
  <2>2. CASE i = n + 1 /\ j \in 1..n
    BY <1>6, <1>9, <1>10, <2>2
  <2>3. CASE i \in 1..n /\ j = n + 1
    BY <1>6, <1>9, <1>10, <2>3
  <2>4. QED
    BY <1>4, <2>1, <2>2, <2>3
<1>11. QED
  BY <1>1, <1>2, <1>8, <1>10 DEF NumsOK

\* The table after k messages.
ParsedInv(f, known, acc, k) ==
  /\ acc \in Accs
  /\ Len(acc.tab) = Len(known.tab) + k
  /\ known.max <= acc.max
  /\ \A i \in 1..Len(acc.tab) : Origin(acc.tab[i], known.tab, f)
  /\ NumsOK(known) => NumsOK(acc)
  /\ \A B \in Nat : known.max <= B /\ FileBelow(f, B) => acc.max <= B

\* One message more.
LEMMA ParsedStep ==
  ASSUME NEW f \in Seq(Cells), NEW s \in 1..Len(f), NEW known \in Accs,
         NEW acc, NEW k \in Nat, ParsedInv(f, known, acc, k)
  PROVE  ParsedInv(f, known, AddParsed(f, acc, s), k + 1)
<1>1. PICK r, n, found, uid :
        /\ r = AddParsed(f, acc, s) /\ n = Len(acc.tab)
        /\ found = UidField(f, s) /\ uid = GivenUid(acc.tab, found)
  OBVIOUS
<1>2. acc \in Accs /\ acc.tab \in Seq(Entries)
  BY DEF ParsedInv, Accs
<1>3. /\ r \in Accs /\ Len(r.tab) = n + 1 /\ uid \in Uids
      /\ \A i \in 1..n : r.tab[i] = Freed(acc.tab[i], found)
      /\ r.tab[n + 1] = MsgInfo(f, s, uid)
      /\ r.max = Max({acc.max, uid})
  BY <1>1, <1>2, AddParsedIs
<1>4. /\ acc.max \in Nat /\ uid \in Nat /\ known.max \in Nat
      /\ Len(known.tab) \in Nat
  BY <1>2, <1>3 DEF Accs, Uids
<1>5. acc.max <= r.max /\ r.max \in {acc.max, uid}
  BY <1>3, <1>4, MaxOfPair
<1>6. n \in Nat /\ n = Len(known.tab) + k /\ \A i \in 1..n : acc.tab[i] \in Entries
  BY <1>1, <1>2, <1>4 DEF ParsedInv
<1>7. ASSUME NEW i \in 1..(n + 1) PROVE Origin(r.tab[i], known.tab, f)
  <2>1. CASE i = n + 1
    <3>1. MsgInfo(f, s, uid).texts \subseteq Texts(f)
      BY <1>3, MsgInfoIs
    <3>2. MsgInfo(f, s, uid).deleted = FALSE
      BY DEF MsgInfo
    <3>3. QED
      BY <1>3, <2>1, <3>1, <3>2 DEF Origin
  <2>2. CASE i \in 1..n
    <3>1. Origin(acc.tab[i], known.tab, f)
      BY <1>1, <2>2 DEF ParsedInv
    <3>2. found \in Uids
      BY <1>1, UidFieldType
    <3>3. r.tab[i].texts = acc.tab[i].texts /\ r.tab[i].deleted = acc.tab[i].deleted
      <4>1. PICK e : e = acc.tab[i]
        OBVIOUS
      <4>2. Freed(e, found).texts = e.texts /\ Freed(e, found).deleted = e.deleted
        BY <1>6, <2>2, <3>2, <4>1, FreedIs
      <4>3. QED
        BY <1>3, <2>2, <4>1, <4>2
    <3>4. QED
      BY <3>1, <3>3 DEF Origin
  <2>3. QED
    BY <1>6, <2>1, <2>2
<1>8. NumsOK(known) => NumsOK(r)
  BY <1>1, <1>2, AddParsedNums DEF ParsedInv
<1>9. ASSUME NEW B \in Nat, known.max <= B, FileBelow(f, B) PROVE r.max <= B
  <2>1. acc.max <= B
    BY <1>9 DEF ParsedInv
  <2>2. found <= B
    BY <1>1, <1>9, UidFieldBelow
  <2>3. uid <= B
    BY <1>1, <2>2 DEF GivenUid
  <2>4. QED
    BY <1>5, <2>1, <2>3
<1>10. known.max <= r.max
  <2>1. known.max <= acc.max
    BY DEF ParsedInv
  <2>2. r.max \in Nat
    BY <1>4, <1>5
  <2>3. QED
    BY <1>4, <1>5, <2>1, <2>2
<1>11. Len(r.tab) = Len(known.tab) + (k + 1)
  <2>1. PICK m : m = Len(known.tab)
    OBVIOUS
  <2>2. Len(r.tab) = n + 1 /\ n = m + k /\ m \in Nat
    BY <1>3, <1>4, <1>6, <2>1
  <2>3. n + 1 = m + (k + 1)
    BY <2>2
  <2>4. QED
    BY <2>1, <2>2, <2>3
<1>12. QED
  BY <1>1, <1>3, <1>7, <1>8, <1>9, <1>10, <1>11 DEF ParsedInv

\* The loop over the messages.
LEMMA ParsedIs ==
  ASSUME NEW f \in Seq(Cells), NEW starts \in Seq(1..Len(f)), NEW known \in Accs
  PROVE  ParsedInv(f, known, Parsed(f, starts, known), Len(starts))
<1>1. Len(starts) \in Nat /\ \A k \in 1..Len(starts) : starts[k] \in 1..Len(f)
  OBVIOUS
<1>2. PICK g : /\ Parsed(f, starts, known) = g[Len(starts)]
               /\ g[0] = known
               /\ \A k \in 1..Len(starts) : g[k] = AddParsed(f, g[k - 1], starts[k])
  BY <1>1, ParsedLoop
<1> DEFINE T == {k \in Nat : k <= Len(starts) => ParsedInv(f, known, g[k], k)}
<1>3. 0 \in T
  <2>1. known.tab \in Seq(Entries) /\ known.max \in Nat
    BY DEF Accs, Uids
  <2>2. \A i \in 1..Len(known.tab) : Origin(known.tab[i], known.tab, f)
    BY DEF Origin
  <2>3. ParsedInv(f, known, known, 0)
    BY <2>1, <2>2 DEF ParsedInv
  <2>4. QED
    BY <1>2, <2>3
<1>4. ASSUME NEW k \in Nat, k \in T PROVE k + 1 \in T
  <2>1. SUFFICES ASSUME k + 1 <= Len(starts) PROVE ParsedInv(f, known, g[k + 1], k + 1)
    OBVIOUS
  <2>2. ParsedInv(f, known, g[k], k)
    BY <1>1, <1>4, <2>1
  <2>3. k + 1 \in 1..Len(starts) /\ (k + 1) - 1 = k
    BY <1>1, <2>1
  <2>4. g[k + 1] = AddParsed(f, g[k], starts[k + 1])
    BY <1>2, <2>3
  <2>5. QED
    BY <1>1, <2>2, <2>3, <2>4, ParsedStep
<1>5. Len(starts) \in T
  <2> HIDE DEF T
  <2>1. QED
    BY <1>1, <1>3, <1>4, Induction
<1>6. QED
  BY <1>1, <1>2, <1>5

\* A number in the file counts for the first message that carries it.
FirstUid(f, starts, i) ==
  IF \A j \in 1..(i - 1) : UidField(f, starts[j]) # UidField(f, starts[i])
  THEN UidField(f, starts[i]) ELSE 0

\* The table after k messages, when it was empty before.
FreshInv(f, starts, acc, k) ==
  /\ acc \in Accs
  /\ Len(acc.tab) = k
  /\ \A i \in 1..k : acc.tab[i] = MsgInfo(f, starts[i], FirstUid(f, starts, i))

\* The loop over the messages of a file that is parsed from its start.
LEMMA ParsedFresh ==
  ASSUME NEW f \in Seq(Cells), NEW starts \in Seq(1..Len(f)), NEW known \in Accs
  PROVE  known.tab = <<>> =>
           FreshInv(f, starts, Parsed(f, starts, known), Len(starts))
<1>1. Len(starts) \in Nat /\ \A k \in 1..Len(starts) : starts[k] \in 1..Len(f)
  OBVIOUS
<1>2. PICK g : /\ Parsed(f, starts, known) = g[Len(starts)]
               /\ g[0] = known
               /\ \A k \in 1..Len(starts) : g[k] = AddParsed(f, g[k - 1], starts[k])
  BY <1>1, ParsedLoop
<1>0. HAVE known.tab = <<>>
<1> DEFINE T == {k \in Nat : k <= Len(starts) => FreshInv(f, starts, g[k], k)}
<1>3. 0 \in T
  BY <1>0, <1>2 DEF FreshInv
<1>4. ASSUME NEW k \in Nat, k \in T PROVE k + 1 \in T
  <2>1. SUFFICES ASSUME k + 1 <= Len(starts) PROVE FreshInv(f, starts, g[k + 1], k + 1)
    OBVIOUS
  <2>2. FreshInv(f, starts, g[k], k)
    BY <1>1, <1>4, <2>1
  <2>3. k + 1 \in 1..Len(starts) /\ (k + 1) - 1 = k
    BY <1>1, <2>1
  <2>4. PICK acc, r, s, found, uid :
          /\ acc = g[k] /\ r = g[k + 1] /\ s = starts[k + 1]
          /\ found = UidField(f, s) /\ uid = GivenUid(acc.tab, found)
    OBVIOUS
  <2>5. s \in 1..Len(f) /\ r = AddParsed(f, acc, s) /\ found \in Uids
    BY <1>1, <1>2, <2>3, <2>4, UidFieldType
  <2>6. /\ acc \in Accs /\ Len(acc.tab) = k /\ DOMAIN acc.tab = 1..k
        /\ \A i \in 1..k : acc.tab[i] = MsgInfo(f, starts[i], FirstUid(f, starts, i))
        /\ \A i \in 1..k : acc.tab[i] \in Entries
    BY <2>2, <2>4 DEF FreshInv, Accs
  <2>7. /\ r \in Accs /\ Len(r.tab) = k + 1
        /\ \A i \in 1..k : r.tab[i] = Freed(acc.tab[i], found)
        /\ r.tab[k + 1] = MsgInfo(f, s, uid)
    <3>1. PICK n : n = Len(acc.tab)
      OBVIOUS
    <3>2. /\ r \in Accs /\ Len(r.tab) = n + 1
          /\ \A i \in 1..n : r.tab[i] = Freed(acc.tab[i], found)
          /\ r.tab[n + 1] = MsgInfo(f, s, uid)
      <4>1. /\ acc \in Accs /\ s \in 1..Len(f)
            /\ r = AddParsed(f, acc, s) /\ n = Len(acc.tab)
            /\ found = UidField(f, s) /\ uid = GivenUid(acc.tab, found)
        BY <2>4, <2>5, <2>6, <3>1
      <4>2. QED
        BY <4>1, AddParsedIs
    <3>3. n = k
      BY <2>6, <3>1
    <3>4. QED
      BY <3>2, <3>3
  <2>8. ASSUME NEW i \in 1..k
        PROVE  /\ acc.tab[i].uid = FirstUid(f, starts, i)
               /\ acc.tab[i].written = (FirstUid(f, starts, i) # 0)
    <3>1. acc.tab[i] = MsgInfo(f, starts[i], FirstUid(f, starts, i))
      BY <2>6
    <3>2. PICK t, u : t = starts[i] /\ u = FirstUid(f, starts, i)
      OBVIOUS
    <3>3. acc.tab[i] = MsgInfo(f, t, u)
      BY <3>1, <3>2
    <3>4. acc.tab[i].uid = u /\ acc.tab[i].written = (u # 0)
      <4>1. MsgInfo(f, t, u).uid = u /\ MsgInfo(f, t, u).written = (u # 0)
        BY Zenon DEF MsgInfo
      <4>2. QED
        BY <3>3, <4>1, Zenon
    <3>5. QED
      BY <3>2, <3>4
  <2>9. ASSUME NEW i \in 1..k PROVE r.tab[i] = acc.tab[i]
    <3>1. CASE acc.tab[i].written = FALSE
      <4>1. acc.tab[i].uid = 0
        BY <2>8, <3>1
      <4>2. Freed(acc.tab[i], found) = acc.tab[i]
        BY <2>5, <2>6, <4>1, FreedIs
      <4>3. QED
        BY <2>7, <4>2
    <3>2. CASE acc.tab[i].written # FALSE
      BY <2>7, <3>2 DEF Freed
    <3>3. QED
      BY <3>1, <3>2
  <2>10. uid = FirstUid(f, starts, k + 1)
    <3>1. ASSUME Taken(acc.tab, found)
          PROVE  \E j \in 1..k : UidField(f, starts[j]) = found
      <4>1. PICK i \in 1..k : found # 0 /\ acc.tab[i].uid = found
        BY <2>6, <3>1 DEF Taken
      <4>2. FirstUid(f, starts, i) = found
        BY <2>8, <4>1
      <4>3. QED
        BY <4>1, <4>2 DEF FirstUid
    <3>2. ASSUME NEW j \in 1..k, UidField(f, starts[j]) = found, found # 0
          PROVE  Taken(acc.tab, found)
      <4> DEFINE U == {x \in 1..k : UidField(f, starts[x]) = found}
      <4>1. U \in SUBSET Nat /\ j \in U
        BY <3>2
      <4>2. PICK x \in U : \A y \in U : x <= y
        BY <4>1, Least
      <4>3. \A y \in 1..(x - 1) : UidField(f, starts[y]) # UidField(f, starts[x])
        BY <4>2
      <4>4. FirstUid(f, starts, x) = found
        BY <4>2, <4>3 DEF FirstUid
      <4>5. x \in 1..k /\ acc.tab[x].uid = found
        BY <2>8, <4>2, <4>4
      <4>6. acc.tab[x].written = TRUE
        BY <2>6, <2>8, <3>2, <4>4, <4>5, EntryIs
      <4>7. QED
        BY <2>6, <3>2, <4>5, <4>6 DEF Taken
    <3>3. FirstUid(f, starts, k + 1) =
            IF \A j \in 1..k : UidField(f, starts[j]) # found THEN found ELSE 0
      BY <2>3, <2>4 DEF FirstUid
    <3>4. CASE found = 0
      BY <2>4, <3>3, <3>4 DEF GivenUid
    <3>5. CASE found # 0
      BY <2>4, <3>1, <3>2, <3>3, <3>5 DEF GivenUid
    <3>6. QED
      BY <3>4, <3>5
  <2>11. ASSUME NEW i \in 1..(k + 1)
         PROVE  r.tab[i] = MsgInfo(f, starts[i], FirstUid(f, starts, i))
    <3>1. CASE i = k + 1
      BY <2>4, <2>7, <2>10, <3>1
    <3>2. CASE i \in 1..k
      BY <2>6, <2>9, <3>2
    <3>3. QED
      BY <3>1, <3>2
  <2>12. QED
    BY <2>4, <2>7, <2>11 DEF FreshInv
<1>5. Len(starts) \in T
  <2> HIDE DEF T
  <2>1. QED
    BY <1>1, <1>3, <1>4, Induction
<1>6. QED
  BY <1>1, <1>2, <1>5

\* The first k entries with their numbers.
AttributedInv(parsed, acc, k) ==
  /\ acc \in Accs
  /\ Len(acc.tab) = k
  /\ \A i \in 1..k : /\ acc.tab[i] = WithUid(parsed.tab[i], acc.tab[i].uid)
                     /\ parsed.tab[i].uid # 0 => acc.tab[i] = parsed.tab[i]

\* Below the end the counter counts.
LEMMA NextUidBelow ==
  ASSUME NEW u \in Nat, u + 1 < UidSpace
  PROVE  NextUid(u) = u + 1
<1>1. PICK m \in Nat \ {0} : m = UidSpace
  BY FormatAssumption
<1>2. PICK x \in Nat : x = u + 1
  OBVIOUS
<1>3. x < m
  BY <1>1, <1>2
<1>4. x % m = x
  BY <1>3
<1>5. QED
  BY <1>1, <1>2, <1>4 DEF NextUid

\* There are enough numbers left.
Suffice(parsed) == parsed.max + Len(parsed.tab) < UidSpace

\* Then the numbers of the first k entries are different, and the new ones are
\* above the old maximum.
AttributedNums(parsed, acc, k) ==
  /\ parsed.max <= acc.max /\ acc.max <= parsed.max + k
  /\ \A i \in 1..k : /\ acc.tab[i].uid \in 1..acc.max
                     /\ parsed.tab[i].uid = 0 => acc.tab[i].uid > parsed.max
  /\ \A i, j \in 1..k : acc.tab[i].uid = acc.tab[j].uid => i = j

\* One entry more.
LEMMA AttributedStep ==
  ASSUME NEW parsed \in Accs, NEW acc, NEW k \in Nat, k + 1 <= Len(parsed.tab),
         AttributedInv(parsed, acc, k)
  PROVE  AttributedInv(parsed, Attribute(acc, parsed.tab[k + 1]), k + 1)
<1>1. PICK e, r, d : /\ e = parsed.tab[k + 1] /\ r = Attribute(acc, e)
                     /\ d = Numbered(acc, e)
  OBVIOUS
<1>2. acc \in Accs /\ Len(acc.tab) = k /\ parsed.tab \in Seq(Entries)
  BY DEF AttributedInv, Accs
<1>3. e \in Entries
  BY <1>1, <1>2
<1>4. r \in Accs /\ d \in Entries /\ r.tab = Append(acc.tab, d)
  BY <1>1, <1>2, <1>3, AttributeIs
<1>5. acc.tab \in Seq(Entries)
  BY <1>2 DEF Accs
<1>6. /\ Len(r.tab) = k + 1 /\ \A i \in 1..k : r.tab[i] = acc.tab[i]
      /\ r.tab[k + 1] = d
  <2>1. PICK t : t = acc.tab
    OBVIOUS
  <2>2. t \in Seq(Entries) /\ Len(t) = k /\ r.tab = Append(t, d)
    BY <1>2, <1>4, <1>5, <2>1
  <2>3. QED
    BY <1>4, <2>1, <2>2, TableGrows
<1>7. d = WithUid(e, d.uid) /\ (e.uid # 0 => d = e)
  <2>1. CASE e.uid # 0
    BY <1>1, <1>3, <2>1 DEF Numbered, WithUid, Entries
  <2>2. CASE e.uid = 0
    <3>1. NextUid(acc.max) \in Uids
      BY <1>2, FormatAssumption DEF NextUid, Uids, Accs
    <3>2. PICK u \in Uids : u = NextUid(acc.max)
      BY <3>1
    <3>3. d = WithUid(e, u)
      BY <1>1, <2>2, <3>2 DEF Numbered
    <3>4. d.uid = u
      BY <1>3, <3>3, WithUidIs
    <3>5. QED
      BY <2>2, <3>3, <3>4
  <2>3. QED
    BY <2>1, <2>2
<1>8. ASSUME NEW i \in 1..(k + 1)
      PROVE  /\ r.tab[i] = WithUid(parsed.tab[i], r.tab[i].uid)
             /\ parsed.tab[i].uid # 0 => r.tab[i] = parsed.tab[i]
  <2>1. CASE i = k + 1
    BY <1>1, <1>6, <1>7, <2>1
  <2>2. CASE i \in 1..k
    <3>1. /\ acc.tab[i] = WithUid(parsed.tab[i], acc.tab[i].uid)
          /\ parsed.tab[i].uid # 0 => acc.tab[i] = parsed.tab[i]
      BY <2>2 DEF AttributedInv
    <3>2. QED
      BY <1>6, <2>2, <3>1
  <2>3. QED
    BY <2>1, <2>2
<1>9. QED
  BY <1>1, <1>4, <1>6, <1>8 DEF AttributedInv

\* One number more.
LEMMA AttributedNumsStep ==
  ASSUME NEW parsed \in Accs, NEW acc, NEW k \in Nat, k + 1 <= Len(parsed.tab),
         NumsOK(parsed), Suffice(parsed),
         AttributedInv(parsed, acc, k), AttributedNums(parsed, acc, k)
  PROVE  AttributedNums(parsed, Attribute(acc, parsed.tab[k + 1]), k + 1)
<1>1. PICK e, r, d : /\ e = parsed.tab[k + 1] /\ r = Attribute(acc, e)
                     /\ d = Numbered(acc, e)
  OBVIOUS
<1>2. /\ acc \in Accs /\ Len(acc.tab) = k /\ parsed.tab \in Seq(Entries)
      /\ acc.max \in Nat /\ parsed.max \in Nat /\ acc.tab \in Seq(Entries)
  BY DEF AttributedInv, Accs, Uids
<1>3. e \in Entries
  BY <1>1, <1>2
<1>4. /\ r.tab = Append(acc.tab, d) /\ d \in Entries
      /\ r.max = IF e.uid # 0 THEN acc.max ELSE NextUid(acc.max)
  BY <1>1, <1>2, <1>3, AttributeIs
<1>5. /\ \A i \in 1..k : r.tab[i] = acc.tab[i]
      /\ r.tab[k + 1] = d
  <2>1. PICK t : t = acc.tab
    OBVIOUS
  <2>2. t \in Seq(Entries) /\ Len(t) = k /\ r.tab = Append(t, d)
    BY <1>2, <1>4, <2>1
  <2>3. QED
    BY <1>4, <2>1, <2>2, TableGrows
<1>6. NextUid(acc.max) = acc.max + 1
  <2>1. acc.max <= parsed.max + k
    BY DEF AttributedNums
  <2>2. parsed.max + Len(parsed.tab) < UidSpace /\ Len(parsed.tab) \in Nat
    BY <1>2 DEF Suffice
  <2>3. acc.max + 1 < UidSpace /\ UidSpace \in Nat \ {0}
    BY <1>2, <2>1, <2>2, FormatAssumption
  <2>4. QED
    BY <1>2, <2>3, NextUidBelow
<1>7. /\ parsed.max <= acc.max /\ acc.max <= parsed.max + k
      /\ \A i \in 1..k : acc.tab[i].uid \in 1..acc.max
  BY DEF AttributedNums
<1>8. e.uid \in Nat /\ e.uid <= parsed.max
  <2>1. k + 1 \in 1..Len(parsed.tab)
    BY <1>2
  <2>2. QED
    BY <1>1, <1>3, <2>1, EntryIs DEF NumsOK, Uids
<1>9. d.uid = IF e.uid # 0 THEN e.uid ELSE acc.max + 1
  <2>1. CASE e.uid # 0
    BY <1>1, <2>1 DEF Numbered
  <2>2. CASE e.uid = 0
    <3>1. NextUid(acc.max) \in Uids
      BY <1>2, FormatAssumption DEF NextUid, Uids, Accs
    <3>2. PICK u \in Uids : u = NextUid(acc.max)
      BY <3>1
    <3>3. d = WithUid(e, u)
      BY <1>1, <2>2, <3>2 DEF Numbered
    <3>4. d.uid = u
      BY <1>3, <3>3, WithUidIs
    <3>5. QED
      BY <1>6, <2>2, <3>2, <3>4
  <2>3. QED
    BY <2>1, <2>2
<1>10. /\ parsed.max <= r.max /\ r.max <= parsed.max + (k + 1)
       /\ acc.max <= r.max /\ d.uid \in 1..r.max /\ r.max \in Nat
       /\ e.uid = 0 => d.uid > parsed.max
  <2>1. PICK x \in Nat, y \in Nat, u \in Nat :
          x = parsed.max /\ y = acc.max /\ u = e.uid
    BY <1>2, <1>8
  <2>2. x <= y /\ y <= x + k /\ u <= x
    BY <1>7, <1>8, <2>1, Zenon
  <2>3. CASE u # 0
    <3>1. r.max = y /\ d.uid = u
      BY <1>4, <1>9, <2>1, <2>3
    <3>2. x <= y /\ y <= x + (k + 1) /\ y <= y /\ u \in 1..y
      BY <2>2, <2>3
    <3>3. QED
      BY <2>1, <2>3, <3>1, <3>2, Zenon
  <2>4. CASE u = 0
    <3>1. r.max = y + 1 /\ d.uid = y + 1
      BY <1>4, <1>6, <1>9, <2>1, <2>4
    <3>2. /\ x <= y + 1 /\ y + 1 <= x + (k + 1) /\ y <= y + 1 /\ y + 1 \in 1..(y + 1)
          /\ y + 1 \in Nat /\ y + 1 > x
      BY <2>2
    <3>3. QED
      BY <2>1, <3>1, <3>2, Zenon
  <2>5. QED
    BY <2>3, <2>4
<1>11. ASSUME NEW i \in 1..k PROVE acc.tab[i].uid # d.uid
  <2>1. CASE e.uid = 0
    <3>1. acc.tab[i].uid \in 1..acc.max
      BY <1>7
    <3>2. QED
      BY <1>2, <1>9, <2>1, <3>1
  <2>2. CASE e.uid # 0 /\ parsed.tab[i].uid = 0
    <3>1. acc.tab[i].uid > parsed.max /\ acc.tab[i].uid \in Nat
      BY <1>7, <2>2 DEF AttributedNums
    <3>2. QED
      BY <1>2, <1>8, <1>9, <2>2, <3>1
  <2>3. CASE e.uid # 0 /\ parsed.tab[i].uid # 0
    <3>1. acc.tab[i] = parsed.tab[i]
      BY <2>3 DEF AttributedInv
    <3>2. i \in 1..Len(parsed.tab) /\ k + 1 \in 1..Len(parsed.tab) /\ i # k + 1
      BY <1>2
    <3>3. parsed.tab[i].uid # parsed.tab[k + 1].uid
      BY <2>3, <3>2 DEF NumsOK
    <3>4. QED
      BY <1>1, <1>9, <2>3, <3>1, <3>3
  <2>4. QED
    BY <2>1, <2>2, <2>3
<1>12. ASSUME NEW i \in 1..(k + 1)
       PROVE  /\ r.tab[i].uid \in 1..r.max
              /\ parsed.tab[i].uid = 0 => r.tab[i].uid > parsed.max
  <2>1. CASE i = k + 1
    BY <1>1, <1>5, <1>10, <2>1
  <2>2. CASE i \in 1..k
    <3>1. acc.tab[i].uid \in 1..acc.max
          /\ (parsed.tab[i].uid = 0 => acc.tab[i].uid > parsed.max)
      BY <2>2 DEF AttributedNums
    <3>2. r.tab[i] = acc.tab[i]
      BY <1>5, <2>2
    <3>3. QED
      BY <1>2, <1>10, <3>1, <3>2
  <2>3. QED
    BY <2>1, <2>2
<1>13. ASSUME NEW i \in 1..(k + 1), NEW j \in 1..(k + 1),
              r.tab[i].uid = r.tab[j].uid
       PROVE  i = j
  <2>1. CASE i \in 1..k /\ j \in 1..k
    <3>1. acc.tab[i].uid = acc.tab[j].uid
      BY <1>5, <1>13, <2>1
    <3>2. QED
      BY <2>1, <3>1 DEF AttributedNums
  <2>2. CASE i = k + 1 /\ j \in 1..k
    BY <1>5, <1>11, <1>13, <2>2
  <2>3. CASE i \in 1..k /\ j = k + 1
    BY <1>5, <1>11, <1>13, <2>3
  <2>4. QED
    BY <2>1, <2>2, <2>3
<1>14. QED
  BY <1>1, <1>10, <1>12, <1>13 DEF AttributedNums

\* The loop that gives out numbers.
LEMMA AttributedIs ==
  ASSUME NEW parsed \in Accs
  PROVE  /\ AttributedInv(parsed, Attributed(parsed), Len(parsed.tab))
         /\ NumsOK(parsed) /\ Suffice(parsed)
              => AttributedNums(parsed, Attributed(parsed), Len(parsed.tab))
<1>1. parsed.tab \in Seq(Entries) /\ Len(parsed.tab) \in Nat /\ parsed.max \in Uids
  BY DEF Accs
<1>2. PICK N : N = Len(parsed.tab)
  OBVIOUS
<1>3. PICK g : /\ Attributed(parsed) = g[N]
               /\ g[0] = [tab |-> <<>>, max |-> parsed.max]
               /\ \A k \in 1..N : g[k] = Attribute(g[k - 1], parsed.tab[k])
  BY <1>1, <1>2, AttributedLoop
<1> DEFINE T == {k \in Nat : k <= N =>
                   /\ AttributedInv(parsed, g[k], k)
                   /\ NumsOK(parsed) /\ Suffice(parsed)
                        => AttributedNums(parsed, g[k], k)}
<1>4. 0 \in T
  <2>1. g[0] \in Accs /\ g[0].tab = <<>> /\ g[0].max = parsed.max
    BY <1>1, <1>3 DEF Accs
  <2>2. AttributedInv(parsed, g[0], 0)
    BY <2>1 DEF AttributedInv
  <2>3. AttributedNums(parsed, g[0], 0)
    BY <1>1, <2>1 DEF AttributedNums, Uids
  <2>4. QED
    BY <2>2, <2>3
<1>5. ASSUME NEW k \in Nat, k \in T PROVE k + 1 \in T
  <2>1. SUFFICES ASSUME k + 1 <= N
                 PROVE  /\ AttributedInv(parsed, g[k + 1], k + 1)
                        /\ NumsOK(parsed) /\ Suffice(parsed)
                             => AttributedNums(parsed, g[k + 1], k + 1)
    OBVIOUS
  <2>2. N \in Nat /\ k <= N /\ k + 1 \in 1..N /\ (k + 1) - 1 = k
    BY <1>1, <1>2, <2>1
  <2>3. g[k + 1] = Attribute(g[k], parsed.tab[k + 1])
    BY <1>3, <2>2
  <2>4. /\ AttributedInv(parsed, g[k], k)
        /\ NumsOK(parsed) /\ Suffice(parsed) => AttributedNums(parsed, g[k], k)
    BY <1>5, <2>2
  <2>5. k + 1 <= Len(parsed.tab)
    BY <1>2, <2>1
  <2>6. AttributedInv(parsed, g[k + 1], k + 1)
    BY <2>3, <2>4, <2>5, AttributedStep
  <2>7. ASSUME NumsOK(parsed), Suffice(parsed)
        PROVE  AttributedNums(parsed, g[k + 1], k + 1)
    BY <2>3, <2>4, <2>5, <2>7, AttributedNumsStep
  <2>8. QED
    BY <2>6, <2>7
<1>6. N \in T
  <2> HIDE DEF T
  <2>1. QED
    BY <1>1, <1>2, <1>4, <1>5, Induction
<1>7. N \in Nat /\ N <= N
  BY <1>1, <1>2
<1>8. QED
  BY <1>2, <1>3, <1>6, <1>7

-----------------------------------------------------------------------------
\* mailmbox_parse_additionnal and mailmbox_parse

\* The three loops one after the other.
ParseParts(f, tab, w, c, known, parsed, r) ==
  /\ known \in Accs
  /\ known.tab = Known(tab, c)
  /\ KnownInv(tab, known.tab, Len(tab))
  /\ w <= known.max
  /\ \A i \in 1..Len(known.tab) : known.tab[i].uid <= known.max
  /\ known.max = w \/ \E i \in 1..Len(known.tab) : known.max = known.tab[i].uid
  /\ parsed = Parsed(f, Starts(f, c), known)
  /\ ParsedInv(f, known, parsed, Len(Starts(f, c)))
  /\ r.tab = Attributed(parsed).tab
  /\ r.written_uid = parsed.max
  /\ r.max_uid = Attributed(parsed).max

\* The starts of the messages, as a sequence.
LEMMA StartsType ==
  ASSUME NEW f \in Seq(Cells), NEW c \in 1..(Len(f) + 1)
  PROVE  /\ Starts(f, c) \in Seq(1..Len(f))
         /\ Len(Starts(f, c)) \in Nat /\ Len(Starts(f, c)) <= Len(f) + 1 - c
<1>1. PICK S, C, D : S = Starts(f, c) /\ C = c..Len(f) /\ D = 1..Len(f)
  OBVIOUS
<1>2. S \in Seq(C) /\ Len(S) <= Len(f) + 1 - c
  BY <1>1, StartsChain DEF Chain
<1>3. C \subseteq D
  BY <1>1
<1>4. S \in Seq(D) /\ Len(S) \in Nat
  BY <1>2, <1>3, SeqMonotonic
<1>5. QED
  BY <1>1, <1>2, <1>4

\* mailmbox_parse_additionnal is made of them.
LEMMA ParseHasParts ==
  ASSUME NEW f \in Seq(Cells), NEW tab \in Seq(Entries), NEW w \in Uids,
         NEW c \in 1..(Len(f) + 1)
  PROVE  \E known, parsed :
           ParseParts(f, tab, w, c, known, parsed,
                      ParseAdditionnal(f, tab, w, c))
<1>1. PICK k, U, highest, known, parsed, done, r :
        /\ k = Known(tab, c)
        /\ U = {k[i].uid : i \in DOMAIN k}
        /\ highest = Max({w, MaxOf(U)})
        /\ known = [tab |-> k, max |-> highest]
        /\ parsed = Parsed(f, Starts(f, c), known)
        /\ done = Attributed(parsed)
        /\ r = [tab |-> done.tab, written_uid |-> parsed.max, max_uid |-> done.max]
  OBVIOUS
<1>2. r = ParseAdditionnal(f, tab, w, c)
  BY <1>1 DEF ParseAdditionnal
<1>3. KnownInv(tab, k, Len(tab))
  BY <1>1, KnownIs
<1>4. k \in Seq(Entries) /\ DOMAIN k = 1..Len(k) /\ \A i \in 1..Len(k) : k[i] \in Entries
  BY <1>3 DEF KnownInv
<1>5. \A i \in 1..Len(k) : k[i].uid \in Uids
  BY <1>4, EntryIs
<1>6. U \subseteq Uids /\ \A i \in 1..Len(k) : k[i].uid \in U
  BY <1>1, <1>4, <1>5
<1>7. MaxOf(U) \in Uids /\ (\A u \in U : u <= MaxOf(U))
      /\ (U # {} => MaxOf(U) \in U) /\ (U = {} => MaxOf(U) = 0)
  <2>1. CASE U = {}
    BY <2>1, FormatAssumption DEF MaxOf, Uids
  <2>2. CASE U # {}
    <3>1. U \in SUBSET Nat /\ UidSpace \in Nat /\ \A n \in U : n <= UidSpace
      BY <1>6, FormatAssumption DEF Uids
    <3>2. Max(U) \in U /\ \A m \in U : m <= Max(U)
      BY <2>2, <3>1, MaxIsGreatest
    <3>3. QED
      BY <1>6, <2>2, <3>2 DEF MaxOf
  <2>3. QED
    BY <2>1, <2>2
<1>8. w \in Nat /\ MaxOf(U) \in Nat
  BY <1>7 DEF Uids
<1>9. highest \in {w, MaxOf(U)} /\ w <= highest /\ MaxOf(U) <= highest
  BY <1>1, <1>8, MaxOfPair
<1>10. highest \in Uids /\ highest \in Nat
  BY <1>7, <1>8, <1>9
<1>11. known \in Accs /\ known.tab = k /\ known.max = highest
  BY <1>1, <1>4, <1>10 DEF Accs
<1>12. \A i \in 1..Len(k) : k[i].uid <= highest
  <2>1. SUFFICES ASSUME NEW i \in 1..Len(k) PROVE k[i].uid <= highest
    OBVIOUS
  <2>2. k[i].uid <= MaxOf(U) /\ k[i].uid \in Nat
    BY <1>5, <1>6, <1>7 DEF Uids
  <2>3. QED
    BY <1>8, <1>9, <1>10, <2>2
<1>13. highest = w \/ \E i \in 1..Len(k) : highest = k[i].uid
  <2>1. CASE U = {}
    BY <1>7, <1>8, <1>9, <2>1
  <2>2. CASE U # {}
    BY <1>1, <1>4, <1>7, <1>9, <2>2
  <2>3. QED
    BY <2>1, <2>2
<1>14. ParsedInv(f, known, parsed, Len(Starts(f, c)))
  BY <1>1, <1>11, StartsType, ParsedIs
<1>15. r.tab = done.tab /\ r.written_uid = parsed.max /\ r.max_uid = done.max
  BY <1>1
<1>16. ParseParts(f, tab, w, c, known, parsed, r)
  BY <1>1, <1>3, <1>9, <1>11, <1>12, <1>13, <1>14, <1>15 DEF ParseParts
<1>17. QED
  BY <1>2, <1>16

\* The type of the result, and what its entries stand for.
LEMMA ParseTypes ==
  ASSUME NEW f \in Seq(Cells), NEW tab \in Seq(Entries), NEW w \in Uids,
         NEW c \in 1..(Len(f) + 1), NEW r, r = ParseAdditionnal(f, tab, w, c)
  PROVE  /\ r.tab \in Seq(Entries) /\ r.written_uid \in Uids /\ r.max_uid \in Uids
         /\ \A i \in 1..Len(r.tab) : Origin(r.tab[i], tab, f)
<1>1. PICK known, parsed : ParseParts(f, tab, w, c, known, parsed, r)
  BY ParseHasParts
<1>2. PICK done, n : done = Attributed(parsed) /\ n = Len(parsed.tab)
  OBVIOUS
<1>3. parsed \in Accs /\ \A i \in 1..n : Origin(parsed.tab[i], known.tab, f)
  BY <1>1, <1>2 DEF ParseParts, ParsedInv
<1>4. AttributedInv(parsed, done, n)
  BY <1>2, <1>3, AttributedIs
<1>5. done \in Accs /\ Len(done.tab) = n
  BY <1>4 DEF AttributedInv
<1>6. /\ r.tab = done.tab /\ r.tab \in Seq(Entries) /\ r.written_uid \in Uids
      /\ r.max_uid \in Uids
  BY <1>1, <1>2, <1>3, <1>5 DEF ParseParts, Accs
<1>7. ASSUME NEW i \in 1..n PROVE Origin(done.tab[i], tab, f)
  <2>1. PICK e, d, u : e = parsed.tab[i] /\ d = done.tab[i] /\ u = d.uid
    OBVIOUS
  <2>2. e \in Entries /\ d \in Entries /\ u \in Uids
    BY <1>2, <1>3, <1>5, <2>1, EntryIs DEF Accs
  <2>3. d = WithUid(e, u)
    BY <1>4, <2>1 DEF AttributedInv
  <2>4. d.texts = e.texts /\ d.deleted = e.deleted
    BY <2>2, <2>3, WithUidIs
  <2>5. Origin(e, known.tab, f)
    BY <1>3, <2>1
  <2>6. \A j \in 1..Len(known.tab) : \E x \in 1..Len(tab) : known.tab[j] = tab[x]
    BY <1>1 DEF ParseParts, KnownInv
  <2>7. Origin(e, tab, f)
    BY <2>5, <2>6 DEF Origin
  <2>8. QED
    BY <2>1, <2>4, <2>7 DEF Origin
<1>8. QED
  BY <1>5, <1>6, <1>7

\* The numbers of a table.
TableBelow(tab, B) == \A i \in 1..Len(tab) : tab[i].uid <= B

\* A parse that numbers every message, no two alike.
NumsApart(r) ==
  /\ \A i \in 1..Len(r.tab) : r.tab[i].uid \in 1..r.max_uid
  /\ \A i, j \in 1..Len(r.tab) : r.tab[i].uid = r.tab[j].uid => i = j
  /\ r.written_uid <= r.max_uid

\* The result's numbers, when there are enough of them left.
LEMMA ParseNums ==
  ASSUME NEW f \in Seq(Cells), NEW tab \in Seq(Entries), NEW w \in Uids,
         NEW c \in 1..(Len(f) + 1), NEW r, r = ParseAdditionnal(f, tab, w, c),
         NEW B \in Nat, w <= B, TableBelow(tab, B), FileBelow(f, B),
         B + Len(tab) + Len(f) < UidSpace, Distinct(tab)
  PROVE  NumsApart(r)
<1>1. PICK known, parsed : ParseParts(f, tab, w, c, known, parsed, r)
  BY ParseHasParts
<1>2. PICK done, n, m, s : /\ done = Attributed(parsed) /\ n = Len(parsed.tab)
                           /\ m = Len(known.tab) /\ s = Len(Starts(f, c))
  OBVIOUS
<1>3. known \in Accs /\ parsed \in Accs
  BY <1>1 DEF ParseParts, ParsedInv
<1>4. /\ known.tab \in Seq(Entries) /\ m \in Nat /\ m <= Len(tab)
      /\ Distinct(known.tab) /\ DOMAIN known.tab = 1..m
      /\ \A i \in 1..m : \E j \in 1..Len(tab) : known.tab[i] = tab[j]
  BY <1>1, <1>2, <1>3 DEF ParseParts, KnownInv
<1>5. known.max <= B
  <2>1. \A i \in 1..m : known.tab[i].uid <= B
    BY <1>4 DEF TableBelow
  <2>2. QED
    BY <1>1, <1>2, <2>1 DEF ParseParts
<1>6. NumsOK(known)
  BY <1>1, <1>2, <1>4 DEF ParseParts, NumsOK, Distinct
<1>7. NumsOK(parsed) /\ parsed.max <= B /\ n = m + s
  BY <1>1, <1>2, <1>5, <1>6 DEF ParseParts, ParsedInv
<1>8. s \in Nat /\ s <= Len(f)
  BY <1>2, StartsType
<1>9. parsed.max \in Nat /\ UidSpace \in Nat /\ Len(tab) \in Nat /\ Len(f) \in Nat
  BY <1>3, FormatAssumption DEF Accs, Uids
<1>10. Suffice(parsed)
  <2>1. parsed.max + n < UidSpace
    BY <1>4, <1>7, <1>8, <1>9
  <2>2. QED
    BY <1>2, <2>1 DEF Suffice
<1>11. AttributedInv(parsed, done, n) /\ AttributedNums(parsed, done, n)
  BY <1>2, <1>3, <1>7, <1>10, AttributedIs
<1>12. /\ r.tab = done.tab /\ r.max_uid = done.max /\ r.written_uid = parsed.max
       /\ Len(r.tab) = n
  BY <1>1, <1>2, <1>11 DEF ParseParts, AttributedInv
<1>13. QED
  BY <1>11, <1>12 DEF AttributedNums, NumsApart

\* The number an entry of mailmbox_parse's table has is the one in the file,
\* or a new one.
FreshEntry(f, starts, e, i) ==
  /\ e = WithUid(MsgInfo(f, starts[i], FirstUid(f, starts, i)), e.uid)
  /\ FirstUid(f, starts, i) # 0 => e.uid = FirstUid(f, starts, i)

\* The table is empty before the first loop, and afterwards.
LEMMA NothingKnown ==
  ASSUME NEW c PROVE Known(<<>>, c) = <<>>
<1>1. <<>> \in Seq(Entries) /\ Len(<<>>) = 0
  OBVIOUS
<1>2. PICK k : k = Known(<<>>, c)
  OBVIOUS
<1>3. k \in Seq(Entries) /\ Len(k) <= 0
  BY <1>1, <1>2, KnownIs DEF KnownInv
<1>4. QED
  BY <1>2, <1>3

\* mailmbox_parse
LEMMA ParseIs ==
  ASSUME NEW f \in Seq(Cells), NEW w \in Uids,
         NEW r, r = Parse(f, w), NEW starts, starts = Starts(f, 1)
  PROVE  /\ r.tab \in Seq(Entries) /\ r.written_uid \in Uids /\ r.max_uid \in Uids
         /\ Len(r.tab) = Len(starts) /\ starts \in Seq(1..Len(f))
         /\ \A i \in 1..Len(starts) : FreshEntry(f, starts, r.tab[i], i)
<1>1. <<>> \in Seq(Entries) /\ 1 \in 1..(Len(f) + 1) /\ Len(f) \in Nat
  OBVIOUS
<1>2. r = ParseAdditionnal(f, <<>>, w, 1)
  BY DEF Parse
<1>3. r.tab \in Seq(Entries) /\ r.written_uid \in Uids /\ r.max_uid \in Uids
  BY <1>1, <1>2, ParseTypes
<1>4. PICK known, parsed : ParseParts(f, <<>>, w, 1, known, parsed, r)
  BY <1>1, <1>2, ParseHasParts
<1>5. starts \in Seq(1..Len(f)) /\ Len(starts) \in Nat
  BY <1>1, StartsType
<1>6. known \in Accs /\ known.tab = <<>> /\ parsed = Parsed(f, starts, known)
  BY <1>4, NothingKnown DEF ParseParts
<1>7. FreshInv(f, starts, parsed, Len(starts))
  BY <1>5, <1>6, ParsedFresh
<1>8. PICK done, n : done = Attributed(parsed) /\ n = Len(starts)
  OBVIOUS
<1>9. /\ parsed \in Accs /\ Len(parsed.tab) = n
      /\ \A i \in 1..n : parsed.tab[i] = MsgInfo(f, starts[i], FirstUid(f, starts, i))
  BY <1>7, <1>8 DEF FreshInv
<1>10. AttributedInv(parsed, done, n)
  BY <1>8, <1>9, AttributedIs
<1>11. r.tab = done.tab /\ Len(done.tab) = n
  BY <1>4, <1>8, <1>10 DEF ParseParts, AttributedInv
<1>12. ASSUME NEW i \in 1..n PROVE FreshEntry(f, starts, done.tab[i], i)
  <2>1. PICK e, g, u : /\ e = done.tab[i] /\ u = FirstUid(f, starts, i)
                       /\ g = MsgInfo(f, starts[i], u)
    OBVIOUS
  <2>2. g = parsed.tab[i] /\ g.uid = u
    BY <1>9, <2>1 DEF MsgInfo
  <2>3. e = WithUid(g, e.uid) /\ (g.uid # 0 => e = g)
    BY <1>10, <2>1, <2>2 DEF AttributedInv
  <2>4. QED
    BY <2>1, <2>2, <2>3 DEF FreshEntry
<1>13. QED
  BY <1>3, <1>5, <1>8, <1>11, <1>12

\* A number that is given to a message without one is above every number that
\* was written.
LEMMA ParseFreshNums ==
  ASSUME NEW f \in Seq(Cells), NEW w \in Uids,
         NEW r, r = Parse(f, w), NEW starts, starts = Starts(f, 1),
         NEW B \in Nat, w <= B, FileBelow(f, B), B + Len(f) < UidSpace
  PROVE  \A i \in 1..Len(starts) : FirstUid(f, starts, i) = 0 => r.tab[i].uid > w
<1>1. <<>> \in Seq(Entries) /\ 1 \in 1..(Len(f) + 1) /\ Len(f) \in Nat
  OBVIOUS
<1>2. r = ParseAdditionnal(f, <<>>, w, 1)
  BY DEF Parse
<1>3. PICK known, parsed : ParseParts(f, <<>>, w, 1, known, parsed, r)
  BY <1>1, <1>2, ParseHasParts
<1>4. starts \in Seq(1..Len(f)) /\ Len(starts) \in Nat /\ Len(starts) <= Len(f)
  BY <1>1, StartsType
<1>5. known \in Accs /\ known.tab = <<>> /\ parsed = Parsed(f, starts, known)
  BY <1>3, NothingKnown DEF ParseParts
<1>6. FreshInv(f, starts, parsed, Len(starts))
  BY <1>4, <1>5, ParsedFresh
<1>7. PICK done, n : done = Attributed(parsed) /\ n = Len(starts)
  OBVIOUS
<1>8. /\ parsed \in Accs /\ Len(parsed.tab) = n
      /\ \A i \in 1..n : parsed.tab[i] = MsgInfo(f, starts[i], FirstUid(f, starts, i))
  BY <1>6, <1>7 DEF FreshInv
<1>9. NumsOK(known) /\ known.max = w
  BY <1>3, <1>5 DEF ParseParts, NumsOK
<1>10. NumsOK(parsed) /\ known.max <= parsed.max /\ parsed.max <= B
  <2>1. ParsedInv(f, known, parsed, Len(starts))
    BY <1>3 DEF ParseParts
  <2>2. QED
    BY <1>9, <2>1 DEF ParsedInv
<1>11. parsed.max \in Nat /\ w \in Nat
  BY <1>8 DEF Accs, Uids
<1>12. Suffice(parsed)
  <2>1. parsed.max + n < UidSpace
    BY <1>1, <1>4, <1>7, <1>10, <1>11, FormatAssumption
  <2>2. QED
    BY <1>8, <2>1 DEF Suffice
<1>13. AttributedNums(parsed, done, n) /\ r.tab = done.tab
       /\ AttributedInv(parsed, done, n)
  BY <1>3, <1>7, <1>8, <1>10, <1>12, AttributedIs DEF ParseParts
<1>14. SUFFICES ASSUME NEW i \in 1..n, FirstUid(f, starts, i) = 0
                PROVE  r.tab[i].uid > w
  BY <1>7
<1>15. parsed.tab[i].uid = 0
  <2>1. parsed.tab[i] = MsgInfo(f, starts[i], 0)
    BY <1>8, <1>14
  <2>2. QED
    BY <2>1 DEF MsgInfo
<1>16. r.tab[i].uid > parsed.max /\ r.tab[i].uid \in 1..done.max
  BY <1>13, <1>15 DEF AttributedNums
<1>17. done.max \in Nat
  BY <1>13 DEF AttributedInv, Accs, Uids
<1>18. QED
  BY <1>9, <1>10, <1>11, <1>16, <1>17

\* There are numbers left for the messages of the file that is parsed.
FileRoom ==
  \E B \in Nat : written <= B /\ FileBelow(file, B) /\ B + Len(file) < UidSpace

\* Whatever cells a file holds, mailmbox_parse gives every message a number of
\* its own: the one in the file to the first message that carries it, and one
\* above all that were written to the others.
THEOREM NumbersOfAnyFile ==
  ASSUME file \in Seq(Cells), written \in Uids, FileRoom
  PROVE  ParseNumbers
<1>1. PICK r, starts : r = Parse(file, written) /\ starts = Starts(file, 1)
  OBVIOUS
<1>2. PICK B \in Nat : /\ written <= B /\ FileBelow(file, B)
                       /\ B + Len(file) < UidSpace
  BY DEF FileRoom
<1>3. /\ r.tab \in Seq(Entries) /\ Len(r.tab) = Len(starts)
      /\ starts \in Seq(1..Len(file))
      /\ \A i \in 1..Len(starts) : FreshEntry(file, starts, r.tab[i], i)
  BY <1>1, ParseIs
<1>4. PICK n \in Nat : n = Len(starts)
  BY <1>3
<1>5. DOMAIN r.tab = 1..n /\ \A i \in 1..n : r.tab[i] \in Entries
  BY <1>3, <1>4
<1>6. /\ \A i \in 1..n : r.tab[i].uid \in 1..r.max_uid
      /\ \A i, j \in 1..n : r.tab[i].uid = r.tab[j].uid => i = j
  <2>1. PICK t : t = <<>>
    OBVIOUS
  <2>2. t \in Seq(Entries) /\ 1 \in 1..(Len(file) + 1) /\ Len(file) \in Nat
    BY <2>1
  <2>3. TableBelow(t, B) /\ Distinct(t) /\ Len(t) = 0
    BY <2>1 DEF TableBelow, Distinct
  <2>4. r = ParseAdditionnal(file, t, written, 1)
    BY <1>1, <2>1 DEF Parse
  <2>5. B + Len(t) + Len(file) < UidSpace
    BY <1>2, <2>2, <2>3
  <2>6. n = Len(r.tab)
    BY <1>3, <1>4
  <2>7. /\ \A i \in 1..Len(r.tab) : r.tab[i].uid \in 1..r.max_uid
        /\ \A i, j \in 1..Len(r.tab) : r.tab[i].uid = r.tab[j].uid => i = j
    <3>1. PICK f, w : f = file /\ w = written
      OBVIOUS
    <3>2. /\ f \in Seq(Cells) /\ w \in Uids /\ w <= B /\ FileBelow(f, B)
          /\ t \in Seq(Entries) /\ 1 \in 1..(Len(f) + 1)
          /\ r = ParseAdditionnal(f, t, w, 1)
          /\ TableBelow(t, B) /\ Distinct(t) /\ B + Len(t) + Len(f) < UidSpace
      BY <1>2, <2>2, <2>3, <2>4, <2>5, <3>1
    <3>3. NumsApart(r)
      BY <3>2, ParseNums, Zenon
    <3>4. QED
      BY <3>3 DEF NumsApart
  <2>8. QED
    BY <2>6, <2>7
<1>7. ASSUME NEW i \in 1..n
      PROVE  /\ r.tab[i].start = starts[i]
             /\ FirstUid(file, starts, i) \in Uids
             /\ r.tab[i].written = (FirstUid(file, starts, i) # 0)
  <2>1. PICK e, g, u, s : /\ e = r.tab[i] /\ u = FirstUid(file, starts, i)
                          /\ s = starts[i] /\ g = MsgInfo(file, s, u)
    OBVIOUS
  <2>2. e = WithUid(g, e.uid) /\ e \in Entries
    BY <1>3, <1>4, <1>5, <2>1 DEF FreshEntry
  <2>3. s \in 1..Len(file)
    BY <1>3, <1>4, <2>1
  <2>4. u \in Uids
    BY <2>1, <2>3, UidFieldType, FormatAssumption DEF FirstUid, Uids
  <2>5. g \in Entries /\ e.uid \in Uids
    BY <2>1, <2>2, <2>3, <2>4, MsgInfoIs, EntryIs
  <2>6. e.start = g.start /\ e.written = g.written
    BY <2>2, <2>5, WithUidIs
  <2>7. g.start = s /\ g.written = (u # 0)
    BY <2>1, Zenon DEF MsgInfo
  <2>8. QED
    BY <2>1, <2>4, <2>6, <2>7, Zenon
<1>8. ASSUME NEW i \in 1..n
      PROVE  LET u == UidField(file, r.tab[i].start) IN
             /\ r.tab[i].written = (u # 0 /\ \A j \in 1..(i - 1) :
                                               UidField(file, r.tab[j].start) # u)
             /\ r.tab[i].written => r.tab[i].uid = u
             /\ ~r.tab[i].written => r.tab[i].uid > written
  <2>1. PICK u, v : u = UidField(file, starts[i]) /\ v = FirstUid(file, starts, i)
    OBVIOUS
  <2>2. r.tab[i].start = starts[i] /\ r.tab[i].written = (v # 0)
    BY <1>7, <2>1, Zenon
  <2>3. \A j \in 1..(i - 1) : r.tab[j].start = starts[j]
    BY <1>7
  <2>4. v # 0 <=> (u # 0 /\ \A j \in 1..(i - 1) : UidField(file, r.tab[j].start) # u)
    BY <2>1, <2>3 DEF FirstUid
  <2>5. v # 0 => r.tab[i].uid = v /\ v = u
    BY <1>3, <1>4, <2>1 DEF FreshEntry, FirstUid
  <2>6. v = 0 => r.tab[i].uid > written
    BY <1>1, <1>2, <1>4, <2>1, ParseFreshNums
  <2>7. QED
    BY <2>1, <2>2, <2>4, <2>5, <2>6, Zenon
<1>9. QED
  BY <1>1, <1>5, <1>6, <1>8 DEF ParseNumbers, First

-----------------------------------------------------------------------------
\* What an expunge, an append and a truncation leave in the file.

\* An entry lies inside the file.
Inside(f, e) ==
  /\ e.start \in 1..(Len(f) + 1)
  /\ e.body \in e.start..(Len(f) + 1)
  /\ e.next \in e.body..(Len(f) + 1)

\* g holds the texts of the cells a to b - 1 of f.
Holds(g, f, a, b) == \A x \in a..(b - 1) : f[x].k = "body" => f[x].v \in Texts(g)

\* One message is copied.
LEMMA KeptIs ==
  ASSUME NEW f \in Seq(Cells), NEW e \in Entries, Inside(f, e), NEW no_uid
  PROVE  /\ Kept(f, e, no_uid) \in Seq(Cells)
         /\ Texts(Kept(f, e, no_uid)) \subseteq Texts(f)
         /\ ~e.deleted => Holds(Kept(f, e, no_uid), f, e.start, e.next)
<1>1. CASE e.deleted
  <2>1. Kept(f, e, no_uid) = <<>>
    BY <1>1 DEF Kept
  <2>2. <<>> \in Seq(Cells) /\ Texts(<<>>) = {}
    BY DEF Texts
  <2>3. QED
    BY <1>1, <2>1, <2>2
<1>2. CASE ~e.deleted
  <2>1. PICK s, b, n : s = e.start /\ b = e.body /\ n = e.next
    OBVIOUS
  <2>2. s \in 1..(Len(f) + 1) /\ b \in s..(Len(f) + 1) /\ n \in b..(Len(f) + 1)
    BY <2>1 DEF Inside
  <2>3. PICK head, uid, tail :
          /\ head = SubSeq(f, s, b - 1)
          /\ uid = (IF no_uid \/ e.written THEN <<>> ELSE <<Uid(e.uid)>>)
          /\ tail = SubSeq(f, b, n - 1)
    OBVIOUS
  <2>4. Kept(f, e, no_uid) = head \o uid \o tail
    BY <1>2, <2>1, <2>3 DEF Kept
  <2>5. b - 1 \in (s - 1)..Len(f) /\ b \in 1..(Len(f) + 1) /\ n - 1 \in (b - 1)..Len(f)
    BY <2>2
  <2>6. head \in Seq(Cells) /\ tail \in Seq(Cells)
    BY <2>2, <2>3, <2>5, PieceIs
  <2>7. /\ Texts(head) \subseteq Texts(f)
        /\ \A x \in s..(b - 1) : f[x].k = "body" => f[x].v \in Texts(head)
    BY <2>2, <2>3, <2>5, TextsOfPiece
  <2>8. /\ Texts(tail) \subseteq Texts(f)
        /\ \A x \in b..(n - 1) : f[x].k = "body" => f[x].v \in Texts(tail)
    BY <2>3, <2>5, TextsOfPiece
  <2>9. uid \in Seq(Cells) /\ Texts(uid) = {}
    <3>1. Uid(e.uid) \in Cells /\ Uid(e.uid).k = "uid"
      BY CellsWritten, EntryIs DEF Uid
    <3>2. CASE uid = <<>>
      BY <3>2 DEF Texts
    <3>3. CASE uid = <<Uid(e.uid)>>
      <4>1. /\ uid \in Seq(Cells) /\ Len(uid) = 1 /\ DOMAIN uid = 1..1
            /\ uid[1] = Uid(e.uid)
        BY <3>1, <3>3
      <4>2. \A x \in DOMAIN uid : uid[x].k # "body"
        BY <3>1, <4>1
      <4>3. QED
        BY <4>1, <4>2 DEF Texts
    <3>4. QED
      BY <2>3, <3>2, <3>3
  <2>10. PICK hu : hu = head \o uid
    OBVIOUS
  <2>11. hu \in Seq(Cells) /\ Texts(hu) = Texts(head)
    <3>1. hu \in Seq(Cells) /\ Texts(hu) = Texts(head) \cup Texts(uid)
      BY <2>6, <2>9, <2>10, TextsOfConcat
    <3>2. QED
      BY <2>9, <3>1
  <2>12. hu \o tail \in Seq(Cells) /\ Texts(hu \o tail) = Texts(head) \cup Texts(tail)
    BY <2>6, <2>10, <2>11, TextsOfConcat
  <2>13. Kept(f, e, no_uid) = hu \o tail
    BY <2>4, <2>10
  <2>14. ASSUME NEW x \in s..(n - 1), f[x].k = "body"
         PROVE  f[x].v \in Texts(head) \cup Texts(tail)
    <3>1. x \in s..(b - 1) \/ x \in b..(n - 1)
      BY <2>2
    <3>2. QED
      BY <2>7, <2>8, <2>14, <3>1
  <2>15. QED
    BY <2>1, <2>7, <2>8, <2>12, <2>13, <2>14 DEF Holds
<1>3. QED
  BY <1>1, <1>2, EntryIs

\* The entries lie inside the file.
AllInside(f, tab) == \A i \in 1..Len(tab) : Inside(f, tab[i])

\* The new file after k entries.
ExpungeInv(f, tab, g, k) ==
  /\ g \in Seq(Cells)
  /\ Texts(g) \subseteq Texts(f)
  /\ \A i \in 1..k : ~tab[i].deleted => Holds(g, f, tab[i].start, tab[i].next)

\* The expunge copies the text of every message that is not deleted, and
\* nothing else.
LEMMA ExpungeIs ==
  ASSUME NEW f \in Seq(Cells), NEW tab \in Seq(Entries), AllInside(f, tab), NEW no_uid
  PROVE  ExpungeInv(f, tab, ExpungeTo(f, tab, no_uid), Len(tab))
<1>1. Len(tab) \in Nat /\ \A k \in 1..Len(tab) : tab[k] \in Entries
  OBVIOUS
<1>2. PICK g : /\ ExpungeTo(f, tab, no_uid) = g[Len(tab)]
               /\ g[0] = <<>>
               /\ \A k \in 1..Len(tab) : g[k] = ExpungeTurn(f, tab, no_uid, g[k - 1], k)
  BY <1>1, ExpungeLoop
<1> DEFINE T == {k \in Nat : k <= Len(tab) => ExpungeInv(f, tab, g[k], k)}
<1>3. 0 \in T
  <2>1. <<>> \in Seq(Cells) /\ Texts(<<>>) = {}
    BY DEF Texts
  <2>2. ExpungeInv(f, tab, <<>>, 0)
    BY <2>1 DEF ExpungeInv
  <2>3. QED
    BY <1>2, <2>2
<1>4. ASSUME NEW k \in Nat, k \in T PROVE k + 1 \in T
  <2>1. SUFFICES ASSUME k + 1 <= Len(tab) PROVE ExpungeInv(f, tab, g[k + 1], k + 1)
    OBVIOUS
  <2>2. ExpungeInv(f, tab, g[k], k)
    BY <1>1, <1>4, <2>1
  <2>3. k + 1 \in 1..Len(tab) /\ (k + 1) - 1 = k
    BY <1>1, <2>1
  <2>4. PICK e, old, new, piece :
          /\ e = tab[k + 1] /\ old = g[k] /\ new = g[k + 1]
          /\ piece = Kept(f, e, no_uid)
    OBVIOUS
  <2>5. new = old \o piece /\ e \in Entries /\ Inside(f, e)
    BY <1>1, <1>2, <2>3, <2>4 DEF AllInside, ExpungeTurn
  <2>6. /\ piece \in Seq(Cells) /\ Texts(piece) \subseteq Texts(f)
        /\ ~e.deleted => Holds(piece, f, e.start, e.next)
    BY <2>4, <2>5, KeptIs
  <2>7. /\ old \in Seq(Cells) /\ Texts(old) \subseteq Texts(f)
        /\ \A i \in 1..k : ~tab[i].deleted => Holds(old, f, tab[i].start, tab[i].next)
    BY <2>2, <2>4 DEF ExpungeInv
  <2>8. new \in Seq(Cells) /\ Texts(new) = Texts(old) \cup Texts(piece)
    BY <2>5, <2>6, <2>7, TextsOfConcat
  <2>9. ASSUME NEW i \in 1..(k + 1), ~tab[i].deleted
        PROVE  Holds(new, f, tab[i].start, tab[i].next)
    <3>1. CASE i = k + 1
      BY <2>4, <2>6, <2>8, <2>9, <3>1 DEF Holds
    <3>2. CASE i \in 1..k
      BY <2>7, <2>8, <2>9, <3>2 DEF Holds
    <3>3. QED
      BY <3>1, <3>2
  <2>10. QED
    BY <2>4, <2>6, <2>7, <2>8, <2>9 DEF ExpungeInv
<1>5. Len(tab) \in T
  <2> HIDE DEF T
  <2>1. QED
    BY <1>1, <1>3, <1>4, Induction
<1>6. QED
  BY <1>1, <1>2, <1>5

\* ftruncate: the cells of the file, cut off or filled up with zeros.
LEMMA ResizeIs ==
  ASSUME NEW f \in Seq(Cells), NEW n \in Nat
  PROVE  /\ Resize(f, n) \in Seq(Cells) /\ Len(Resize(f, n)) = n
         /\ \A i \in 1..n : Resize(f, n)[i] = IF i <= Len(f) THEN f[i] ELSE Nul
         /\ Texts(Resize(f, n)) \subseteq Texts(f)
         /\ n = Len(f) => Resize(f, n) = f
         /\ n >= Len(f) => Texts(f) \subseteq Texts(Resize(f, n))
         /\ \A B : FileBelow(f, B) => FileBelow(Resize(f, n), B)
<1>1. PICK g : g = Resize(f, n)
  OBVIOUS
<1>2. g = [i \in 1..n |-> IF i <= Len(f) THEN f[i] ELSE Nul]
  BY <1>1 DEF Resize
<1>3. \A i \in 1..n : (IF i <= Len(f) THEN f[i] ELSE Nul) \in Cells
  BY CellsWritten
<1>4. /\ g \in Seq(Cells) /\ Len(g) = n
      /\ \A i \in 1..n : g[i] = IF i <= Len(f) THEN f[i] ELSE Nul
  BY <1>2, <1>3
<1>5. Nul.k = "nul"
  BY DEF Nul
<1>6. ASSUME NEW m \in Texts(g) PROVE m \in Texts(f)
  <2>1. PICK x \in 1..n : g[x].k = "body" /\ g[x].v = m
    BY <1>4, TextsAre
  <2>2. x <= Len(f) /\ g[x] = f[x]
    BY <1>4, <1>5, <2>1
  <2>3. x \in 1..Len(f)
    BY <2>2
  <2>4. QED
    BY <2>1, <2>2, <2>3, TextsAre
<1>7. ASSUME n = Len(f) PROVE g = f
  <2>1. \A i \in 1..Len(g) : g[i] = f[i]
    BY <1>4, <1>7
  <2>2. QED
    BY <1>4, <1>7, <2>1, SeqEqual
<1>8. ASSUME n >= Len(f), NEW m \in Texts(f) PROVE m \in Texts(g)
  <2>1. PICK x \in 1..Len(f) : f[x].k = "body" /\ f[x].v = m
    BY TextsAre
  <2>2. x \in 1..n /\ x <= Len(f)
    BY <1>8
  <2>3. x \in 1..Len(g) /\ g[x] = f[x]
    BY <1>4, <2>2
  <2>4. QED
    BY <1>4, <2>1, <2>3, TextsAre
<1>9. ASSUME NEW B, FileBelow(f, B) PROVE FileBelow(g, B)
  <2>1. SUFFICES ASSUME NEW x \in 1..n, g[x].k = "uid" PROVE g[x].v <= B
    BY <1>4 DEF FileBelow
  <2>2. x <= Len(f) /\ g[x] = f[x]
    BY <1>4, <1>5, <2>1
  <2>3. x \in 1..Len(f)
    BY <2>2
  <2>4. QED
    BY <1>9, <2>1, <2>2, <2>3 DEF FileBelow
<1>10. QED
  BY <1>1, <1>4, <1>6, <1>7, <1>8, <1>9

\* An append writes the text of the message and no other.
LEMMA NewCellsAre ==
  ASSUME NEW f \in Seq(Cells), NEW m \in Msgs, NEW u \in Uids, NEW no_uid
  PROVE  /\ NewCells(f, m, u, no_uid) \in Seq(Cells)
         /\ Texts(NewCells(f, m, u, no_uid)) = {m}
<1>1. PICK pad, from, uid, body :
        /\ pad = (IF f = <<>> THEN <<>> ELSE [i \in 1..(2 - CrlfCount(f)) |-> Nl])
        /\ from = <<From>>
        /\ uid = (IF no_uid THEN <<>> ELSE <<Uid(u)>>)
        /\ body = <<Body(m)>>
  OBVIOUS
<1>2. NewCells(f, m, u, no_uid) = pad \o from \o uid \o body
  BY <1>1 DEF NewCells
<1>3. pad \in Seq(Cells) /\ Texts(pad) = {}
  <2>1. CASE pad = <<>>
    BY <2>1 DEF Texts
  <2>2. CASE pad = [i \in 1..(2 - CrlfCount(f)) |-> Nl]
    <3>1. CrlfCount(f) \in {0, 1, 2}
      BY DEF CrlfCount
    <3>2. PICK n \in Nat : n = 2 - CrlfCount(f)
      BY <3>1
    <3>3. pad = [i \in 1..n |-> Nl]
      BY <2>2, <3>2
    <3>4. pad \in Seq(Cells) /\ \A i \in 1..Len(pad) : pad[i] = Nl
      BY <3>3, CellsWritten
    <3>5. \A x \in DOMAIN pad : pad[x].k # "body"
      BY <3>4 DEF Nl
    <3>6. QED
      BY <3>4, <3>5 DEF Texts
  <2>3. QED
    BY <1>1, <2>1, <2>2
<1>4. from \in Seq(Cells) /\ Texts(from) = {}
  <2>1. from \in Seq(Cells) /\ DOMAIN from = 1..1 /\ from[1] = From
    BY <1>1, CellsWritten
  <2>2. \A x \in DOMAIN from : from[x].k # "body"
    BY <2>1 DEF From
  <2>3. QED
    BY <2>1, <2>2 DEF Texts
<1>5. uid \in Seq(Cells) /\ Texts(uid) = {}
  <2>1. CASE uid = <<>>
    BY <2>1 DEF Texts
  <2>2. CASE uid = <<Uid(u)>>
    <3>1. uid \in Seq(Cells) /\ DOMAIN uid = 1..1 /\ uid[1] = Uid(u)
      BY <2>2, CellsWritten
    <3>2. \A x \in DOMAIN uid : uid[x].k # "body"
      BY <3>1 DEF Uid
    <3>3. QED
      BY <3>1, <3>2 DEF Texts
  <2>3. QED
    BY <1>1, <2>1, <2>2
<1>6. body \in Seq(Cells) /\ Texts(body) = {m}
  <2>1. body \in Seq(Cells) /\ DOMAIN body = 1..1 /\ body[1] = Body(m)
    BY <1>1, CellsWritten
  <2>2. body[1].k = "body" /\ body[1].v = m
    BY <2>1 DEF Body
  <2>3. QED
    BY <2>1, <2>2 DEF Texts
<1>7. PICK a, b, c : a = pad \o from /\ b = a \o uid /\ c = b \o body
  OBVIOUS
<1>8. a \in Seq(Cells) /\ Texts(a) = {}
  <2>1. a \in Seq(Cells) /\ Texts(a) = Texts(pad) \cup Texts(from)
    BY <1>3, <1>4, <1>7, TextsOfConcat
  <2>2. QED
    BY <1>3, <1>4, <2>1
<1>9. b \in Seq(Cells) /\ Texts(b) = {}
  <2>1. b \in Seq(Cells) /\ Texts(b) = Texts(a) \cup Texts(uid)
    BY <1>5, <1>7, <1>8, TextsOfConcat
  <2>2. QED
    BY <1>5, <1>8, <2>1
<1>10. c \in Seq(Cells) /\ Texts(c) = {m}
  <2>1. c \in Seq(Cells) /\ Texts(c) = Texts(b) \cup Texts(body)
    BY <1>6, <1>7, <1>9, TextsOfConcat
  <2>2. QED
    BY <1>6, <1>9, <2>1
<1>11. QED
  BY <1>2, <1>7, <1>10

\* They are written behind the c cells that the file had before.
LEMMA OverwriteIs ==
  ASSUME NEW f \in Seq(Cells), NEW g \in Seq(Cells), NEW c \in Nat,
         c + Len(g) = Len(f)
  PROVE  /\ Overwrite(f, c, g) \in Seq(Cells) /\ Len(Overwrite(f, c, g)) = Len(f)
         /\ Texts(Overwrite(f, c, g)) \subseteq Texts(f) \cup Texts(g)
         /\ Texts(g) \subseteq Texts(Overwrite(f, c, g))
         /\ Texts(Resize(f, c)) \subseteq Texts(Overwrite(f, c, g))
<1>1. PICK h, o, n : h = Overwrite(f, c, g) /\ o = Resize(f, c) /\ n = Len(f)
  OBVIOUS
<1>2. /\ n \in Nat /\ DOMAIN f = 1..n /\ Len(g) \in Nat /\ DOMAIN g = 1..Len(g)
      /\ c <= n /\ c + Len(g) = n
      /\ \A i \in 1..n : f[i] \in Cells
      /\ \A i \in 1..Len(g) : g[i] \in Cells
  BY <1>1
<1>3. h = [i \in 1..n |-> IF i - c \in 1..Len(g) THEN g[i - c] ELSE f[i]]
  BY <1>1, <1>2 DEF Overwrite
<1>4. \A i \in 1..n : (IF i - c \in 1..Len(g) THEN g[i - c] ELSE f[i]) \in Cells
  BY <1>2
<1>5. /\ h \in Seq(Cells) /\ Len(h) = n
      /\ \A i \in 1..n : h[i] = IF i - c \in 1..Len(g) THEN g[i - c] ELSE f[i]
  BY <1>2, <1>3, <1>4
<1>6. /\ o \in Seq(Cells) /\ Len(o) = c
      /\ \A i \in 1..c : o[i] = IF i <= Len(f) THEN f[i] ELSE Nul
  BY <1>1, ResizeIs
<1>7. ASSUME NEW m \in Texts(h) PROVE m \in Texts(f) \cup Texts(g)
  <2>1. PICK x \in 1..n : h[x].k = "body" /\ h[x].v = m
    BY <1>5, TextsAre
  <2>2. CASE x - c \in 1..Len(g)
    <3>1. h[x] = g[x - c]
      BY <1>5, <2>2
    <3>2. QED
      BY <2>1, <2>2, <3>1, TextsAre
  <2>3. CASE x - c \notin 1..Len(g)
    <3>1. h[x] = f[x] /\ x \in 1..Len(f)
      BY <1>1, <1>5, <2>3
    <3>2. QED
      BY <2>1, <3>1, TextsAre
  <2>4. QED
    BY <2>2, <2>3
<1>8. ASSUME NEW m \in Texts(g) PROVE m \in Texts(h)
  <2>1. PICK x \in 1..Len(g) : g[x].k = "body" /\ g[x].v = m
    BY TextsAre
  <2>2. c + x \in 1..n /\ (c + x) - c = x
    BY <1>2
  <2>3. h[c + x] = g[x]
    BY <1>5, <2>2
  <2>4. QED
    BY <1>5, <2>1, <2>2, <2>3, TextsAre
<1>9. ASSUME NEW m \in Texts(o) PROVE m \in Texts(h)
  <2>1. PICK x \in 1..c : o[x].k = "body" /\ o[x].v = m
    BY <1>6, TextsAre
  <2>2. x \in 1..n /\ x <= Len(f) /\ x - c \notin 1..Len(g)
    BY <1>1, <1>2
  <2>3. h[x] = f[x] /\ o[x] = f[x]
    BY <1>5, <1>6, <2>2
  <2>4. QED
    BY <1>5, <2>1, <2>2, <2>3, TextsAre
<1>10. QED
  BY <1>1, <1>5, <1>7, <1>8, <1>9

-----------------------------------------------------------------------------
\* A table that fits a file.

\* What Current says of the table.
Fits(f, tab) ==
  LET starts == Starts(f, 1) IN
  /\ DOMAIN tab = DOMAIN starts
  /\ \A i \in DOMAIN starts :
       LET e == tab[i]
           g == MsgInfo(f, starts[i], e.uid)
       IN  /\ e.start = g.start /\ e.body = g.body /\ e.next = g.next
           /\ e.texts = g.texts
           /\ e.written => e.uid = UidField(f, starts[i])

\* Only the number and what is said of it depend on the number.
LEMMA MsgInfoSame ==
  ASSUME NEW f, NEW s, NEW u, NEW v
  PROVE  /\ MsgInfo(f, s, u).start = MsgInfo(f, s, v).start
         /\ MsgInfo(f, s, u).body = MsgInfo(f, s, v).body
         /\ MsgInfo(f, s, u).next = MsgInfo(f, s, v).next
         /\ MsgInfo(f, s, u).texts = MsgInfo(f, s, v).texts
BY DEF MsgInfo

\* The table that mailmbox_parse makes fits the file.
LEMMA ParseFits ==
  ASSUME NEW f \in Seq(Cells), NEW w \in Uids
  PROVE  Fits(f, Parse(f, w).tab)
<1>1. PICK r, starts : r = Parse(f, w) /\ starts = Starts(f, 1)
  OBVIOUS
<1>2. /\ r.tab \in Seq(Entries) /\ Len(r.tab) = Len(starts)
      /\ starts \in Seq(1..Len(f))
      /\ \A i \in 1..Len(starts) : FreshEntry(f, starts, r.tab[i], i)
  BY <1>1, ParseIs
<1>3. PICK n \in Nat : n = Len(starts)
  BY <1>2
<1>4. DOMAIN r.tab = 1..n /\ DOMAIN starts = 1..n
  BY <1>2, <1>3
<1>5. ASSUME NEW i \in 1..n
      PROVE  LET e == r.tab[i]
                 g == MsgInfo(f, starts[i], e.uid)
             IN  /\ e.start = g.start /\ e.body = g.body /\ e.next = g.next
                 /\ e.texts = g.texts
                 /\ e.written => e.uid = UidField(f, starts[i])
  <2>1. PICK e, s, u, h : /\ e = r.tab[i] /\ s = starts[i]
                          /\ u = FirstUid(f, starts, i) /\ h = MsgInfo(f, s, u)
    OBVIOUS
  <2>2. e \in Entries /\ s \in 1..Len(f) /\ FreshEntry(f, starts, e, i)
    BY <1>2, <1>3, <2>1
  <2>3. e = WithUid(h, e.uid) /\ (u # 0 => e.uid = u)
    BY <2>1, <2>2 DEF FreshEntry
  <2>4. u \in Uids /\ (u # 0 => u = UidField(f, s))
    BY <2>1, <2>2, UidFieldType, FormatAssumption DEF FirstUid, Uids
  <2>5. h \in Entries /\ e.uid \in Uids
    BY <2>1, <2>2, <2>4, MsgInfoIs, EntryIs
  <2>6. /\ e.start = h.start /\ e.body = h.body /\ e.next = h.next
        /\ e.texts = h.texts /\ e.written = h.written
    BY <2>3, <2>5, WithUidIs
  <2>7. h.written = (u # 0)
    BY <2>1, Zenon DEF MsgInfo
  <2>8. e.written => e.uid = UidField(f, s)
    BY <2>3, <2>4, <2>6, <2>7, Zenon
  <2>9. PICK g : g = MsgInfo(f, s, e.uid)
    OBVIOUS
  <2>10. /\ g.start = h.start /\ g.body = h.body /\ g.next = h.next
         /\ g.texts = h.texts
    BY <2>1, <2>9, MsgInfoSame
  <2>11. QED
    BY <2>1, <2>6, <2>8, <2>9, <2>10
<1>6. QED
  BY <1>1, <1>4, <1>5 DEF Fits

\* Its entries lie inside the file and cover it.
LEMMA FitsCovers ==
  ASSUME NEW f \in Seq(Cells), NEW tab \in Seq(Entries), Fits(f, tab)
  PROVE  /\ AllInside(f, tab)
         /\ \A x \in 1..Len(f) : \E i \in 1..Len(tab) :
              /\ x \in tab[i].start..(tab[i].next - 1)
              /\ f[x].k = "body" => f[x].v \in tab[i].texts
<1>1. PICK starts : starts = Starts(f, 1)
  OBVIOUS
<1>2. Chain(f, 1, starts)
  BY <1>1, StartsChain
<1>3. PICK n \in Nat : n = Len(tab)
  OBVIOUS
<1>4. starts \in Seq(1..Len(f)) /\ DOMAIN tab = 1..n /\ DOMAIN tab = DOMAIN starts
  BY <1>1, <1>2, <1>3 DEF Chain, Fits
<1>5. n = Len(starts)
  BY <1>3, <1>4
<1>6. ASSUME NEW i \in 1..n
      PROVE  /\ starts[i] \in 1..Len(f) /\ tab[i].start = starts[i]
             /\ tab[i].body = FieldsEnd(f, starts[i])
             /\ tab[i].next = NextStart(f, starts[i])
             /\ \A x \in starts[i]..(NextStart(f, starts[i]) - 1) :
                  f[x].k = "body" => f[x].v \in tab[i].texts
  <2>1. PICK e, s, g : e = tab[i] /\ s = starts[i] /\ g = MsgInfo(f, s, e.uid)
    OBVIOUS
  <2>2. s \in 1..Len(f) /\ e \in Entries
    BY <1>3, <1>4, <1>5, <2>1
  <2>3. /\ e.start = g.start /\ e.body = g.body /\ e.next = g.next
        /\ e.texts = g.texts
    BY <1>1, <1>4, <2>1 DEF Fits
  <2>4. g.start = s /\ g.body = FieldsEnd(f, s) /\ g.next = NextStart(f, s)
    BY <2>1 DEF MsgInfo
  <2>5. \A x \in s..(NextStart(f, s) - 1) : f[x].k = "body" => f[x].v \in g.texts
    BY <2>1, <2>2, MsgInfoIs, EntryIs
  <2>6. QED
    BY <2>1, <2>2, <2>3, <2>4, <2>5
<1>7. ASSUME NEW i \in 1..n PROVE Inside(f, tab[i])
  <2>1. PICK s : s = starts[i]
    OBVIOUS
  <2>2. /\ s \in 1..Len(f) /\ tab[i].start = s /\ tab[i].body = FieldsEnd(f, s)
        /\ tab[i].next = NextStart(f, s)
    BY <1>6, <2>1
  <2>3. /\ NextStart(f, s) \in (s + 1)..(Len(f) + 1)
        /\ FieldsEnd(f, s) \in s..NextStart(f, s)
    BY <2>2, NextStartIs
  <2>4. QED
    BY <2>2, <2>3 DEF Inside
<1>8. ASSUME NEW x \in 1..Len(f)
      PROVE  \E i \in 1..n : /\ x \in tab[i].start..(tab[i].next - 1)
                             /\ f[x].k = "body" => f[x].v \in tab[i].texts
  <2>1. PICK i \in 1..n : starts[i] <= x /\ x < NextStart(f, starts[i])
    BY <1>2, <1>5 DEF Chain
  <2>2. PICK s, t : s = starts[i] /\ t = NextStart(f, s)
    OBVIOUS
  <2>3. s \in 1..Len(f) /\ tab[i].start = s /\ tab[i].next = t
    BY <1>6, <2>2
  <2>4. t \in (s + 1)..(Len(f) + 1)
    BY <2>2, <2>3, NextStartIs
  <2>5. x \in s..(t - 1)
    BY <2>1, <2>2, <2>3, <2>4
  <2>6. f[x].k = "body" => f[x].v \in tab[i].texts
    BY <1>6, <2>2, <2>5
  <2>7. QED
    BY <2>3, <2>5, <2>6
<1>9. QED
  BY <1>3, <1>7, <1>8 DEF AllInside

\* A message is in the rewritten file unless its entry was marked deleted.
LEMMA ExpungeKeeps ==
  ASSUME NEW f \in Seq(Cells), NEW tab \in Seq(Entries), Fits(f, tab),
         NEW no_uid, NEW X, X = ExpungeTo(f, tab, no_uid)
  PROVE  /\ X \in Seq(Cells) /\ Texts(X) \subseteq Texts(f)
         /\ \A m \in Texts(f) :
              m \in Texts(X) \/ \E i \in 1..Len(tab) : tab[i].deleted /\ m \in tab[i].texts
<1>1. AllInside(f, tab)
  BY FitsCovers
<1>2. ExpungeInv(f, tab, X, Len(tab))
  BY <1>1, ExpungeIs
<1>3. ASSUME NEW m \in Texts(f)
      PROVE  m \in Texts(X) \/ \E i \in 1..Len(tab) : tab[i].deleted /\ m \in tab[i].texts
  <2>1. PICK x \in 1..Len(f) : f[x].k = "body" /\ f[x].v = m
    BY TextsAre
  <2>2. PICK i \in 1..Len(tab) : /\ x \in tab[i].start..(tab[i].next - 1)
                                 /\ f[x].k = "body" => f[x].v \in tab[i].texts
    BY FitsCovers
  <2>3. CASE tab[i].deleted
    BY <2>1, <2>2, <2>3
  <2>4. CASE ~tab[i].deleted
    <3>1. Holds(X, f, tab[i].start, tab[i].next)
      BY <1>2, <2>4 DEF ExpungeInv
    <3>2. QED
      BY <2>1, <2>2, <3>1 DEF Holds
  <2>5. QED
    BY <2>3, <2>4
<1>4. QED
  BY <1>2, <1>3 DEF ExpungeInv

-----------------------------------------------------------------------------
\* The inductive invariant of Mbox, for as long as nobody began to write with
\* an outdated view.

Working == {"expunge", "append", "write", "unlock"}

\* Who changes the file holds the lock; an append has a message; what is to be
\* mapped again is open.
Control ==
  \A p \in Procs :
    /\ pc[p] \in Working => lock = p
    /\ pc[p] \in {"append", "write"} => call[p].op = "append"
    /\ call[p].op = "append" => call[p].msg \in Msgs
    /\ pc[p] \in {"lock", "stale"} /\ call[p].changed => mb[p].mb_fd \in Inodes

\* Who is about to change the file sees it as it is.
ViewInv == \A p \in Procs : pc[p] \in {"expunge", "append"} => Current(mb[p])

\* Between ftruncate and the write the file has room for the new cells, and
\* what was there before is in front of them.
Writing(p) ==
  LET f == data[path]
      c == call[p].size
  IN  /\ mb[p].mb_fd = path
      /\ Len(f) = c + Len(NewCells(Resize(f, c), call[p].msg, call[p].uid,
                                   p \in NoUid))
      /\ kept \subseteq Texts(Resize(f, c))

WriteInv == \A p \in Procs : pc[p] = "write" => Writing(p)

\* The accepted messages are in the file, the appended one before it is
\* accepted.
Stored ==
  /\ kept \subseteq Texts(data[path])
  /\ \A p \in Procs :
       pc[p] = "unlock" /\ call[p].op = "append" /\ call[p].ok
         => call[p].msg \in Texts(data[path])

InTab(fol, m) == \E i \in 1..Len(fol.mb_tab) : m \in fol.mb_tab[i].texts

InDeleted(fol, m) ==
  \E i \in 1..Len(fol.mb_tab) : fol.mb_tab[i].deleted /\ m \in fol.mb_tab[i].texts

\* A message that is in no file and in no table.
Nowhere(m) ==
  /\ \A i \in Inodes : m \notin Texts(data[i])
  /\ \A q \in Procs : ~InTab(mb[q], m)

\* The message of an append that goes on.
PendingOK(p) ==
  /\ call[p].msg \notin unsent
  /\ pc[p] # "unlock" => Nowhere(call[p].msg)
  /\ \A q \in Procs : /\ q # p => ~InTab(mb[q], call[p].msg)
                      /\ ~InDeleted(mb[q], call[p].msg)

\* A message is nowhere before it is delivered or appended.
Fresh ==
  /\ \A m \in unsent : Nowhere(m)
  /\ \A p \in Procs : call[p].op = "append" => PendingOK(p)
  /\ \A p, q \in Procs :
       call[p].op = "append" /\ call[q].op = "append" /\ p # q
         => call[p].msg # call[q].msg

\* No entry that is marked deleted stands for a message that is to be kept.
Spared == \A p \in Procs : \A m \in kept : ~InDeleted(mb[p], m)

MInv == TypeOK /\ Control /\ ViewInv /\ WriteInv /\ Stored /\ Fresh /\ Spared

\* The agent delivers with its lock file in place.
AgentInv == pc[Agent] = "deliver" => lock = Agent

\* The state changes of the actions, in parts.

\* A folder's fields.
LEMMA FolderIs ==
  ASSUME NEW fol \in Folders
  PROVE  /\ fol.mb_fd \in Inodes \cup {NoFd} /\ fol.mb_mapping_size \in Nat
         /\ fol.mb_mtime \in 0..(MaxTime + 1) /\ fol.mb_tab \in Seq(Entries)
         /\ fol.mb_written_uid \in Uids /\ fol.mb_max_uid \in Uids
         /\ fol.mb_changed \in BOOLEAN /\ fol.mb_deleted_count \in Nat
BY DEF Folders

\* A new folder.
LEMMA FolderNewIs ==
  FolderNew \in Folders /\ FolderNew.mb_tab = <<>>
<1>1. 0 \in Uids /\ MaxTime + 1 \in 0..(MaxTime + 1)
  BY FormatAssumption, MboxAssumption DEF Uids
<1>2. <<>> \in Seq(Entries)
  OBVIOUS
<1>3. QED
  BY <1>1, <1>2 DEF FolderNew, Folders, NoFd

\* No operation.
LEMMA NoCallIs ==
  NoCall \in Calls /\ NoCall.op = "none" /\ NoCall.changed = FALSE
<1>1. 0 \in Uids /\ 0 \in 0..MaxTime
  BY FormatAssumption, MboxAssumption DEF Uids
<1>2. QED
  BY <1>1 DEF NoCall, Calls, Ops

\* The fields of a call.
LEMMA CallIs ==
  ASSUME NEW c \in Calls
  PROVE  /\ c.op \in Ops /\ c.msg \in Msgs \cup {None} /\ c.uid \in Uids
         /\ c.mtime \in 0..MaxTime /\ c.changed \in BOOLEAN /\ c.size \in Nat
         /\ c.ok \in BOOLEAN
BY DEF Calls

\* mailmbox_map and mailmbox_parse leave a folder whose table fits the mapping.
ReadFrom(bytes, size, r) ==
  /\ r \in Folders
  /\ r.mb_mapping_size = size
  /\ Fits(Resize(bytes, size), r.mb_tab)
  /\ \A i \in 1..Len(r.mb_tab) : /\ r.mb_tab[i].deleted = FALSE
                                 /\ r.mb_tab[i].texts \subseteq Texts(bytes)

LEMMA MapAndParseIs ==
  ASSUME NEW fol \in Folders, NEW bytes \in Seq(Cells), NEW size \in Nat,
         NEW r, r = MapAndParse(fol, bytes, size)
  PROVE  ReadFrom(bytes, size, r)
<1>1. PICK f, w, t : f = Resize(bytes, size) /\ w = fol.mb_written_uid /\ t = Parse(f, w)
  OBVIOUS
<1>2. f \in Seq(Cells) /\ w \in Uids /\ Texts(f) \subseteq Texts(bytes)
  BY <1>1, ResizeIs, FolderIs
<1>3. t.tab \in Seq(Entries) /\ t.written_uid \in Uids /\ t.max_uid \in Uids
  BY <1>1, <1>2, ParseIs
<1>4. r = [fol EXCEPT !.mb_mapping_size = size, !.mb_tab = t.tab,
                      !.mb_written_uid = t.written_uid, !.mb_max_uid = t.max_uid]
  BY <1>1 DEF MapAndParse
<1>5. r \in Folders /\ r.mb_mapping_size = size /\ r.mb_tab = t.tab
  BY <1>3, <1>4 DEF Folders
<1>6. Fits(f, t.tab)
  BY <1>1, <1>2, ParseFits
<1>7. ASSUME NEW i \in 1..Len(t.tab)
      PROVE  t.tab[i].deleted = FALSE /\ t.tab[i].texts \subseteq Texts(bytes)
  <2>1. PICK e0 : e0 = <<>>
    OBVIOUS
  <2>2. e0 \in Seq(Entries) /\ Len(e0) = 0 /\ 1 \in 1..(Len(f) + 1)
    BY <1>2, <2>1
  <2>3. t = ParseAdditionnal(f, e0, w, 1)
    BY <1>1, <2>1 DEF Parse
  <2>4. Origin(t.tab[i], e0, f)
    BY <1>2, <2>2, <2>3, ParseTypes
  <2>5. QED
    BY <1>2, <2>2, <2>4 DEF Origin
<1>8. QED
  BY <1>1, <1>5, <1>6, <1>7 DEF ReadFrom

\* There is always a free inode.
LEMMA FreeInodeIs ==
  ASSUME TypeOK
  PROVE  FreeInode \in Inodes
<1>1. PICK fds, used : /\ fds = {mb[q].mb_fd : q \in Procs}
                       /\ used = {path} \cup fds
  OBVIOUS
<1>2. IsFiniteSet(Procs) /\ IsFiniteSet(Inodes) /\ Cardinality(Inodes) > Cardinality(Procs) + 1
      /\ Inodes \subseteq Nat
  BY MboxAssumption
<1>3. IsFiniteSet(fds) /\ Cardinality(fds) <= Cardinality(Procs)
  <2>1. PICK g : g = [q \in Procs |-> mb[q].mb_fd]
    OBVIOUS
  <2>2. g \in Surjection(Procs, fds)
    BY <1>1, <2>1 DEF Surjection
  <2>3. QED
    BY <1>2, <2>2, FS_Surjection
<1>4. IsFiniteSet(used) /\ Cardinality(used) <= Cardinality(fds) + 1
  <2>1. PICK x : x = path
    OBVIOUS
  <2>2. used = fds \cup {x} /\ Cardinality(fds) \in Nat
    BY <1>1, <1>3, <2>1, FS_CardinalityType
  <2>3. IsFiniteSet(fds \cup {x})
        /\ Cardinality(fds \cup {x}) = IF x \in fds THEN Cardinality(fds) ELSE Cardinality(fds) + 1
    BY <1>3, FS_AddElement
  <2>4. QED
    BY <2>2, <2>3
<1>5. /\ Cardinality(Procs) \in Nat /\ Cardinality(Inodes) \in Nat
      /\ Cardinality(fds) \in Nat /\ Cardinality(used) \in Nat
  BY <1>2, <1>3, <1>4, FS_CardinalityType
<1>6. ~(Inodes \subseteq used)
  <2>1. SUFFICES ASSUME Inodes \subseteq used PROVE FALSE
    OBVIOUS
  <2>2. Cardinality(Inodes) <= Cardinality(used)
    BY <1>4, <2>1, FS_Subset
  <2>3. QED
    BY <1>2, <1>3, <1>4, <1>5, <2>2
<1>7. PICK T : T = Inodes \ used
  OBVIOUS
<1>8. T \in SUBSET Nat /\ T # {} /\ FreeInode = Min(T)
  BY <1>1, <1>2, <1>6, <1>7 DEF FreeInode
<1>9. QED
  BY <1>7, <1>8, MinIsLeast

-----------------------------------------------------------------------------
\* Steps that leave the files alone.

SameFiles == path' = path /\ data' = data

\* Nobody comes to work on the file, and nobody who does is disturbed.
QuietProcs ==
  \A q \in Procs :
    /\ pc'[q] \in {"expunge", "append", "write"}
         => pc[q] = pc'[q] /\ mb'[q] = mb[q] /\ call'[q] = call[q]
    /\ pc'[q] = "unlock" /\ call'[q].op = "append" /\ call'[q].ok
         => pc[q] = "unlock" /\ call[q].op = "append" /\ call[q].ok
              /\ call'[q].msg = call[q].msg

\* The tables stand for no more than before.
TabsLess ==
  \A q \in Procs, m \in Msgs : /\ InTab(mb'[q], m) => InTab(mb[q], m)
                               /\ InDeleted(mb'[q], m) => InDeleted(mb[q], m)

FilesLess == \A i \in Inodes : Texts(data'[i]) \subseteq Texts(data[i])

\* No append begins.
CallsLess ==
  \A q \in Procs :
    call'[q].op = "append" => /\ call[q].op = "append" /\ call'[q].msg = call[q].msg
                              /\ pc[q] = "unlock" => pc'[q] = "unlock"

\* What is said of the file stays true.
LEMMA QuietFile ==
  ASSUME MInv, SameFiles, QuietProcs, kept' \subseteq kept
  PROVE  ViewInv' /\ WriteInv' /\ Stored'
<1>1. ASSUME NEW q \in Procs, pc'[q] \in {"expunge", "append"}
      PROVE  Current(mb[q])'
  <2>1. pc[q] = pc'[q] /\ mb'[q] = mb[q]
    BY <1>1 DEF QuietProcs
  <2>2. Current(mb[q])
    BY <1>1, <2>1 DEF MInv, ViewInv
  <2>3. QED
    BY <2>1, <2>2 DEF Current, SameFiles
<1>2. ASSUME NEW q \in Procs, pc'[q] = "write"
      PROVE  Writing(q)'
  <2>1. pc[q] = "write" /\ mb'[q] = mb[q] /\ call'[q] = call[q]
    BY <1>2 DEF QuietProcs
  <2>2. Writing(q)
    BY <2>1 DEF MInv, WriteInv
  <2>3. QED
    BY <2>1, <2>2 DEF Writing, SameFiles
<1>3. Stored'
  BY DEF MInv, Stored, SameFiles, QuietProcs
<1>4. QED
  BY <1>1, <1>2, <1>3 DEF ViewInv, WriteInv

\* The messages that are nowhere stay there.
LEMMA QuietFresh ==
  ASSUME MInv, FilesLess, TabsLess, CallsLess, unsent' \subseteq unsent
  PROVE  Fresh'
<1>1. unsent \subseteq Msgs
  BY DEF MInv, TypeOK
<1>2. ASSUME NEW m \in Msgs, Nowhere(m) PROVE Nowhere(m)'
  BY <1>2 DEF Nowhere, FilesLess, TabsLess
<1>3. \A m \in unsent' : Nowhere(m)'
  BY <1>1, <1>2 DEF MInv, Fresh
<1>4. ASSUME NEW q \in Procs, call'[q].op = "append" PROVE PendingOK(q)'
  <2>1. /\ call[q].op = "append" /\ call'[q].msg = call[q].msg
        /\ pc[q] = "unlock" => pc'[q] = "unlock"
    BY <1>4 DEF CallsLess
  <2>2. PICK m : m = call[q].msg
    OBVIOUS
  <2>3. m \in Msgs /\ PendingOK(q) /\ call'[q].msg = m
    BY <2>1, <2>2 DEF MInv, Control, Fresh
  <2>4. m \notin unsent'
    BY <2>2, <2>3 DEF PendingOK
  <2>5. pc'[q] # "unlock" => Nowhere(m)'
    BY <1>2, <2>1, <2>2, <2>3 DEF PendingOK
  <2>6. ASSUME NEW x \in Procs
        PROVE  (x # q => ~InTab(mb'[x], m)) /\ ~InDeleted(mb'[x], m)
    BY <2>2, <2>3 DEF PendingOK, TabsLess
  <2>7. QED
    BY <2>3, <2>4, <2>5, <2>6 DEF PendingOK, Nowhere
<1>5. ASSUME NEW x \in Procs, NEW y \in Procs, x # y,
             call'[x].op = "append", call'[y].op = "append"
      PROVE  call'[x].msg # call'[y].msg
  BY <1>5 DEF CallsLess, MInv, Fresh
<1>6. QED
  BY <1>3, <1>4, <1>5 DEF Fresh

\* A deleted entry stands for nothing new.
LEMMA QuietSpared ==
  ASSUME MInv, TabsLess, kept' \subseteq kept
  PROVE  Spared'
BY DEF MInv, TypeOK, Spared, TabsLess

\* The tables are the same or thrown away.
LEMMA TabsLessFrom ==
  ASSUME \A q \in Procs : mb'[q].mb_tab \in {mb[q].mb_tab, <<>>}
  PROVE  TabsLess
<1>1. ASSUME NEW q \in Procs, NEW m \in Msgs
      PROVE  /\ InTab(mb'[q], m) => InTab(mb[q], m)
             /\ InDeleted(mb'[q], m) => InDeleted(mb[q], m)
  <2>1. CASE mb'[q].mb_tab = mb[q].mb_tab
    BY <2>1 DEF InTab, InDeleted
  <2>2. CASE mb'[q].mb_tab = <<>>
    <3>1. Len(mb'[q].mb_tab) = 0
      BY <2>2
    <3>2. QED
      BY <3>1 DEF InTab, InDeleted
  <2>3. QED
    BY <2>1, <2>2
<1>2. QED
  BY <1>1 DEF TabsLess

\* All of it together.
LEMMA Quiet ==
  ASSUME MInv, TypeOK', Control', SameFiles, QuietProcs, CallsLess,
         kept' \subseteq kept, unsent' \subseteq unsent,
         \A q \in Procs : mb'[q].mb_tab \in {mb[q].mb_tab, <<>>}
  PROVE  MInv'
<1>1. TabsLess
  BY TabsLessFrom
<1>2. FilesLess
  BY DEF FilesLess, SameFiles
<1>3. ViewInv' /\ WriteInv' /\ Stored'
  BY QuietFile
<1>4. Fresh' /\ Spared'
  BY <1>1, <1>2, QuietFresh, QuietSpared
<1>5. QED
  BY <1>3, <1>4 DEF MInv

-----------------------------------------------------------------------------
\* Every step preserves the invariant.

\* The entry of an operation.
LEMMA EnterIs ==
  ASSUME TypeOK, NEW p \in Procs, NEW c \in Calls, Enter(p, c)
  PROVE  /\ calls' \in 0..MaxCalls /\ call' \in [Procs -> Calls]
         /\ pc' \in [Procs \cup {Agent} -> Labels]
         /\ \A q \in Procs : q # p => call'[q] = call[q] /\ pc'[q] = pc[q]
         /\ call'[p].op = c.op /\ call'[p].msg = c.msg
         /\ pc'[p] \in {"reopen", "lock"}
         /\ pc'[p] = "lock" => call'[p].changed = FALSE
<1>1. PICK ch : ch = FileChanged(p)
  OBVIOUS
<1>2. ch \in BOOLEAN
  BY <1>1 DEF FileChanged
<1>3. PICK d : d = [c EXCEPT !.mtime = mtime[path], !.changed = ch]
  OBVIOUS
<1>4. mtime[path] \in 0..MaxTime
  BY DEF TypeOK
<1>5. d \in Calls /\ d.op = c.op /\ d.msg = c.msg /\ d.changed = ch
  BY <1>2, <1>3, <1>4 DEF Calls
<1>6. call' = [call EXCEPT ![p] = d] /\ call \in [Procs -> Calls]
  BY <1>1, <1>3 DEF Enter, TypeOK
<1>7. /\ pc' = [pc EXCEPT ![p] = IF ch THEN "reopen" ELSE "lock"]
      /\ pc \in [Procs \cup {Agent} -> Labels]
  BY <1>1 DEF Enter, Go, TypeOK
<1>8. call'[p] = d /\ call' \in [Procs -> Calls]
      /\ \A q \in Procs : q # p => call'[q] = call[q]
  BY <1>5, <1>6
<1>9. /\ pc'[p] = IF ch THEN "reopen" ELSE "lock"
      /\ pc' \in [Procs \cup {Agent} -> Labels] /\ \A q \in Procs : q # p => pc'[q] = pc[q]
  BY <1>7 DEF Labels
<1>10. calls' \in 0..MaxCalls
  BY MboxAssumption DEF Enter, TypeOK
<1>11. pc'[p] = "lock" => call'[p].changed = FALSE
  BY <1>2, <1>5, <1>8, <1>9
<1>12. QED
  BY <1>5, <1>8, <1>9, <1>10, <1>11

\* The start of an operation that appends nothing.
LEMMA EnterQuiet ==
  ASSUME MInv, NEW p \in Procs, NEW c \in Calls, c.op # "append", Enter(p, c),
         UNCHANGED <<now, disk, lock, mb, crashes, ghosts>>
  PROVE  MInv'
<1>1. TypeOK
  BY DEF MInv
<1>2. /\ calls' \in 0..MaxCalls /\ call' \in [Procs -> Calls]
      /\ pc' \in [Procs \cup {Agent} -> Labels]
      /\ \A q \in Procs : q # p => call'[q] = call[q] /\ pc'[q] = pc[q]
      /\ call'[p].op = c.op
      /\ pc'[p] \in {"reopen", "lock"}
      /\ pc'[p] = "lock" => call'[p].changed = FALSE
  BY <1>1, EnterIs
<1>3. /\ now' = now /\ path' = path /\ data' = data /\ mtime' = mtime /\ lock' = lock
      /\ mb' = mb /\ crashes' = crashes /\ unsent' = unsent /\ kept' = kept
      /\ marked' = marked /\ unsafe' = unsafe
  BY DEF disk, ghosts
<1>4. TypeOK'
  BY <1>1, <1>2, <1>3 DEF TypeOK
<1>5. Control'
  BY <1>2, <1>3 DEF MInv, Control, Working
<1>6. QuietProcs /\ CallsLess
  BY <1>2, <1>3 DEF QuietProcs, CallsLess
<1>7. SameFiles /\ kept' \subseteq kept /\ unsent' \subseteq unsent
  BY <1>3 DEF SameFiles
<1>8. \A q \in Procs : mb'[q].mb_tab \in {mb[q].mb_tab, <<>>}
  BY <1>3
<1>9. QED
  BY <1>4, <1>5, <1>6, <1>7, <1>8, Quiet

\* A call with an operation.
LEMMA CallOf ==
  ASSUME NEW op \in Ops, NEW m \in Msgs \cup {None}
  PROVE  /\ [NoCall EXCEPT !.op = op] \in Calls
         /\ [NoCall EXCEPT !.op = op].op = op
         /\ [NoCall EXCEPT !.op = op, !.msg = m] \in Calls
         /\ [NoCall EXCEPT !.op = op, !.msg = m].op = op
         /\ [NoCall EXCEPT !.op = op, !.msg = m].msg = m
<1>1. NoCall \in Calls
  BY NoCallIs
<1>2. QED
  BY <1>1 DEF Calls

\* mailmbox_init
LEMMA InitCallInv ==
  ASSUME MInv, NEW p \in Procs, InitCall(p)
  PROVE  MInv'
<1>1. PICK c : c = [NoCall EXCEPT !.op = "init"]
  OBVIOUS
<1>2. c \in Calls /\ c.op # "append"
  BY <1>1, CallOf DEF Ops
<1>3. Enter(p, c) /\ UNCHANGED <<now, disk, lock, mb, crashes, ghosts>>
  BY <1>1 DEF InitCall
<1>4. QED
  BY <1>2, <1>3, EnterQuiet

\* mailmbox_expunge, mailmbox_fetch_msg, mailmbox_done
LEMMA OtherCallInv ==
  ASSUME MInv, NEW p \in Procs, NEW op \in {"read", "expunge", "done"},
         OtherCall(p, op)
  PROVE  MInv'
<1>1. PICK c : c = [NoCall EXCEPT !.op = op]
  OBVIOUS
<1>2. c \in Calls /\ c.op # "append"
  BY <1>1, CallOf DEF Ops
<1>3. Enter(p, c) /\ UNCHANGED <<now, disk, lock, mb, crashes, ghosts>>
  BY <1>1 DEF OtherCall
<1>4. QED
  BY <1>2, <1>3, EnterQuiet

\* mailmbox_append_message_uid: the message is nowhere.
LEMMA AppendCallInv ==
  ASSUME MInv, NEW p \in Procs, NEW m \in Msgs, AppendCall(p, m)
  PROVE  MInv'
<1>1. PICK c : c = [NoCall EXCEPT !.op = "append", !.msg = m]
  OBVIOUS
<1>2. c \in Calls /\ c.op = "append" /\ c.msg = m
  BY <1>1, CallOf DEF Ops
<1>3. TypeOK /\ Enter(p, c)
  BY <1>1 DEF MInv, AppendCall
<1>4. /\ calls' \in 0..MaxCalls /\ call' \in [Procs -> Calls]
      /\ pc' \in [Procs \cup {Agent} -> Labels]
      /\ \A q \in Procs : q # p => call'[q] = call[q] /\ pc'[q] = pc[q]
      /\ call'[p].op = "append" /\ call'[p].msg = m
      /\ pc'[p] \in {"reopen", "lock"}
      /\ pc'[p] = "lock" => call'[p].changed = FALSE
  BY <1>2, <1>3, EnterIs
<1>5. /\ now' = now /\ path' = path /\ data' = data /\ mtime' = mtime /\ lock' = lock
      /\ mb' = mb /\ crashes' = crashes /\ kept' = kept
      /\ marked' = marked /\ unsafe' = unsafe /\ unsent' = unsent \ {m} /\ m \in unsent
  BY DEF AppendCall, disk
<1>6. TypeOK'
  BY <1>3, <1>4, <1>5 DEF TypeOK
<1>7. Control'
  BY <1>4, <1>5 DEF MInv, Control, Working
<1>8. QuietProcs
  BY <1>4, <1>5 DEF QuietProcs
<1>9. SameFiles /\ kept' \subseteq kept
  BY <1>5 DEF SameFiles
<1>10. ViewInv' /\ WriteInv' /\ Stored'
  BY <1>8, <1>9, QuietFile
<1>11. TabsLess
  BY <1>5 DEF TabsLess
<1>12. Spared'
  BY <1>9, <1>11, QuietSpared
<1>13. ASSUME NEW x PROVE Nowhere(x) => Nowhere(x)'
  BY <1>5 DEF Nowhere
<1>14. Nowhere(m)
  BY <1>5 DEF MInv, Fresh
<1>15. ASSUME NEW q \in Procs, call'[q].op = "append" PROVE PendingOK(q)'
  <2>1. CASE q = p
    <3>1. \A x \in Procs : ~InTab(mb[x], m) /\ ~InDeleted(mb[x], m)
      BY <1>14 DEF Nowhere, InTab, InDeleted
    <3>2. QED
      BY <1>4, <1>5, <1>13, <1>14, <2>1, <3>1 DEF PendingOK
  <2>2. CASE q # p
    <3>1. PendingOK(q) /\ call'[q] = call[q] /\ pc'[q] = pc[q]
      BY <1>4, <1>15, <2>2 DEF MInv, Fresh
    <3>2. QED
      BY <1>5, <1>13, <3>1 DEF PendingOK
  <2>3. QED
    BY <2>1, <2>2
<1>16. ASSUME NEW x \in Procs, NEW y \in Procs, x # y,
              call'[x].op = "append", call'[y].op = "append"
       PROVE  call'[x].msg # call'[y].msg
  <2>1. ASSUME NEW q \in Procs, q # p, call'[q].op = "append" PROVE call'[q].msg # m
    <3>1. PendingOK(q) /\ call'[q] = call[q]
      BY <1>4, <2>1 DEF MInv, Fresh
    <3>2. QED
      BY <1>5, <3>1 DEF PendingOK
  <2>2. CASE x = p \/ y = p
    BY <1>4, <1>16, <2>1, <2>2
  <2>3. CASE x # p /\ y # p
    BY <1>4, <1>16, <2>3 DEF MInv, Fresh
  <2>4. QED
    BY <2>2, <2>3
<1>17. Fresh'
  BY <1>5, <1>13, <1>15, <1>16 DEF MInv, Fresh
<1>18. QED
  BY <1>6, <1>7, <1>10, <1>12, <1>17 DEF MInv

\* The end of an operation: the table stays or the folder goes.
LEMMA FinishIs ==
  ASSUME TypeOK, NEW p \in Procs, NEW ok \in BOOLEAN, Finish(p, ok)
  PROVE  /\ pc' \in [Procs \cup {Agent} -> Labels] /\ call' \in [Procs -> Calls]
         /\ mb' \in [Procs -> Folders] /\ marked' \in [Procs -> SUBSET Msgs]
         /\ pc'[p] \in {"closed", "idle"} /\ call'[p] = NoCall
         /\ \A q \in Procs : q # p => /\ pc'[q] = pc[q] /\ call'[q] = call[q]
                                      /\ mb'[q] = mb[q]
         /\ \A q \in Procs : mb'[q].mb_tab \in {mb[q].mb_tab, <<>>}
<1>1. PICK gone \in BOOLEAN : gone = (call[p].op = "done" \/ (call[p].op = "init" /\ ~ok))
  OBVIOUS
<1>2. /\ pc' = [pc EXCEPT ![p] = IF gone THEN "closed" ELSE "idle"]
      /\ call' = [call EXCEPT ![p] = NoCall]
      /\ mb' = [mb EXCEPT ![p] = IF gone THEN FolderNew ELSE @]
      /\ marked' = [marked EXCEPT ![p] = IF gone THEN {} ELSE @]
  BY <1>1 DEF Finish, Go
<1>3. /\ pc \in [Procs \cup {Agent} -> Labels] /\ call \in [Procs -> Calls]
      /\ mb \in [Procs -> Folders] /\ marked \in [Procs -> SUBSET Msgs]
  BY DEF TypeOK
<1>4. NoCall \in Calls /\ FolderNew \in Folders /\ FolderNew.mb_tab = <<>>
  BY NoCallIs, FolderNewIs
<1>5. /\ pc' \in [Procs \cup {Agent} -> Labels] /\ pc'[p] \in {"closed", "idle"}
      /\ \A q \in Procs : q # p => pc'[q] = pc[q]
  BY <1>2, <1>3 DEF Labels
<1>6. /\ call' \in [Procs -> Calls] /\ call'[p] = NoCall
      /\ \A q \in Procs : q # p => call'[q] = call[q]
  BY <1>2, <1>3, <1>4
<1>7. /\ mb' \in [Procs -> Folders] /\ mb'[p] \in {mb[p], FolderNew}
      /\ \A q \in Procs : q # p => mb'[q] = mb[q]
  BY <1>2, <1>3, <1>4
<1>8. marked' \in [Procs -> SUBSET Msgs]
  BY <1>2, <1>3
<1>9. ASSUME NEW q \in Procs PROVE mb'[q].mb_tab \in {mb[q].mb_tab, <<>>}
  BY <1>4, <1>7
<1>10. QED
  BY <1>5, <1>6, <1>7, <1>8, <1>9

\* The file is closed and opened again.
LEMMA ReopenInv ==
  ASSUME MInv, NEW p \in Procs, Reopen(p)
  PROVE  MInv'
<1>1. TypeOK /\ mb \in [Procs -> Folders] /\ pc \in [Procs \cup {Agent} -> Labels] /\ path \in Inodes
  BY DEF MInv, TypeOK
<1>2. PICK fol : fol = [mb[p] EXCEPT !.mb_fd = path, !.mb_mapping_size = 0]
  OBVIOUS
<1>3. fol \in Folders /\ fol.mb_fd = path /\ fol.mb_tab = mb[p].mb_tab
  BY <1>1, <1>2 DEF Folders
<1>4. mb' = [mb EXCEPT ![p] = fol]
  BY <1>1, <1>2 DEF Reopen
<1>5. /\ mb' \in [Procs -> Folders] /\ mb'[p] = fol
      /\ \A q \in Procs : q # p => mb'[q] = mb[q]
  BY <1>1, <1>3, <1>4
<1>6. /\ pc' \in [Procs \cup {Agent} -> Labels] /\ pc'[p] = "lock"
      /\ \A q \in Procs : q # p => pc'[q] = pc[q]
  BY <1>1 DEF Reopen, Go, Labels
<1>7. /\ now' = now /\ path' = path /\ data' = data /\ mtime' = mtime /\ lock' = lock
      /\ call' = call /\ crashes' = crashes /\ calls' = calls /\ unsent' = unsent
      /\ kept' = kept /\ marked' = marked /\ unsafe' = unsafe
  BY DEF Reopen, disk, ghosts
<1>8. TypeOK'
  BY <1>1, <1>5, <1>6, <1>7 DEF TypeOK
<1>9. Control'
  BY <1>1, <1>3, <1>5, <1>6, <1>7 DEF MInv, Control, Working
<1>10. pc[p] = "reopen"
  BY DEF Reopen
<1>11. QuietProcs /\ CallsLess
  BY <1>5, <1>6, <1>7, <1>10 DEF QuietProcs, CallsLess
<1>12. SameFiles /\ kept' \subseteq kept /\ unsent' \subseteq unsent
  BY <1>7 DEF SameFiles
<1>13. \A q \in Procs : mb'[q].mb_tab \in {mb[q].mb_tab, <<>>}
  BY <1>3, <1>5
<1>14. QED
  BY <1>8, <1>9, <1>11, <1>12, <1>13, Quiet

\* lock_common gives up.
LEMMA LockTimeoutInv ==
  ASSUME MInv, NEW p \in Procs, LockTimeout(p)
  PROVE  MInv'
<1>1. TypeOK /\ Finish(p, FALSE)
  BY DEF MInv, LockTimeout
<1>2. /\ pc' \in [Procs \cup {Agent} -> Labels] /\ call' \in [Procs -> Calls]
      /\ mb' \in [Procs -> Folders] /\ marked' \in [Procs -> SUBSET Msgs]
      /\ pc'[p] \in {"closed", "idle"} /\ call'[p] = NoCall
      /\ \A q \in Procs : q # p => /\ pc'[q] = pc[q] /\ call'[q] = call[q]
                                   /\ mb'[q] = mb[q]
      /\ \A q \in Procs : mb'[q].mb_tab \in {mb[q].mb_tab, <<>>}
  BY <1>1, FinishIs
<1>3. /\ now' = now /\ path' = path /\ data' = data /\ mtime' = mtime /\ lock' = lock
      /\ crashes' = crashes /\ calls' = calls /\ unsent' = unsent
      /\ kept' = kept /\ unsafe' = unsafe
  BY DEF LockTimeout, disk
<1>4. call'[p].op = "none"
  BY <1>2, NoCallIs
<1>5. TypeOK'
  BY <1>1, <1>2, <1>3 DEF TypeOK
<1>6. Control'
  BY <1>2, <1>3, <1>4 DEF MInv, Control, Working
<1>7. QuietProcs /\ CallsLess
  BY <1>2, <1>3, <1>4 DEF QuietProcs, CallsLess
<1>8. SameFiles /\ kept' \subseteq kept /\ unsent' \subseteq unsent
  BY <1>3 DEF SameFiles
<1>9. QED
  BY <1>2, <1>5, <1>6, <1>7, <1>8, Quiet

\* An old lock file is seen.
LEMMA StatLockInv ==
  ASSUME MInv, NEW p \in Procs, StatLock(p)
  PROVE  MInv'
<1>1. TypeOK
  BY DEF MInv
<1>2. /\ pc' \in [Procs \cup {Agent} -> Labels] /\ pc'[p] = "stale" /\ pc[p] = "lock"
      /\ \A q \in Procs : q # p => pc'[q] = pc[q]
  BY <1>1 DEF TypeOK, StatLock, Go, Labels
<1>3. /\ now' = now /\ path' = path /\ data' = data /\ mtime' = mtime /\ lock' = lock
      /\ mb' = mb /\ call' = call /\ crashes' = crashes /\ calls' = calls
      /\ unsent' = unsent /\ kept' = kept /\ marked' = marked /\ unsafe' = unsafe
  BY DEF StatLock, disk, ghosts
<1>4. TypeOK'
  BY <1>1, <1>2, <1>3 DEF TypeOK
<1>5. Control'
  BY <1>2, <1>3 DEF MInv, Control, Working
<1>6. QuietProcs /\ CallsLess
  BY <1>2, <1>3 DEF QuietProcs, CallsLess
<1>7. SameFiles /\ kept' \subseteq kept /\ unsent' \subseteq unsent
  BY <1>3 DEF SameFiles
<1>8. \A q \in Procs : mb'[q].mb_tab \in {mb[q].mb_tab, <<>>}
  BY <1>3
<1>9. QED
  BY <1>4, <1>5, <1>6, <1>7, <1>8, Quiet

\* The lock file of a dead process goes: its owner does not work on the file.
LEMMA BreakStaleLockInv ==
  ASSUME MInv, NEW p \in Procs, BreakStaleLock(p), ~unsafe'
  PROVE  MInv'
<1>1. /\ now' = now /\ path' = path /\ data' = data /\ mtime' = mtime /\ mb' = mb
      /\ call' = call /\ crashes' = crashes /\ calls' = calls
      /\ unsent' = unsent /\ kept' = kept /\ marked' = marked
  BY DEF BreakStaleLock, disk
<1>2. lock' = None /\ pc[lock] = "dead" /\ unsafe' = FALSE
  BY DEF BreakStaleLock
<1>3. TypeOK
  BY DEF MInv
<1>4. /\ pc' \in [Procs \cup {Agent} -> Labels] /\ pc'[p] = "lock" /\ pc[p] = "stale"
      /\ \A q \in Procs : q # p => pc'[q] = pc[q]
  BY <1>3 DEF TypeOK, BreakStaleLock, Go, Labels
<1>5. TypeOK'
  BY <1>1, <1>2, <1>3, <1>4 DEF TypeOK
<1>6. \A q \in Procs : pc[q] \notin Working
  BY <1>2 DEF MInv, Control, Working
<1>7. Control'
  BY <1>1, <1>4, <1>6 DEF MInv, Control, Working
<1>8. QuietProcs /\ CallsLess
  BY <1>1, <1>4 DEF QuietProcs, CallsLess
<1>9. SameFiles /\ kept' \subseteq kept /\ unsent' \subseteq unsent
  BY <1>1 DEF SameFiles
<1>10. \A q \in Procs : mb'[q].mb_tab \in {mb[q].mb_tab, <<>>}
  BY <1>1
<1>11. QED
  BY <1>5, <1>7, <1>8, <1>9, <1>10, Quiet

\* The agent makes its lock file, or removes it: no process works on the file.
LEMMA AgentLockInv ==
  ASSUME MInv, AgentInv, AgentLocks \/ AgentUnlocks
  PROVE  MInv'
<1>1. /\ now' = now /\ path' = path /\ data' = data /\ mtime' = mtime /\ mb' = mb
      /\ call' = call /\ crashes' = crashes /\ calls' = calls
      /\ unsent' = unsent /\ kept' = kept /\ marked' = marked /\ unsafe' = unsafe
  BY DEF AgentLocks, AgentUnlocks, disk, ghosts
<1>2. TypeOK /\ Agent \notin Procs /\ None \notin Procs
  BY MboxAssumption DEF MInv
<1>3. lock \in {None, Agent} /\ lock' \in {None, Agent}
  BY DEF AgentLocks, AgentUnlocks, AgentInv
<1>4. /\ pc' \in [Procs \cup {Agent} -> Labels]
      /\ \A q \in Procs : pc'[q] = pc[q]
  BY <1>2 DEF TypeOK, AgentLocks, AgentUnlocks, Go, Labels
<1>5. TypeOK'
  BY <1>1, <1>2, <1>3, <1>4 DEF TypeOK
<1>6. \A q \in Procs : pc[q] \notin Working
  BY <1>2, <1>3 DEF MInv, Control, Working
<1>7. Control'
  BY <1>1, <1>4, <1>6 DEF MInv, Control, Working
<1>8. QuietProcs /\ CallsLess
  BY <1>1, <1>4 DEF QuietProcs, CallsLess
<1>9. SameFiles /\ kept' \subseteq kept /\ unsent' \subseteq unsent
  BY <1>1 DEF SameFiles
<1>10. \A q \in Procs : mb'[q].mb_tab \in {mb[q].mb_tab, <<>>}
  BY <1>1
<1>11. QED
  BY <1>5, <1>7, <1>8, <1>9, <1>10, Quiet

\* An operation fails while its process has the lock.
LEMMA FailIs ==
  ASSUME TypeOK, NEW p \in Procs, call' = [call EXCEPT ![p].ok = FALSE],
         Go(p, "unlock")
  PROVE  /\ call' \in [Procs -> Calls] /\ pc' \in [Procs \cup {Agent} -> Labels]
         /\ pc'[p] = "unlock" /\ call'[p].ok = FALSE
         /\ call'[p].op = call[p].op /\ call'[p].msg = call[p].msg
         /\ \A q \in Procs : q # p => pc'[q] = pc[q] /\ call'[q] = call[q]
<1>1. call \in [Procs -> Calls] /\ pc \in [Procs \cup {Agent} -> Labels]
  BY DEF TypeOK
<1>2. PICK c : c = [call[p] EXCEPT !.ok = FALSE]
  OBVIOUS
<1>3. c \in Calls /\ c.ok = FALSE /\ c.op = call[p].op /\ c.msg = call[p].msg
  BY <1>1, <1>2 DEF Calls
<1>4. call' = [call EXCEPT ![p] = c]
  BY <1>2
<1>5. /\ call' \in [Procs -> Calls] /\ call'[p] = c
      /\ \A q \in Procs : q # p => call'[q] = call[q]
  BY <1>1, <1>3, <1>4
<1>6. /\ pc' \in [Procs \cup {Agent} -> Labels] /\ pc'[p] = "unlock"
      /\ \A q \in Procs : q # p => pc'[q] = pc[q]
  BY <1>1 DEF Go, Labels
<1>7. QED
  BY <1>3, <1>5, <1>6

\* The temporary file cannot be made.
LEMMA ExpungeFailsInv ==
  ASSUME MInv, NEW p \in Procs, ExpungeFails(p)
  PROVE  MInv'
<1>1. TypeOK /\ pc[p] = "expunge" /\ lock = p
  BY DEF MInv, Control, Working, ExpungeFails
<1>2. /\ call' \in [Procs -> Calls] /\ pc' \in [Procs \cup {Agent} -> Labels]
      /\ pc'[p] = "unlock" /\ call'[p].ok = FALSE
      /\ call'[p].op = call[p].op /\ call'[p].msg = call[p].msg
      /\ \A q \in Procs : q # p => pc'[q] = pc[q] /\ call'[q] = call[q]
  BY <1>1, FailIs DEF ExpungeFails
<1>3. /\ now' = now /\ path' = path /\ data' = data /\ mtime' = mtime /\ lock' = lock
      /\ mb' = mb /\ crashes' = crashes /\ calls' = calls /\ unsent' = unsent
      /\ kept' = kept /\ marked' = marked /\ unsafe' = unsafe
  BY DEF ExpungeFails, disk, ghosts
<1>4. TypeOK'
  BY <1>1, <1>2, <1>3 DEF TypeOK
<1>5. Control'
  BY <1>1, <1>2, <1>3 DEF MInv, Control, Working
<1>6. QuietProcs /\ CallsLess
  BY <1>1, <1>2, <1>3 DEF QuietProcs, CallsLess
<1>7. SameFiles /\ kept' \subseteq kept /\ unsent' \subseteq unsent
  BY <1>3 DEF SameFiles
<1>8. \A q \in Procs : mb'[q].mb_tab \in {mb[q].mb_tab, <<>>}
  BY <1>3
<1>9. QED
  BY <1>4, <1>5, <1>6, <1>7, <1>8, Quiet

\* The file cannot be extended.
LEMMA TruncateFailsInv ==
  ASSUME MInv, NEW p \in Procs, TruncateFails(p)
  PROVE  MInv'
<1>1. /\ TypeOK /\ pc[p] = "append" /\ lock = p /\ mb \in [Procs -> Folders]
      /\ path \in Inodes /\ data \in [Inodes -> Seq(Cells)]
  BY DEF MInv, TypeOK, Control, Working, TruncateFails
<1>2. /\ call' \in [Procs -> Calls] /\ pc' \in [Procs \cup {Agent} -> Labels]
      /\ pc'[p] = "unlock" /\ call'[p].ok = FALSE
      /\ call'[p].op = call[p].op /\ call'[p].msg = call[p].msg
      /\ \A q \in Procs : q # p => pc'[q] = pc[q] /\ call'[q] = call[q]
  BY <1>1, FailIs DEF TruncateFails
<1>3. PICK n \in Nat : n = Len(data[path])
  BY <1>1
<1>4. PICK fol : fol = [mb[p] EXCEPT !.mb_mapping_size = n]
  OBVIOUS
<1>5. fol \in Folders /\ fol.mb_tab = mb[p].mb_tab
  BY <1>1, <1>4 DEF Folders
<1>6. mb' = [mb EXCEPT ![p] = fol]
  BY <1>3, <1>4 DEF TruncateFails
<1>7. /\ mb' \in [Procs -> Folders] /\ mb'[p] = fol
      /\ \A q \in Procs : q # p => mb'[q] = mb[q]
  BY <1>1, <1>5, <1>6
<1>8. /\ now' = now /\ path' = path /\ data' = data /\ mtime' = mtime /\ lock' = lock
      /\ crashes' = crashes /\ calls' = calls /\ unsent' = unsent
      /\ kept' = kept /\ marked' = marked /\ unsafe' = unsafe
  BY DEF TruncateFails, disk, ghosts
<1>9. TypeOK'
  BY <1>1, <1>2, <1>7, <1>8 DEF TypeOK
<1>10. Control'
  BY <1>1, <1>2, <1>7, <1>8 DEF MInv, Control, Working
<1>11. QuietProcs /\ CallsLess
  BY <1>1, <1>2, <1>7, <1>8 DEF QuietProcs, CallsLess
<1>12. SameFiles /\ kept' \subseteq kept /\ unsent' \subseteq unsent
  BY <1>8 DEF SameFiles
<1>13. \A q \in Procs : mb'[q].mb_tab \in {mb[q].mb_tab, <<>>}
  BY <1>5, <1>7
<1>14. QED
  BY <1>9, <1>10, <1>11, <1>12, <1>13, Quiet

\* copy_to_old_file fails before it touches the mailbox: the folder is closed.
LEMMA CopyFailsInv ==
  ASSUME MInv, NEW p \in Procs, CopyFails(p), ~unsafe'
  PROVE  MInv'
<1>1. /\ TypeOK /\ pc[p] = "expunge" /\ lock = p /\ mb \in [Procs -> Folders]
  BY DEF MInv, TypeOK, Control, Working, CopyFails
<1>2. /\ call' \in [Procs -> Calls] /\ pc' \in [Procs \cup {Agent} -> Labels]
      /\ pc'[p] = "unlock" /\ call'[p].ok = FALSE
      /\ call'[p].op = call[p].op /\ call'[p].msg = call[p].msg
      /\ \A q \in Procs : q # p => pc'[q] = pc[q] /\ call'[q] = call[q]
  BY <1>1, FailIs DEF CopyFails
<1>3. PICK fol : fol = [mb[p] EXCEPT !.mb_fd = NoFd, !.mb_mapping_size = 0]
  OBVIOUS
<1>4. fol \in Folders /\ fol.mb_tab = mb[p].mb_tab
  BY <1>1, <1>3 DEF Folders
<1>5. mb' = [mb EXCEPT ![p] = fol]
  BY <1>1, <1>3 DEF CopyFails
<1>6. /\ mb' \in [Procs -> Folders] /\ mb'[p] = fol
      /\ \A q \in Procs : q # p => mb'[q] = mb[q]
  BY <1>1, <1>4, <1>5
<1>7. /\ now' = now /\ path' = path /\ data' = data /\ mtime' = mtime /\ lock' = lock
      /\ crashes' = crashes /\ calls' = calls /\ unsent' = unsent
      /\ kept' = kept /\ marked' = marked /\ unsafe' = unsafe
  BY DEF CopyFails
<1>8. TypeOK'
  BY <1>1, <1>2, <1>6, <1>7 DEF TypeOK
<1>9. Control'
  BY <1>1, <1>2, <1>6, <1>7 DEF MInv, Control, Working
<1>10. QuietProcs /\ CallsLess
  BY <1>1, <1>2, <1>6, <1>7 DEF QuietProcs, CallsLess
<1>11. SameFiles /\ kept' \subseteq kept /\ unsent' \subseteq unsent
  BY <1>7 DEF SameFiles
<1>12. \A q \in Procs : mb'[q].mb_tab \in {mb[q].mb_tab, <<>>}
  BY <1>4, <1>6
<1>13. QED
  BY <1>8, <1>9, <1>10, <1>11, <1>12, Quiet

\* A process dies with what its folder knew.
LEMMA CrashInv ==
  ASSUME MInv, NEW p \in Procs, Crash(p)
  PROVE  MInv'
<1>1. TypeOK
  BY DEF MInv
<1>2. /\ pc' \in [Procs \cup {Agent} -> Labels] /\ pc'[p] = "dead"
      /\ \A q \in Procs : q # p => pc'[q] = pc[q]
  BY <1>1 DEF TypeOK, Crash, Go, Labels
<1>3. /\ mb' \in [Procs -> Folders] /\ mb'[p].mb_tab = <<>>
      /\ \A q \in Procs : q # p => mb'[q] = mb[q]
  BY <1>1, FolderNewIs DEF TypeOK, Crash
<1>4. /\ call' \in [Procs -> Calls] /\ call'[p].op = "none"
      /\ \A q \in Procs : q # p => call'[q] = call[q]
  BY <1>1, NoCallIs DEF TypeOK, Crash
<1>5. marked' \in [Procs -> SUBSET Msgs] /\ crashes' \in 0..MaxCrashes
  BY <1>1, MboxAssumption DEF TypeOK, Crash
<1>6. /\ now' = now /\ path' = path /\ data' = data /\ mtime' = mtime /\ lock' = lock
      /\ calls' = calls /\ unsent' = unsent /\ kept' = kept /\ unsafe' = unsafe
  BY DEF Crash, disk
<1>7. TypeOK'
  BY <1>1, <1>2, <1>3, <1>4, <1>5, <1>6 DEF TypeOK
<1>8. Control'
  BY <1>2, <1>3, <1>4, <1>6 DEF MInv, Control, Working
<1>9. QuietProcs /\ CallsLess
  BY <1>2, <1>3, <1>4 DEF QuietProcs, CallsLess
<1>10. SameFiles /\ kept' \subseteq kept /\ unsent' \subseteq unsent
  BY <1>6 DEF SameFiles
<1>11. \A q \in Procs : mb'[q].mb_tab \in {mb[q].mb_tab, <<>>}
  BY <1>3
<1>12. QED
  BY <1>7, <1>8, <1>9, <1>10, <1>11, Quiet

\* It is started again.
LEMMA RestartInv ==
  ASSUME MInv, NEW p \in Procs, Restart(p)
  PROVE  MInv'
<1>1. TypeOK
  BY DEF MInv
<1>2. /\ pc' \in [Procs \cup {Agent} -> Labels] /\ pc'[p] = "closed" /\ pc[p] = "dead"
      /\ \A q \in Procs : q # p => pc'[q] = pc[q]
  BY <1>1 DEF TypeOK, Restart, Go, Labels
<1>3. /\ now' = now /\ path' = path /\ data' = data /\ mtime' = mtime /\ lock' = lock
      /\ mb' = mb /\ call' = call /\ crashes' = crashes /\ calls' = calls
      /\ unsent' = unsent /\ kept' = kept /\ marked' = marked /\ unsafe' = unsafe
  BY DEF Restart, disk, ghosts
<1>4. TypeOK'
  BY <1>1, <1>2, <1>3 DEF TypeOK
<1>5. Control'
  BY <1>2, <1>3 DEF MInv, Control, Working
<1>6. QuietProcs /\ CallsLess
  BY <1>2, <1>3 DEF QuietProcs, CallsLess
<1>7. SameFiles /\ kept' \subseteq kept /\ unsent' \subseteq unsent
  BY <1>3 DEF SameFiles
<1>8. \A q \in Procs : mb'[q].mb_tab \in {mb[q].mb_tab, <<>>}
  BY <1>3
<1>9. QED
  BY <1>4, <1>5, <1>6, <1>7, <1>8, Quiet

\* A step of the clock alone, or of somebody else.
LEMMA IdleInv ==
  ASSUME MInv, now' \in 0..MaxTime,
         UNCHANGED <<disk, lock, mb, pc, call, crashes, calls, ghosts>>
  PROVE  MInv'
<1>1. /\ path' = path /\ data' = data /\ mtime' = mtime /\ lock' = lock
      /\ mb' = mb /\ pc' = pc /\ call' = call /\ crashes' = crashes /\ calls' = calls
      /\ unsent' = unsent /\ kept' = kept /\ marked' = marked /\ unsafe' = unsafe
  BY DEF disk, ghosts
<1>2. TypeOK'
  BY <1>1 DEF MInv, TypeOK
<1>3. Control'
  BY <1>1 DEF MInv, Control
<1>4. QuietProcs /\ CallsLess
  BY <1>1 DEF QuietProcs, CallsLess
<1>5. SameFiles /\ kept' \subseteq kept /\ unsent' \subseteq unsent
  BY <1>1 DEF SameFiles
<1>6. \A q \in Procs : mb'[q].mb_tab \in {mb[q].mb_tab, <<>>}
  BY <1>1
<1>7. QED
  BY <1>2, <1>3, <1>4, <1>5, <1>6, Quiet

\* A message that is nowhere is in no table, deleted or not.
LEMMA NowhereIs ==
  ASSUME NEW m, Nowhere(m), NEW q \in Procs
  PROVE  ~InTab(mb[q], m) /\ ~InDeleted(mb[q], m)
BY DEF Nowhere, InTab, InDeleted

\* With nobody at the end of an append, the appends' messages are nowhere, and
\* it is enough that they stay there.
LEMMA NowhereFresh ==
  ASSUME MInv, unsent' \subseteq unsent, NEW Z,
         \A m \in Msgs : Nowhere(m) /\ m \notin Z => Nowhere(m)',
         \A m \in unsent' : m \notin Z,
         \A q \in Procs : call'[q].op = "append" =>
            /\ call[q].op = "append" /\ call'[q].msg = call[q].msg
            /\ pc[q] # "unlock" /\ call[q].msg \notin Z
  PROVE  Fresh'
<1>1. unsent \subseteq Msgs
  BY DEF MInv, TypeOK
<1>2. \A m \in unsent' : Nowhere(m)'
  BY <1>1 DEF MInv, Fresh
<1>3. ASSUME NEW q \in Procs, call'[q].op = "append" PROVE PendingOK(q)'
  <2>1. PICK m : m = call[q].msg
    OBVIOUS
  <2>2. /\ call[q].op = "append" /\ call'[q].msg = m /\ pc[q] # "unlock" /\ m \notin Z
    BY <1>3, <2>1
  <2>3. m \in Msgs /\ PendingOK(q)
    BY <2>1, <2>2 DEF MInv, Control, Fresh
  <2>4. m \notin unsent /\ Nowhere(m)
    BY <2>1, <2>2, <2>3 DEF PendingOK
  <2>5. Nowhere(m)' /\ m \notin unsent'
    BY <2>2, <2>3, <2>4
  <2>6. \A x \in Procs : ~InTab(mb'[x], m) /\ ~InDeleted(mb'[x], m)
    BY <2>5 DEF Nowhere, InTab, InDeleted
  <2>7. QED
    BY <2>2, <2>5, <2>6 DEF PendingOK
<1>4. ASSUME NEW x \in Procs, NEW y \in Procs, x # y,
             call'[x].op = "append", call'[y].op = "append"
      PROVE  call'[x].msg # call'[y].msg
  BY <1>4 DEF MInv, Fresh
<1>5. QED
  BY <1>2, <1>3, <1>4 DEF Fresh

\* The same for a step that puts no message anywhere.
LEMMA NowhereFreshAll ==
  ASSUME MInv, unsent' \subseteq unsent,
         \A m \in Msgs : Nowhere(m) => Nowhere(m)',
         \A q \in Procs : call'[q].op = "append" =>
            /\ call[q].op = "append" /\ call'[q].msg = call[q].msg
            /\ pc[q] # "unlock"
  PROVE  Fresh'
<1> PICK Z : Z = {}
  OBVIOUS
<1>1. \A m : m \notin Z
  OBVIOUS
<1>2. \A m \in Msgs : Nowhere(m) /\ m \notin Z => Nowhere(m)'
  OBVIOUS
<1>3. \A m \in unsent' : m \notin Z
  BY <1>1, Zenon
<1>4. \A q \in Procs : call'[q].op = "append" =>
         /\ call[q].op = "append" /\ call'[q].msg = call[q].msg
         /\ pc[q] # "unlock" /\ call[q].msg \notin Z
  BY <1>1, Zenon
<1>5. QED
  BY <1>2, <1>3, <1>4, NowhereFresh, Zenon

\* mailmbox_delete_msg on a table.
LEMMA MarkDeletedIs ==
  ASSUME NEW fol \in Folders, NEW i \in DOMAIN fol.mb_tab,
         NEW r, r = MarkDeleted(fol, i)
  PROVE  /\ r \in Folders
         /\ \A m : /\ InTab(r, m) => InTab(fol, m)
                   /\ InDeleted(r, m) => InDeleted(fol, m) \/ m \in fol.mb_tab[i].texts
<1>1. PICK tab, e, t : /\ tab = fol.mb_tab /\ e = [tab[i] EXCEPT !.deleted = TRUE]
                       /\ t = [tab EXCEPT ![i] = e]
  OBVIOUS
<1>2. tab \in Seq(Entries) /\ i \in 1..Len(tab) /\ fol.mb_deleted_count + 1 \in Nat
  BY <1>1, FolderIs
<1>3. tab[i] \in Entries
  BY <1>2
<1>4. e \in Entries /\ e.texts = tab[i].texts
  BY <1>1, <1>3 DEF Entries
<1>5. /\ t \in Seq(Entries) /\ Len(t) = Len(tab) /\ t[i] = e
      /\ \A j \in 1..Len(tab) : j # i => t[j] = tab[j]
  BY <1>1, <1>2, <1>4
<1>6. r = [fol EXCEPT !.mb_tab = t, !.mb_changed = TRUE,
                      !.mb_deleted_count = fol.mb_deleted_count + 1]
  BY <1>1 DEF MarkDeleted
<1>7. r \in Folders /\ r.mb_tab = t
  BY <1>2, <1>5, <1>6 DEF Folders
<1>8. \A j \in 1..Len(t) : t[j].texts = tab[j].texts
  BY <1>4, <1>5
<1>9. ASSUME NEW m, InTab(r, m) PROVE InTab(fol, m)
  BY <1>1, <1>5, <1>7, <1>8, <1>9 DEF InTab
<1>10. ASSUME NEW m, InDeleted(r, m) PROVE InDeleted(fol, m) \/ m \in tab[i].texts
  <2>1. PICK j \in 1..Len(t) : t[j].deleted /\ m \in t[j].texts
    BY <1>7, <1>10 DEF InDeleted
  <2>2. CASE j = i
    BY <1>8, <2>1, <2>2
  <2>3. CASE j # i
    BY <1>1, <1>5, <2>1, <2>3 DEF InDeleted
  <2>4. QED
    BY <2>2, <2>3
<1>11. QED
  BY <1>1, <1>7, <1>9, <1>10

\* mailmbox_delete_msg: what it marks is no longer to be kept, and no append
\* that goes on has put its message there.
LEMMA DeleteMsgInv ==
  ASSUME MInv, NEW p \in Procs, NEW u \in Uids, DeleteMsg(p, u)
  PROVE  MInv'
<1>1. /\ TypeOK /\ mb \in [Procs -> Folders] /\ marked \in [Procs -> SUBSET Msgs]
      /\ pc[p] = "idle"
  BY DEF MInv, TypeOK, DeleteMsg
<1>2. PICK i \in DOMAIN mb[p].mb_tab :
        /\ mb' = [mb EXCEPT ![p] = MarkDeleted(@, i)]
        /\ kept' = kept \ mb[p].mb_tab[i].texts
        /\ marked' = [marked EXCEPT ![p] = @ \cup mb[p].mb_tab[i].texts]
  BY DEF DeleteMsg
<1>3. PICK fol, T : fol = MarkDeleted(mb[p], i) /\ T = mb[p].mb_tab[i].texts
  OBVIOUS
<1>4. mb[p] \in Folders
  BY <1>1
<1>5. /\ fol \in Folders
      /\ \A m : /\ InTab(fol, m) => InTab(mb[p], m)
                /\ InDeleted(fol, m) => InDeleted(mb[p], m) \/ m \in T
  BY <1>3, <1>4, MarkDeletedIs
<1>6. /\ mb' \in [Procs -> Folders] /\ mb'[p] = fol
      /\ \A q \in Procs : q # p => mb'[q] = mb[q]
  BY <1>1, <1>2, <1>3, <1>5
<1>7. mb[p].mb_tab \in Seq(Entries)
  BY <1>4, FolderIs
<1>8. mb[p].mb_tab[i] \in Entries
  BY <1>7
<1>9. T \in SUBSET Msgs
  BY <1>3, <1>8 DEF Entries
<1>10. i \in 1..Len(mb[p].mb_tab)
  BY <1>7
<1>11. \A m \in T : InTab(mb[p], m)
  BY <1>3, <1>10 DEF InTab
<1>12. marked' \in [Procs -> SUBSET Msgs] /\ kept' = kept \ T
  BY <1>1, <1>2, <1>3, <1>9
<1>13. /\ now' = now /\ path' = path /\ data' = data /\ mtime' = mtime /\ lock' = lock
       /\ pc' = pc /\ call' = call /\ crashes' = crashes /\ calls' = calls
       /\ unsent' = unsent /\ unsafe' = unsafe
  BY DEF DeleteMsg, disk
<1>14. TypeOK'
  BY <1>1, <1>6, <1>12, <1>13 DEF TypeOK
<1>15. Control'
  BY <1>1, <1>6, <1>13 DEF MInv, Control
<1>16. QuietProcs
  BY <1>1, <1>6, <1>13 DEF QuietProcs
<1>17. SameFiles /\ kept' \subseteq kept
  BY <1>12, <1>13 DEF SameFiles
<1>18. ViewInv' /\ WriteInv' /\ Stored'
  BY <1>16, <1>17, QuietFile
<1>19. ASSUME NEW q \in Procs, NEW m
       PROVE  /\ InTab(mb'[q], m) => InTab(mb[q], m)
              /\ InDeleted(mb'[q], m) => InDeleted(mb[q], m) \/ (q = p /\ m \in T)
  BY <1>5, <1>6
<1>20. ASSUME NEW m, Nowhere(m) PROVE Nowhere(m)'
  BY <1>13, <1>19, <1>20 DEF Nowhere
<1>21. ASSUME NEW q \in Procs, call'[q].op = "append" PROVE PendingOK(q)'
  <2>1. PICK m : m = call[q].msg
    OBVIOUS
  <2>2. PendingOK(q)
    BY <1>13, <1>21 DEF MInv, Fresh
  <2>3. ~InTab(mb[p], m)
    BY <1>1, <2>1, <2>2, NowhereIs DEF PendingOK
  <2>4. m \notin T
    BY <1>11, <2>3
  <2>5. /\ m \notin unsent /\ (pc[q] # "unlock" => Nowhere(m))
        /\ \A x \in Procs : (x # q => ~InTab(mb[x], m)) /\ ~InDeleted(mb[x], m)
    BY <2>1, <2>2 DEF PendingOK
  <2>6. \A x \in Procs : (x # q => ~InTab(mb'[x], m)) /\ ~InDeleted(mb'[x], m)
    BY <1>19, <2>4, <2>5
  <2>7. QED
    BY <1>13, <1>20, <2>1, <2>5, <2>6 DEF PendingOK
<1>22. Fresh'
  BY <1>13, <1>20, <1>21 DEF MInv, Fresh
<1>23. Spared'
  BY <1>12, <1>19 DEF MInv, Spared
<1>24. QED
  BY <1>14, <1>15, <1>18, <1>22, <1>23 DEF MInv

\* A read table stands for nothing that is nowhere, and nothing in it is
\* marked deleted.
LEMMA ReadTab ==
  ASSUME NEW fol, NEW T,
         \A i \in 1..Len(fol.mb_tab) : /\ fol.mb_tab[i].deleted = FALSE
                                       /\ fol.mb_tab[i].texts \subseteq T
  PROVE  \A m : (InTab(fol, m) => m \in T) /\ ~InDeleted(fol, m)
BY DEF InTab, InDeleted

\* What the folder is once its process has the lock.
LEMMA RevalidatedIs ==
  ASSUME MInv, NEW p \in Procs, pc[p] = "lock", NEW fol, fol = Revalidated(p)
  PROVE  /\ fol \in Folders
         /\ \A m : /\ InTab(fol, m) =>
                        InTab(mb[p], m) \/ \E i \in Inodes : m \in Texts(data[i])
                   /\ InDeleted(fol, m) => InDeleted(mb[p], m)
<1>1. /\ mb[p] \in Folders /\ call[p] \in Calls /\ path \in Inodes
      /\ data \in [Inodes -> Seq(Cells)]
  BY DEF MInv, TypeOK
<1>2. CASE call[p].changed
  <2>1. PICK fd, size : fd = mb[p].mb_fd /\ size = Len(data[path])
    OBVIOUS
  <2>2. fd \in Inodes /\ data[fd] \in Seq(Cells) /\ size \in Nat
    BY <1>1, <1>2, <2>1 DEF MInv, Control
  <2>3. PICK old, bytes, s, r :
          /\ old \in Folders /\ bytes \in Seq(Cells) /\ s \in Nat
          /\ old = mb[p] /\ bytes = data[fd] /\ s = size
          /\ r = MapAndParse(old, bytes, s)
    BY <1>1, <2>2
  <2>4. /\ r \in Folders
        /\ \A i \in 1..Len(r.mb_tab) : /\ r.mb_tab[i].deleted = FALSE
                                       /\ r.mb_tab[i].texts \subseteq Texts(bytes)
    <3>1. ReadFrom(bytes, s, r)
      BY <2>3, MapAndParseIs
    <3>2. QED
      BY <3>1 DEF ReadFrom
  <2>5. fol = [r EXCEPT !.mb_mtime = call[p].mtime]
    BY <1>2, <2>1, <2>3 DEF Revalidated
  <2>6. call[p].mtime \in 0..(MaxTime + 1)
    BY <1>1, CallIs, MboxAssumption
  <2>7. fol \in Folders /\ fol.mb_tab = r.mb_tab
    BY <2>4, <2>5, <2>6 DEF Folders
  <2>8. \A m : (InTab(fol, m) => m \in Texts(bytes)) /\ ~InDeleted(fol, m)
    BY <2>4, <2>7, ReadTab
  <2>9. QED
    BY <2>2, <2>3, <2>7, <2>8
<1>3. CASE ~call[p].changed
  BY <1>1, <1>3 DEF Revalidated
<1>4. QED
  BY <1>2, <1>3

\* The lock is taken: nobody works on the file then.
LEMMA LockInv ==
  ASSUME MInv, NEW p \in Procs, Lock(p), ~unsafe'
  PROVE  MInv'
<1>1. /\ TypeOK /\ pc[p] = "lock" /\ lock = None /\ lock' = p
      /\ \A q \in Procs : pc[q] \notin Working
  BY MboxAssumption DEF MInv, Control, Lock
<1>2. /\ now' = now /\ path' = path /\ data' = data /\ mtime' = mtime
      /\ crashes' = crashes /\ calls' = calls /\ unsent' = unsent
      /\ kept' = kept /\ marked' = marked
  BY DEF Lock, disk
<1>3. CASE call[p].changed /\ ~CanMap
  <2>1. Go(p, "unlock") /\ call' = [call EXCEPT ![p].ok = FALSE] /\ mb' = mb /\ unsafe' = unsafe
    BY <1>3 DEF Lock
  <2>2. /\ call' \in [Procs -> Calls] /\ pc' \in [Procs \cup {Agent} -> Labels]
        /\ pc'[p] = "unlock" /\ call'[p].ok = FALSE
        /\ call'[p].op = call[p].op /\ call'[p].msg = call[p].msg
        /\ \A q \in Procs : q # p => pc'[q] = pc[q] /\ call'[q] = call[q]
    BY <1>1, <2>1, FailIs
  <2>3. TypeOK'
    BY <1>1, <1>2, <2>1, <2>2 DEF TypeOK
  <2>4. Control'
    BY <1>1, <2>1, <2>2 DEF MInv, Control, Working
  <2>5. QuietProcs /\ CallsLess
    BY <1>1, <2>1, <2>2 DEF QuietProcs, CallsLess
  <2>6. SameFiles /\ kept' \subseteq kept /\ unsent' \subseteq unsent
    BY <1>2 DEF SameFiles
  <2>7. \A q \in Procs : mb'[q].mb_tab \in {mb[q].mb_tab, <<>>}
    BY <2>1
  <2>8. QED
    BY <2>3, <2>4, <2>5, <2>6, <2>7, Quiet
<1>4. CASE ~(call[p].changed /\ ~CanMap)
  <2>1. PICK fol, l, c : /\ fol = Revalidated(p)
                         /\ l = (CASE ~Writes(p) -> "unlock"
                                   [] Writes(p) /\ NeedsExpunge(p, fol) -> "expunge"
                                   [] OTHER -> AfterExpunge(p))
                         /\ c = [call[p] EXCEPT !.mtime = 0, !.changed = FALSE]
    OBVIOUS
  <2>2. /\ mb' = [mb EXCEPT ![p] = fol] /\ pc' = [pc EXCEPT ![p] = l]
        /\ call' = [call EXCEPT ![p] = c]
        /\ unsafe' = (unsafe \/ (Writes(p) /\ ~Current(fol)))
    BY <1>4, <2>1 DEF Lock, Go
  <2>3. /\ fol \in Folders
        /\ \A m : /\ InTab(fol, m) =>
                       InTab(mb[p], m) \/ \E i \in Inodes : m \in Texts(data[i])
                  /\ InDeleted(fol, m) => InDeleted(mb[p], m)
    BY <1>1, <2>1, RevalidatedIs
  <2>4. /\ l \in {"unlock", "expunge", "append"}
        /\ l # "unlock" => Writes(p)
        /\ l = "append" => call[p].op = "append"
        /\ l = "unlock" => call[p].op # "append"
    <3>1. CASE ~Writes(p)
      BY <2>1, <3>1 DEF Writes
    <3>2. CASE Writes(p) /\ NeedsExpunge(p, fol)
      BY <2>1, <3>2
    <3>3. CASE Writes(p) /\ ~NeedsExpunge(p, fol)
      BY <2>1, <3>3 DEF AfterExpunge
    <3>4. QED
      BY <3>1, <3>2, <3>3
  <2>5. call[p] \in Calls /\ 0 \in 0..MaxTime
    BY <1>1, MboxAssumption DEF TypeOK
  <2>6. c \in Calls /\ c.op = call[p].op /\ c.msg = call[p].msg /\ c.changed = FALSE
    BY <2>1, <2>5 DEF Calls
  <2>7. /\ mb \in [Procs -> Folders] /\ pc \in [Procs \cup {Agent} -> Labels] /\ call \in [Procs -> Calls]
    BY <1>1 DEF TypeOK
  <2>8. /\ mb' \in [Procs -> Folders] /\ mb'[p] = fol
        /\ \A q \in Procs : q # p => mb'[q] = mb[q]
    BY <2>2, <2>3, <2>7
  <2>9. /\ pc' \in [Procs \cup {Agent} -> Labels] /\ pc'[p] = l
        /\ \A q \in Procs : q # p => pc'[q] = pc[q]
    BY <2>2, <2>4, <2>7 DEF Labels
  <2>10. /\ call' \in [Procs -> Calls] /\ call'[p] = c
         /\ \A q \in Procs : q # p => call'[q] = call[q]
    BY <2>2, <2>6, <2>7
  <2>11. unsafe' \in BOOLEAN
    BY <2>2
  <2>12. TypeOK'
    BY <1>1, <1>2, <2>8, <2>9, <2>10, <2>11 DEF TypeOK
  <2>13. Control'
    BY <1>1, <2>4, <2>6, <2>8, <2>9, <2>10 DEF MInv, Control, Working
  <2>14. ASSUME NEW q \in Procs, pc'[q] \in {"expunge", "append"} PROVE Current(mb[q])'
    <3>1. q = p
      BY <1>1, <2>9, <2>14 DEF Working
    <3>2. Current(fol)
      BY <2>2, <2>4, <2>9, <2>14, <3>1
    <3>3. QED
      BY <1>2, <2>8, <3>1, <3>2 DEF Current
  <2>15. ViewInv' /\ WriteInv'
    BY <1>1, <2>4, <2>9, <2>14 DEF ViewInv, WriteInv, Working
  <2>16. Stored'
    BY <1>1, <1>2, <2>4, <2>6, <2>9, <2>10 DEF MInv, Stored, Working
  <2>17. ASSUME NEW m \in Msgs, Nowhere(m) PROVE Nowhere(m)'
    <3>1. ~InTab(fol, m)
      BY <2>3, <2>17 DEF Nowhere
    <3>2. QED
      BY <1>2, <2>8, <2>17, <3>1 DEF Nowhere
  <2>18. \A q \in Procs : call'[q].op = "append" =>
            /\ call[q].op = "append" /\ call'[q].msg = call[q].msg
            /\ pc[q] # "unlock"
    BY <1>1, <2>6, <2>10 DEF Working
  <2>19. unsent' \subseteq unsent
    BY <1>2
  <2>20. Fresh'
    BY <2>17, <2>18, <2>19, NowhereFreshAll, Zenon
  <2>21. Spared'
    BY <1>2, <2>3, <2>8 DEF MInv, Spared
  <2>22. QED
    BY <2>12, <2>13, <2>15, <2>16, <2>20, <2>21 DEF MInv
<1>5. QED
  BY <1>3, <1>4

\* unlock_common: what was appended is accepted.
LEMMA UnlockInv ==
  ASSUME MInv, NEW p \in Procs, Unlock(p)
  PROVE  MInv'
<1>1. /\ TypeOK /\ pc[p] = "unlock" /\ lock = p /\ call[p] \in Calls
      /\ \A q \in Procs : q # p => pc[q] \notin Working
  BY DEF MInv, TypeOK, Control, Working, Unlock
<1>2. call[p].ok \in BOOLEAN /\ Finish(p, call[p].ok)
  BY <1>1, CallIs DEF Unlock
<1>3. /\ pc' \in [Procs \cup {Agent} -> Labels] /\ call' \in [Procs -> Calls]
      /\ mb' \in [Procs -> Folders] /\ marked' \in [Procs -> SUBSET Msgs]
      /\ pc'[p] \in {"closed", "idle"} /\ call'[p] = NoCall
      /\ \A q \in Procs : q # p => /\ pc'[q] = pc[q] /\ call'[q] = call[q]
                                   /\ mb'[q] = mb[q]
      /\ \A q \in Procs : mb'[q].mb_tab \in {mb[q].mb_tab, <<>>}
  BY <1>1, <1>2, FinishIs
<1>4. /\ now' = now /\ path' = path /\ data' = data /\ mtime' = mtime /\ lock' = None
      /\ crashes' = crashes /\ calls' = calls /\ unsent' = unsent /\ unsafe' = unsafe
  BY DEF Unlock, disk
<1>5. call'[p].op = "none"
  BY <1>3, NoCallIs
<1>6. kept' = kept \/ (call[p].op = "append" /\ call[p].ok /\ kept' = kept \cup {call[p].msg})
  BY DEF Unlock
<1>7. kept' \subseteq Msgs
  <2>1. kept \subseteq Msgs
    BY <1>1 DEF TypeOK
  <2>2. call[p].op = "append" => call[p].msg \in Msgs
    BY DEF MInv, Control
  <2>3. QED
    BY <1>6, <2>1, <2>2
<1>8. TypeOK'
  BY <1>1, <1>3, <1>4, <1>7 DEF TypeOK
<1>9. \A q \in Procs : pc'[q] \notin Working
  BY <1>1, <1>3 DEF Working
<1>10. Control'
  BY <1>3, <1>4, <1>5, <1>9 DEF MInv, Control, Working
<1>11. ViewInv' /\ WriteInv'
  BY <1>9 DEF ViewInv, WriteInv, Working
<1>12. kept' \subseteq Texts(data[path])
  BY <1>1, <1>6 DEF MInv, Stored
<1>13. Stored'
  BY <1>4, <1>9, <1>12 DEF Stored, Working
<1>14. TabsLess
  BY <1>3, TabsLessFrom
<1>15. CallsLess
  BY <1>3, <1>5 DEF CallsLess
<1>16. FilesLess
  BY <1>4 DEF FilesLess
<1>17. Fresh'
  BY <1>4, <1>14, <1>15, <1>16, QuietFresh
<1>18. ASSUME NEW q \in Procs, NEW m \in kept' PROVE ~InDeleted(mb'[q], m)
  <2>1. m \in Msgs
    BY <1>7
  <2>2. ~InDeleted(mb[q], m)
    BY <1>6 DEF MInv, Spared, Fresh, PendingOK
  <2>3. QED
    BY <1>14, <2>1, <2>2 DEF TabsLess
<1>19. QED
  BY <1>8, <1>10, <1>11, <1>13, <1>17, <1>18 DEF MInv, Spared

\* The counter is a number of its width.
LEMMA NextUidType ==
  ASSUME NEW u \in Uids
  PROVE  NextUid(u) \in Uids
<1>1. PICK m \in Nat \ {0} : m = UidSpace
  BY FormatAssumption
<1>2. PICK x \in Nat : x = u + 1
  BY FormatAssumption DEF Uids
<1>3. x % m \in 0..(m - 1)
  OBVIOUS
<1>4. QED
  BY <1>1, <1>2, <1>3 DEF NextUid, Uids

\* What a current view sees is the file.
LEMMA CurrentIs ==
  ASSUME TypeOK, NEW p \in Procs, Current(mb[p])
  PROVE  /\ mb[p].mb_fd = path /\ mb[p].mb_mapping_size = Len(data[path])
         /\ Mapping(p) = data[path] /\ Fits(data[path], mb[p].mb_tab)
<1>1. /\ mb[p].mb_fd = path /\ mb[p].mb_mapping_size = Len(data[path])
      /\ Fits(data[path], mb[p].mb_tab)
  BY DEF Current, Fits
<1>2. PICK f \in Seq(Cells) : f = data[path]
  BY DEF TypeOK
<1>3. Len(f) \in Nat
  OBVIOUS
<1>4. Resize(f, Len(f)) = f
  BY <1>3, ResizeIs
<1>5. path # NoFd
  BY MboxAssumption DEF TypeOK, NoFd
<1>6. QED
  BY <1>1, <1>2, <1>4, <1>5 DEF Mapping

\* ftruncate there and back.
LEMMA ResizeBack ==
  ASSUME NEW f \in Seq(Cells), NEW k \in Nat
  PROVE  Resize(Resize(f, Len(f) + k), Len(f)) = f
<1>1. PICK n \in Nat : n = Len(f)
  OBVIOUS
<1>2. PICK s, g, h : /\ s \in Nat /\ s = n + k
                     /\ g = Resize(f, s) /\ h = Resize(g, n)
  OBVIOUS
<1>3. /\ g \in Seq(Cells) /\ Len(g) = s
      /\ \A i \in 1..s : g[i] = IF i <= Len(f) THEN f[i] ELSE Nul
  BY <1>2, ResizeIs
<1>4. /\ h \in Seq(Cells) /\ Len(h) = n
      /\ \A i \in 1..n : h[i] = IF i <= Len(g) THEN g[i] ELSE Nul
  BY <1>1, <1>2, <1>3, ResizeIs
<1>5. ASSUME NEW i \in 1..n PROVE h[i] = f[i]
  BY <1>1, <1>2, <1>3, <1>4
<1>6. h = f
  BY <1>1, <1>4, <1>5, SeqEqual
<1>7. QED
  BY <1>1, <1>2, <1>6

\* ftruncate makes room for the new cells.
LEMMA TruncateInv ==
  ASSUME MInv, NEW p \in Procs, Truncate(p)
  PROVE  MInv'
<1>1. /\ TypeOK /\ pc[p] = "append" /\ lock = p /\ call[p].op = "append"
      /\ call[p].msg \in Msgs /\ Current(mb[p])
      /\ \A q \in Procs : q # p => pc[q] \notin Working
  BY DEF MInv, Control, ViewInv, Working, Truncate
<1>2. /\ mb[p] \in Folders /\ call[p] \in Calls /\ path \in Inodes
      /\ data \in [Inodes -> Seq(Cells)] /\ call \in [Procs -> Calls]
      /\ pc \in [Procs \cup {Agent} -> Labels] /\ mtime \in [Inodes -> 0..MaxTime]
      /\ now \in 0..MaxTime
  BY <1>1 DEF TypeOK
<1>3. PICK f \in Seq(Cells) : f = data[path]
  BY <1>2
<1>4. PICK n \in Nat : n = Len(f)
  OBVIOUS
<1>5. mb[p].mb_fd = path /\ mb[p].mb_mapping_size = n /\ Mapping(p) = f
  BY <1>1, <1>3, <1>4, CurrentIs
<1>6. PICK u \in Uids : u = AppendUid(mb[p])
  BY <1>2, FolderIs, NextUidType DEF AppendUid
<1>7. PICK m \in Msgs : m = call[p].msg
  BY <1>1
<1>8. PICK no_uid : no_uid = (p \in NoUid)
  OBVIOUS
<1>9. PICK a : a = NewCells(f, m, u, no_uid)
  OBVIOUS
<1>10. a \in Seq(Cells)
  BY <1>9, NewCellsAre
<1>11. PICK k \in Nat : k = Len(a)
  BY <1>10
<1>12. Appended(p) = a
  BY <1>5, <1>6, <1>7, <1>8, <1>9 DEF Appended
<1>13. PICK g : g = Resize(f, n + k)
  OBVIOUS
<1>14. n + k \in Nat /\ n + k >= Len(f)
  BY <1>4
<1>15. g \in Seq(Cells) /\ Len(g) = n + k /\ Texts(g) = Texts(f)
  <2>1. /\ Resize(f, n + k) \in Seq(Cells) /\ Len(Resize(f, n + k)) = n + k
        /\ Texts(Resize(f, n + k)) \subseteq Texts(f)
        /\ n + k >= Len(f) => Texts(f) \subseteq Texts(Resize(f, n + k))
    BY <1>14, ResizeIs, Zenon
  <2>2. QED
    BY <1>13, <1>14, <2>1, Zenon
<1>16. Resize(g, n) = f
  BY <1>4, <1>13, ResizeBack
<1>17. data' = [data EXCEPT ![path] = g] /\ mtime' = [mtime EXCEPT ![path] = now]
  BY <1>2, <1>3, <1>5, <1>11, <1>12, <1>13 DEF Truncate
<1>18. /\ data' \in [Inodes -> Seq(Cells)] /\ data'[path] = g
       /\ \A i \in Inodes : i # path => data'[i] = data[i]
  BY <1>2, <1>15, <1>17
<1>19. mtime' \in [Inodes -> 0..MaxTime]
  BY <1>2, <1>17
<1>20. PICK c : c = [call[p] EXCEPT !.size = n, !.uid = u]
  OBVIOUS
<1>21. /\ c \in Calls /\ c.op = call[p].op /\ c.msg = m /\ c.size = n /\ c.uid = u
       /\ c.changed = call[p].changed
  BY <1>2, <1>7, <1>20 DEF Calls
<1>22. call' = [call EXCEPT ![p] = c]
  BY <1>2, <1>5, <1>6, <1>20 DEF Truncate
<1>23. /\ call' \in [Procs -> Calls] /\ call'[p] = c
       /\ \A q \in Procs : q # p => call'[q] = call[q]
  BY <1>2, <1>21, <1>22
<1>24. /\ pc' \in [Procs \cup {Agent} -> Labels] /\ pc'[p] = "write"
       /\ \A q \in Procs : q # p => pc'[q] = pc[q]
  BY <1>2 DEF Truncate, Go, Labels
<1>25. /\ now' = now /\ path' = path /\ lock' = lock /\ mb' = mb /\ crashes' = crashes
       /\ calls' = calls /\ unsent' = unsent /\ kept' = kept /\ marked' = marked
       /\ unsafe' = unsafe
  BY DEF Truncate, ghosts
<1>26. TypeOK'
  BY <1>1, <1>18, <1>19, <1>23, <1>24, <1>25 DEF TypeOK
<1>27. Control'
  BY <1>1, <1>7, <1>21, <1>23, <1>24, <1>25 DEF MInv, Control, Working
<1>28. ViewInv'
  BY <1>1, <1>24 DEF ViewInv, Working
<1>29. kept \subseteq Texts(f)
  BY <1>3 DEF MInv, Stored
<1>30. Writing(p)'
  <2>1. call'[p].size = n /\ call'[p].msg = m /\ call'[p].uid = u
    BY <1>21, <1>23
  <2>2. data'[path'] = g /\ mb'[p].mb_fd = path' /\ kept' = kept
    BY <1>5, <1>18, <1>25
  <2>3. Len(g) = n + Len(NewCells(Resize(g, n), m, u, p \in NoUid))
    BY <1>8, <1>9, <1>11, <1>15, <1>16
  <2>4. QED
    BY <1>16, <1>29, <2>1, <2>2, <2>3 DEF Writing
<1>31. WriteInv'
  BY <1>1, <1>24, <1>30 DEF WriteInv, Working
<1>32. Stored'
  BY <1>1, <1>15, <1>18, <1>24, <1>25, <1>29 DEF Stored, Working
<1>33. FilesLess
  BY <1>3, <1>15, <1>18 DEF FilesLess
<1>34. TabsLess /\ CallsLess
  BY <1>1, <1>7, <1>21, <1>23, <1>24, <1>25 DEF TabsLess, CallsLess
<1>35. Fresh' /\ Spared'
  BY <1>25, <1>33, <1>34, QuietFresh, QuietSpared
<1>36. QED
  BY <1>26, <1>27, <1>28, <1>31, <1>32, <1>35 DEF MInv

\* The folder that has its rewritten file open.
LEMMA ReopenedIs ==
  ASSUME TypeOK, NEW fol \in Folders, NEW i \in Inodes, NEW bytes \in Seq(Cells),
         NEW r, r = Reopened(fol, i, bytes)
  PROVE  /\ r \in Folders /\ r.mb_fd = i /\ r.mb_mapping_size = Len(bytes)
         /\ Fits(bytes, r.mb_tab)
         /\ \A m : (InTab(r, m) => m \in Texts(bytes)) /\ ~InDeleted(r, m)
<1>1. PICK n, t : n \in Nat /\ n = Len(bytes) /\ t = MapAndParse(fol, bytes, n)
  OBVIOUS
<1>2. ReadFrom(bytes, n, t)
  BY <1>1, MapAndParseIs
<1>3. t \in Folders /\ t.mb_mapping_size = n /\ Fits(Resize(bytes, n), t.mb_tab)
  BY <1>2 DEF ReadFrom
<1>4. Resize(bytes, n) = bytes
  BY <1>1, ResizeIs
<1>5. r = [t EXCEPT !.mb_fd = i, !.mb_mtime = now, !.mb_changed = FALSE,
                    !.mb_deleted_count = 0]
  BY <1>1 DEF Reopened
<1>6. now \in 0..(MaxTime + 1) /\ i \in Inodes \cup {NoFd} /\ FALSE \in BOOLEAN /\ 0 \in Nat
  BY MboxAssumption DEF TypeOK
<1>7. r \in Folders /\ r.mb_fd = i /\ r.mb_mapping_size = n /\ r.mb_tab = t.mb_tab
  <2>1. PICK d : d = now
    OBVIOUS
  <2>2. r = [t EXCEPT !.mb_fd = i, !.mb_mtime = d, !.mb_changed = FALSE,
                      !.mb_deleted_count = 0]
    BY <1>5, <2>1
  <2>3. d \in 0..(MaxTime + 1)
    BY <1>6, <2>1
  <2>4. QED
    BY <1>3, <1>6, <2>2, <2>3 DEF Folders
<1>8. \A j \in 1..Len(r.mb_tab) : /\ r.mb_tab[j].deleted = FALSE
                                  /\ r.mb_tab[j].texts \subseteq Texts(bytes)
  BY <1>2, <1>7 DEF ReadFrom
<1>9. \A m : (InTab(r, m) => m \in Texts(bytes)) /\ ~InDeleted(r, m)
  BY <1>8, ReadTab
<1>10. QED
  BY <1>1, <1>3, <1>4, <1>7, <1>9

\* mailmbox_expunge_no_lock: the view is that of the file, so that nothing but
\* the marked entries is left out.
LEMMA ExpungeInvariant ==
  ASSUME MInv, NEW p \in Procs, Expunge(p)
  PROVE  MInv'
<1>1. /\ TypeOK /\ pc[p] = "expunge" /\ lock = p /\ Current(mb[p])
      /\ \A q \in Procs : q # p => pc[q] \notin Working
  BY DEF MInv, Control, ViewInv, Working, Expunge
<1>2. /\ mb \in [Procs -> Folders] /\ path \in Inodes
      /\ data \in [Inodes -> Seq(Cells)]
      /\ pc \in [Procs \cup {Agent} -> Labels] /\ mtime \in [Inodes -> 0..MaxTime]
      /\ now \in 0..MaxTime
  BY <1>1 DEF TypeOK
<1>3. PICK f \in Seq(Cells), old \in Folders : f = data[path] /\ old = mb[p]
  BY <1>2
<1>4. PICK tab \in Seq(Entries) : tab = old.mb_tab
  BY FolderIs
<1>5. Mapping(p) = f /\ Fits(f, tab)
  BY <1>1, <1>3, <1>4, CurrentIs
<1>6. PICK X, no_uid : X = ExpungeTo(f, tab, no_uid) /\ no_uid = (p \in NoUid)
  OBVIOUS
<1>7. NewContent(p) = X
  BY <1>3, <1>4, <1>5, <1>6 DEF NewContent
<1>8. /\ X \in Seq(Cells) /\ Texts(X) \subseteq Texts(f)
      /\ \A m \in Texts(f) :
           m \in Texts(X) \/ \E i \in 1..Len(tab) : tab[i].deleted /\ m \in tab[i].texts
  BY <1>5, <1>6, ExpungeKeeps
<1>9. PICK i \in Inodes : ReplaceFile(p, i)
  BY <1>1, <1>2, FreeInodeIs DEF Expunge
<1>10. /\ path' = i /\ data' = [data EXCEPT ![i] = X]
       /\ mtime' = [mtime EXCEPT ![i] = now]
  BY <1>7, <1>9 DEF ReplaceFile
<1>11. /\ data' \in [Inodes -> Seq(Cells)] /\ data'[i] = X
       /\ \A j \in Inodes : j # i => data'[j] = data[j]
  BY <1>2, <1>8, <1>10
<1>12. mtime' \in [Inodes -> 0..MaxTime]
  BY <1>2, <1>10
<1>13. PICK fol : fol = Reopened(old, i, X)
  OBVIOUS
<1>14. /\ fol \in Folders /\ fol.mb_fd = i /\ fol.mb_mapping_size = Len(X)
       /\ Fits(X, fol.mb_tab)
       /\ \A m : (InTab(fol, m) => m \in Texts(X)) /\ ~InDeleted(fol, m)
  BY <1>1, <1>8, <1>13, ReopenedIs
<1>15. mb' = [mb EXCEPT ![p] = fol]
  BY <1>2, <1>3, <1>7, <1>10, <1>13 DEF Expunge
<1>16. /\ mb' \in [Procs -> Folders] /\ mb'[p] = fol
       /\ \A q \in Procs : q # p => mb'[q] = mb[q]
  BY <1>2, <1>14, <1>15
<1>17. /\ pc' \in [Procs \cup {Agent} -> Labels] /\ pc'[p] \in {"append", "unlock"}
       /\ pc'[p] = "append" <=> call[p].op = "append"
       /\ \A q \in Procs : q # p => pc'[q] = pc[q]
  BY <1>2 DEF Expunge, Go, AfterExpunge, Labels
<1>18. /\ now' = now /\ lock' = lock /\ call' = call /\ crashes' = crashes
       /\ calls' = calls /\ unsent' = unsent /\ kept' = kept /\ marked' = marked
       /\ unsafe' = unsafe
  BY DEF Expunge, ghosts
<1>19. TypeOK'
  BY <1>1, <1>10, <1>11, <1>12, <1>16, <1>17, <1>18 DEF TypeOK
<1>20. Control'
  BY <1>1, <1>16, <1>17, <1>18 DEF MInv, Control, Working
<1>21. Current(mb[p])'
  <2>1. /\ mb'[p].mb_fd = path' /\ mb'[p].mb_mapping_size = Len(data'[path'])
        /\ Fits(data'[path'], mb'[p].mb_tab)
    BY <1>10, <1>11, <1>14, <1>16
  <2>2. QED
    BY <2>1 DEF Current, Fits
<1>22. ViewInv' /\ WriteInv'
  BY <1>1, <1>17, <1>21 DEF ViewInv, WriteInv, Working
<1>23. ASSUME NEW m \in kept PROVE m \in Texts(X)
  <2>1. m \in Texts(f)
    BY <1>3 DEF MInv, Stored
  <2>2. ~InDeleted(old, m)
    BY <1>3 DEF MInv, Spared
  <2>3. QED
    BY <1>4, <1>8, <2>1, <2>2 DEF InDeleted
<1>24. Stored'
  BY <1>1, <1>10, <1>11, <1>17, <1>18, <1>23 DEF Stored, Working
<1>25. ASSUME NEW m \in Msgs, Nowhere(m) PROVE Nowhere(m)'
  <2>1. m \notin Texts(f) /\ \A j \in Inodes : m \notin Texts(data[j])
    BY <1>2, <1>3, <1>25 DEF Nowhere
  <2>2. m \notin Texts(X) /\ ~InTab(fol, m)
    BY <1>8, <1>14, <2>1
  <2>3. \A j \in Inodes : m \notin Texts(data'[j])
    BY <1>11, <2>1, <2>2
  <2>4. \A q \in Procs : ~InTab(mb'[q], m)
    BY <1>16, <1>25, <2>2 DEF Nowhere
  <2>5. QED
    BY <2>3, <2>4 DEF Nowhere
<1>26. PICK Z : Z = {}
  OBVIOUS
<1>27. /\ \A q \in Procs : call'[q].op = "append" =>
            /\ call[q].op = "append" /\ call'[q].msg = call[q].msg
            /\ pc[q] # "unlock" /\ call[q].msg \notin Z
       /\ unsent' \subseteq unsent /\ \A m \in unsent' : m \notin Z
  BY <1>1, <1>18, <1>26 DEF Working
<1>28. Fresh'
  BY <1>25, <1>27, NowhereFresh
<1>29. Spared'
  BY <1>14, <1>16, <1>18 DEF MInv, Spared
<1>30. QED
  BY <1>19, <1>20, <1>22, <1>24, <1>28, <1>29 DEF MInv

\* The same with a folder that cannot be opened or mapped again: the table is
\* the old one.
LEMMA ReopenFailsInv ==
  ASSUME MInv, NEW p \in Procs, ReopenFails(p)
  PROVE  MInv'
<1>1. /\ TypeOK /\ pc[p] = "expunge" /\ lock = p /\ Current(mb[p])
      /\ \A q \in Procs : q # p => pc[q] \notin Working
  BY DEF MInv, Control, ViewInv, Working, ReopenFails
<1>2. /\ mb \in [Procs -> Folders] /\ path \in Inodes
      /\ data \in [Inodes -> Seq(Cells)]
      /\ mtime \in [Inodes -> 0..MaxTime] /\ now \in 0..MaxTime
  BY <1>1 DEF TypeOK
<1>3. PICK f \in Seq(Cells), old \in Folders : f = data[path] /\ old = mb[p]
  BY <1>2
<1>4. PICK tab \in Seq(Entries) : tab = old.mb_tab
  BY FolderIs
<1>5. Mapping(p) = f /\ Fits(f, tab)
  BY <1>1, <1>3, <1>4, CurrentIs
<1>6. PICK X, no_uid : X = ExpungeTo(f, tab, no_uid) /\ no_uid = (p \in NoUid)
  OBVIOUS
<1>7. NewContent(p) = X
  BY <1>3, <1>4, <1>5, <1>6 DEF NewContent
<1>8. /\ X \in Seq(Cells) /\ Texts(X) \subseteq Texts(f)
      /\ \A m \in Texts(f) :
           m \in Texts(X) \/ \E i \in 1..Len(tab) : tab[i].deleted /\ m \in tab[i].texts
  BY <1>5, <1>6, ExpungeKeeps
<1>9. PICK i \in Inodes : ReplaceFile(p, i)
  BY <1>1, <1>2, FreeInodeIs DEF ReopenFails
<1>10. /\ path' = i /\ data' = [data EXCEPT ![i] = X]
       /\ mtime' = [mtime EXCEPT ![i] = now]
  BY <1>7, <1>9 DEF ReplaceFile
<1>11. /\ data' \in [Inodes -> Seq(Cells)] /\ data'[i] = X
       /\ \A j \in Inodes : j # i => data'[j] = data[j]
  BY <1>2, <1>8, <1>10
<1>12. mtime' \in [Inodes -> 0..MaxTime]
  BY <1>2, <1>10
<1>13. PICK fd \in Inodes \cup {NoFd} :
         mb' = [mb EXCEPT ![p].mb_fd = fd, ![p].mb_mapping_size = 0]
  BY <1>10 DEF ReopenFails
<1>14. PICK fol : fol = [old EXCEPT !.mb_fd = fd, !.mb_mapping_size = 0]
  OBVIOUS
<1>15. fol \in Folders /\ fol.mb_tab = old.mb_tab
  BY <1>14 DEF Folders
<1>16. mb' = [mb EXCEPT ![p] = fol]
  BY <1>2, <1>3, <1>13, <1>14
<1>17. /\ mb' \in [Procs -> Folders] /\ mb'[p] = fol
       /\ \A q \in Procs : q # p => mb'[q] = mb[q]
  BY <1>2, <1>15, <1>16
<1>18. /\ call' \in [Procs -> Calls] /\ pc' \in [Procs \cup {Agent} -> Labels]
       /\ pc'[p] = "unlock" /\ call'[p].ok = FALSE
       /\ call'[p].op = call[p].op /\ call'[p].msg = call[p].msg
       /\ \A q \in Procs : q # p => pc'[q] = pc[q] /\ call'[q] = call[q]
  BY <1>1, FailIs DEF ReopenFails
<1>19. /\ now' = now /\ lock' = lock /\ crashes' = crashes
       /\ calls' = calls /\ unsent' = unsent /\ kept' = kept /\ marked' = marked
       /\ unsafe' = unsafe
  BY DEF ReopenFails, ghosts
<1>20. TypeOK'
  BY <1>1, <1>10, <1>11, <1>12, <1>17, <1>18, <1>19 DEF TypeOK
<1>21. Control'
  BY <1>1, <1>17, <1>18, <1>19 DEF MInv, Control, Working
<1>22. ViewInv' /\ WriteInv'
  BY <1>1, <1>18 DEF ViewInv, WriteInv, Working
<1>23. ASSUME NEW m \in kept PROVE m \in Texts(X)
  <2>1. m \in Texts(f)
    BY <1>3 DEF MInv, Stored
  <2>2. ~InDeleted(old, m)
    BY <1>3 DEF MInv, Spared
  <2>3. QED
    BY <1>4, <1>8, <2>1, <2>2 DEF InDeleted
<1>24. Stored'
  BY <1>1, <1>10, <1>11, <1>18, <1>19, <1>23 DEF Stored, Working
<1>25. \A q \in Procs : mb'[q].mb_tab = mb[q].mb_tab
  BY <1>3, <1>15, <1>17
<1>26. \A q \in Procs : \A m : /\ InTab(mb'[q], m) <=> InTab(mb[q], m)
                               /\ InDeleted(mb'[q], m) <=> InDeleted(mb[q], m)
  BY <1>25 DEF InTab, InDeleted
<1>27. ASSUME NEW m \in Msgs, Nowhere(m) PROVE Nowhere(m)'
  <2>1. m \notin Texts(X) /\ \A j \in Inodes : m \notin Texts(data[j])
    BY <1>2, <1>3, <1>8, <1>27 DEF Nowhere
  <2>2. \A j \in Inodes : m \notin Texts(data'[j])
    BY <1>11, <2>1
  <2>3. QED
    BY <1>26, <1>27, <2>2 DEF Nowhere
<1>28. \A q \in Procs : call'[q].op = "append" =>
            /\ call[q].op = "append" /\ call'[q].msg = call[q].msg
            /\ pc[q] # "unlock"
  BY <1>1, <1>18 DEF Working
<1>29. unsent' \subseteq unsent
  BY <1>19
<1>30. Fresh'
  BY <1>27, <1>28, <1>29, NowhereFreshAll, Zenon
<1>31. Spared'
  BY <1>19, <1>26 DEF MInv, Spared
<1>32. QED
  BY <1>20, <1>21, <1>22, <1>24, <1>30, <1>31 DEF MInv

\* A mail transfer agent appends: nobody works on the file then.
LEMMA DeliverInv ==
  ASSUME MInv, AgentInv, NEW m \in Msgs, NEW u \in DeliverUids, Deliver(m, u)
  PROVE  MInv'
<1>1. /\ TypeOK /\ lock = Agent /\ m \in unsent
      /\ \A q \in Procs : pc[q] \notin Working
  BY MboxAssumption DEF MInv, Control, Deliver, AgentInv
<1>2. /\ path \in Inodes /\ data \in [Inodes -> Seq(Cells)]
      /\ mtime \in [Inodes -> 0..MaxTime] /\ now \in 0..MaxTime
      /\ unsent \subseteq Msgs /\ kept \subseteq Msgs
  BY <1>1 DEF TypeOK
<1>3. PICK f, a, b, c, g :
        /\ f \in Seq(Cells) /\ f = data[path]
        /\ a = <<From>> /\ b = (IF u = 0 THEN <<>> ELSE <<Uid(u)>>)
        /\ c = <<Body(m)>> /\ g = ((f \o a) \o b) \o c
  BY <1>2
<1>4. u \in Uids /\ From \in Cells /\ Uid(u) \in Cells /\ Body(m) \in Cells
  BY MboxAssumption, CellsWritten
<1>5. a \in Seq(Cells) /\ b \in Seq(Cells) /\ c \in Seq(Cells)
  BY <1>3, <1>4
<1>6. Texts(a) = {} /\ Texts(b) = {} /\ Texts(c) = {m}
  BY <1>3 DEF Texts, From, Uid, Body
<1>7. f \o a \in Seq(Cells) /\ Texts(f \o a) = Texts(f) \cup Texts(a)
  BY <1>3, <1>5, TextsOfConcat
<1>8. PICK fa \in Seq(Cells) : fa = f \o a /\ Texts(fa) = Texts(f)
  BY <1>6, <1>7
<1>9. fa \o b \in Seq(Cells) /\ Texts(fa \o b) = Texts(fa) \cup Texts(b)
  BY <1>5, TextsOfConcat
<1>10. PICK fab \in Seq(Cells) : fab = fa \o b /\ Texts(fab) = Texts(f)
  BY <1>6, <1>8, <1>9
<1>11. fab \o c \in Seq(Cells) /\ Texts(fab \o c) = Texts(f) \cup {m}
  <2>1. fab \o c \in Seq(Cells) /\ Texts(fab \o c) = Texts(fab) \cup Texts(c)
    BY <1>5, TextsOfConcat, Zenon
  <2>2. QED
    BY <1>6, <1>10, <2>1, Zenon
<1>12. g \in Seq(Cells) /\ Texts(g) = Texts(f) \cup {m}
  BY <1>3, <1>8, <1>10, <1>11
<1>13. data' = [data EXCEPT ![path] = g] /\ mtime' = [mtime EXCEPT ![path] = now]
  BY <1>2, <1>3 DEF Deliver
<1>14. /\ data' \in [Inodes -> Seq(Cells)] /\ data'[path] = g
       /\ \A i \in Inodes : i # path => data'[i] = data[i]
  BY <1>2, <1>12, <1>13
<1>15. mtime' \in [Inodes -> 0..MaxTime]
  BY <1>2, <1>13
<1>16. /\ now' = now /\ path' = path /\ lock' = lock /\ mb' = mb /\ pc' = pc
       /\ call' = call /\ crashes' = crashes /\ calls' = calls /\ marked' = marked
       /\ unsafe' = unsafe /\ unsent' = unsent \ {m} /\ kept' = kept \cup {m}
  BY DEF Deliver
<1>17. TypeOK'
  BY <1>1, <1>2, <1>14, <1>15, <1>16 DEF TypeOK
<1>18. Control'
  BY <1>16 DEF MInv, Control
<1>19. ViewInv' /\ WriteInv'
  BY <1>1, <1>16 DEF ViewInv, WriteInv, Working
<1>20. Stored'
  BY <1>1, <1>3, <1>12, <1>14, <1>16 DEF MInv, Stored, Working
<1>21. PICK Z : Z = {m}
  OBVIOUS
<1>22. ASSUME NEW x \in Msgs, Nowhere(x), x \notin Z PROVE Nowhere(x)'
  <2>1. x # m /\ \A i \in Inodes : x \notin Texts(data[i])
    BY <1>21, <1>22 DEF Nowhere
  <2>2. x \notin Texts(g)
    BY <1>2, <1>3, <1>12, <2>1
  <2>3. \A i \in Inodes : x \notin Texts(data'[i])
    BY <1>14, <2>1, <2>2
  <2>4. QED
    BY <1>16, <1>22, <2>3 DEF Nowhere
<1>23. \A q \in Procs : call'[q].op = "append" =>
          /\ call[q].op = "append" /\ call'[q].msg = call[q].msg
          /\ pc[q] # "unlock" /\ call[q].msg \notin Z
  BY <1>1, <1>16, <1>21 DEF MInv, Fresh, PendingOK, Working
<1>24. unsent' \subseteq unsent /\ \A x \in unsent' : x \notin Z
  BY <1>16, <1>21
<1>25. Fresh'
  BY <1>22, <1>23, <1>24, NowhereFresh
<1>26. Nowhere(m)
  BY <1>1 DEF MInv, Fresh
<1>27. \A q \in Procs : ~InDeleted(mb[q], m)
  BY <1>26, NowhereIs
<1>28. Spared'
  BY <1>16, <1>27 DEF MInv, Spared
<1>29. QED
  BY <1>17, <1>18, <1>19, <1>20, <1>25, <1>28 DEF MInv

\* The table that mailmbox_parse_additionnal leaves stands for what it stood
\* for before and for texts of the file.
LEMMA AdditionnalTab ==
  ASSUME NEW f \in Seq(Cells), NEW fol \in Folders, NEW c \in 1..(Len(f) + 1),
         NEW new \in Folders,
         new.mb_tab = ParseAdditionnal(f, fol.mb_tab, fol.mb_written_uid, c).tab
  PROVE  \A m : /\ InTab(new, m) => InTab(fol, m) \/ m \in Texts(f)
                /\ InDeleted(new, m) => InDeleted(fol, m)
<1>1. PICK tab \in Seq(Entries), w \in Uids : tab = fol.mb_tab /\ w = fol.mb_written_uid
  BY FolderIs
<1>2. PICK r : r = ParseAdditionnal(f, tab, w, c)
  OBVIOUS
<1>3. new.mb_tab = r.tab
  BY <1>1, <1>2
<1>4. \A i \in 1..Len(r.tab) : Origin(r.tab[i], tab, f)
  BY <1>2, ParseTypes
<1>5. ASSUME NEW m, InTab(new, m) PROVE InTab(fol, m) \/ m \in Texts(f)
  <2>1. PICK i \in 1..Len(r.tab) : m \in r.tab[i].texts
    BY <1>3, <1>5 DEF InTab
  <2>2. Origin(r.tab[i], tab, f)
    BY <1>4
  <2>3. QED
    BY <1>1, <2>1, <2>2 DEF Origin, InTab
<1>6. ASSUME NEW m, InDeleted(new, m) PROVE InDeleted(fol, m)
  <2>1. PICK i \in 1..Len(r.tab) : r.tab[i].deleted /\ m \in r.tab[i].texts
    BY <1>3, <1>6 DEF InDeleted
  <2>2. Origin(r.tab[i], tab, f)
    BY <1>4
  <2>3. QED
    BY <1>1, <2>1, <2>2 DEF Origin, InDeleted
<1>7. QED
  BY <1>5, <1>6

\* The folder after mailmbox_parse_additionnal of the mapping f from c on.
FolderParsed(fol, new, f, c) ==
  LET r == ParseAdditionnal(f, fol.mb_tab, fol.mb_written_uid, c) IN
  /\ new.mb_tab = r.tab /\ new.mb_written_uid = r.written_uid
  /\ new.mb_max_uid = r.max_uid

\* The file and the folder after an append: the new text is in the file, and
\* what was there before.
WrittenTo(p, full, c) ==
  /\ full \in Seq(Cells) /\ c \in 1..(Len(full) + 1)
  /\ Texts(full) \subseteq Texts(data[path]) \cup {call[p].msg}
  /\ call[p].msg \in Texts(full) /\ kept \subseteq Texts(full)
  /\ data' \in [Inodes -> Seq(Cells)] /\ data'[path] = full
  /\ \A i \in Inodes : i # path => data'[i] = data[i]
  /\ mtime' \in [Inodes -> 0..MaxTime]
  /\ mb' \in [Procs -> Folders] /\ FolderParsed(mb[p], mb'[p], full, c)
  /\ \A q \in Procs : q # p => mb'[q] = mb[q]

\* The cells are written in the room made for them.
LEMMA WriteAndParseIs ==
  ASSUME MInv, NEW p \in Procs, WriteAndParse(p)
  PROVE  \E full, c : WrittenTo(p, full, c)
<1>1. /\ TypeOK /\ pc[p] = "write" /\ lock = p /\ call[p].op = "append"
      /\ call[p].msg \in Msgs /\ Writing(p)
      /\ \A q \in Procs : q # p => pc[q] \notin Working
  BY DEF MInv, Control, WriteInv, Working, WriteAndParse
<1>2. /\ mb \in [Procs -> Folders] /\ call[p] \in Calls /\ path \in Inodes
      /\ data \in [Inodes -> Seq(Cells)]
      /\ pc \in [Procs \cup {Agent} -> Labels] /\ mtime \in [Inodes -> 0..MaxTime]
      /\ now \in 0..MaxTime
  BY <1>1 DEF TypeOK
<1>3. PICK f \in Seq(Cells), fol \in Folders, m \in Msgs, c \in Nat, u \in Uids :
        /\ f = data[path] /\ fol = mb[p] /\ m = call[p].msg /\ c = call[p].size
        /\ u = call[p].uid
  BY <1>1, <1>2, CallIs
<1>4. PICK no_uid, old, new : /\ no_uid = (p \in NoUid) /\ old = Resize(f, c)
                              /\ new = NewCells(old, m, u, no_uid)
  OBVIOUS
<1>5. fol.mb_fd = path /\ Len(f) = c + Len(new) /\ kept \subseteq Texts(old)
  BY <1>1, <1>3, <1>4 DEF Writing
<1>6. old \in Seq(Cells)
  BY <1>4, ResizeIs
<1>7. new \in Seq(Cells) /\ Texts(new) = {m}
  BY <1>4, <1>6, NewCellsAre
<1>8. PICK full : full = Overwrite(f, c, new)
  OBVIOUS
<1>9. /\ full \in Seq(Cells) /\ Len(full) = Len(f)
      /\ Texts(full) \subseteq Texts(f) \cup Texts(new)
      /\ Texts(new) \subseteq Texts(full) /\ Texts(old) \subseteq Texts(full)
  BY <1>4, <1>5, <1>7, <1>8, OverwriteIs
<1>10. PICK n \in Nat : n = Len(full)
  BY <1>9
<1>11. Resize(full, n) = full
  BY <1>9, <1>10, ResizeIs
<1>12. c + 1 \in 1..(Len(full) + 1)
  BY <1>5, <1>7, <1>9
<1>13. PICK r : r = ParseAdditionnal(full, fol.mb_tab, fol.mb_written_uid, c + 1)
  OBVIOUS
<1>14. PICK D : D = [data EXCEPT ![path] = full]
  OBVIOUS
<1>15. /\ D \in [Inodes -> Seq(Cells)] /\ D[path] = full
       /\ \A i \in Inodes : i # path => D[i] = data[i]
  BY <1>2, <1>9, <1>14
<1>16. PICK M : M = [mtime EXCEPT ![path] = now]
  OBVIOUS
<1>17. M \in [Inodes -> 0..MaxTime] /\ M[path] \in 0..(MaxTime + 1)
  BY <1>2, <1>16, MboxAssumption
<1>18. PICK fol2 : fol2 = [fol EXCEPT !.mb_mapping_size = n, !.mb_tab = r.tab,
                             !.mb_written_uid = r.written_uid,
                             !.mb_max_uid = r.max_uid, !.mb_mtime = M[path]]
  OBVIOUS
<1>19. data' = D /\ mtime' = M
  BY <1>3, <1>4, <1>5, <1>8, <1>14, <1>16 DEF WriteAndParse
<1>20. mb' = [mb EXCEPT ![p] = fol2]
  <2>1. data[fol.mb_fd] = f /\ Overwrite(data[fol.mb_fd], c, new) = full
    BY <1>3, <1>5, <1>8
  <2>2. [data EXCEPT ![fol.mb_fd] = full] = D /\ Len(D[path]) = n
    BY <1>5, <1>10, <1>14, <1>15
  <2>3. mtime'[path] = M[path]
    BY <1>19
  <2>4. mb' = [mb EXCEPT ![p].mb_mapping_size = n, ![p].mb_tab = r.tab,
                         ![p].mb_written_uid = r.written_uid,
                         ![p].mb_max_uid = r.max_uid, ![p].mb_mtime = M[path]]
    BY <1>3, <1>4, <1>11, <1>13, <2>1, <2>2, <2>3 DEF WriteAndParse
  <2>5. QED
    BY <1>2, <1>3, <1>18, <2>4
<1>21. fol.mb_tab \in Seq(Entries) /\ fol.mb_written_uid \in Uids
  BY FolderIs
<1>22. r.tab \in Seq(Entries) /\ r.written_uid \in Uids /\ r.max_uid \in Uids
  BY <1>9, <1>12, <1>13, <1>21, ParseTypes
<1>23. /\ fol2 \in Folders /\ fol2.mb_tab = r.tab
       /\ fol2.mb_written_uid = r.written_uid /\ fol2.mb_max_uid = r.max_uid
  BY <1>17, <1>18, <1>22 DEF Folders
<1>24. /\ mb' \in [Procs -> Folders] /\ mb'[p] = fol2
       /\ \A q \in Procs : q # p => mb'[q] = mb[q]
  BY <1>2, <1>20, <1>23
<1>25. FolderParsed(mb[p], mb'[p], full, c + 1)
  BY <1>3, <1>13, <1>23, <1>24 DEF FolderParsed
<1>26. /\ Texts(full) \subseteq Texts(data[path]) \cup {call[p].msg}
       /\ call[p].msg \in Texts(full) /\ kept \subseteq Texts(full)
  BY <1>3, <1>5, <1>7, <1>9
<1>27. WrittenTo(p, full, c + 1)
  BY <1>9, <1>12, <1>15, <1>17, <1>19, <1>24, <1>25, <1>26 DEF WrittenTo
<1>28. QED
  BY <1>27

\* The message is in the file then, and in this folder's table only.
LEMMA WriteAndParseInv ==
  ASSUME MInv, NEW p \in Procs, WriteAndParse(p)
  PROVE  MInv'
<1>1. /\ TypeOK /\ pc[p] = "write" /\ lock = p /\ call[p].op = "append"
      /\ call[p].msg \in Msgs
      /\ \A q \in Procs : q # p => pc[q] \notin Working
  BY DEF MInv, Control, Working, WriteAndParse
<1>2. /\ mb \in [Procs -> Folders] /\ path \in Inodes
      /\ data \in [Inodes -> Seq(Cells)] /\ pc \in [Procs \cup {Agent} -> Labels]
  BY <1>1 DEF TypeOK
<1>3. PICK f \in Seq(Cells), fol \in Folders, m \in Msgs :
        f = data[path] /\ fol = mb[p] /\ m = call[p].msg
  BY <1>1, <1>2
<1>4. PICK full, c : WrittenTo(p, full, c)
  BY WriteAndParseIs
<1>5. /\ full \in Seq(Cells) /\ c \in 1..(Len(full) + 1)
      /\ Texts(full) \subseteq Texts(f) \cup {m}
      /\ m \in Texts(full) /\ kept \subseteq Texts(full)
  BY <1>3, <1>4 DEF WrittenTo
<1>6. /\ data' \in [Inodes -> Seq(Cells)] /\ data'[path] = full
      /\ \A i \in Inodes : i # path => data'[i] = data[i]
      /\ mtime' \in [Inodes -> 0..MaxTime]
  BY <1>4 DEF WrittenTo
<1>7. PICK fol2 \in Folders : /\ mb' \in [Procs -> Folders] /\ mb'[p] = fol2
                              /\ \A q \in Procs : q # p => mb'[q] = mb[q]
                              /\ FolderParsed(fol, fol2, full, c)
  BY <1>3, <1>4 DEF WrittenTo
<1>8. fol2.mb_tab = ParseAdditionnal(full, fol.mb_tab, fol.mb_written_uid, c).tab
  BY <1>7 DEF FolderParsed
<1>9. \A x : /\ InTab(fol2, x) => InTab(fol, x) \/ x \in Texts(full)
             /\ InDeleted(fol2, x) => InDeleted(fol, x)
  BY <1>5, <1>8, AdditionnalTab
<1>10. /\ pc' \in [Procs \cup {Agent} -> Labels] /\ pc'[p] = "unlock"
       /\ \A q \in Procs : q # p => pc'[q] = pc[q]
  BY <1>2 DEF WriteAndParse, Go, Labels
<1>11. /\ now' = now /\ path' = path /\ lock' = lock /\ call' = call
       /\ crashes' = crashes /\ calls' = calls /\ unsent' = unsent /\ kept' = kept
       /\ marked' = marked /\ unsafe' = unsafe
  BY DEF WriteAndParse, ghosts
<1>12. TypeOK'
  BY <1>1, <1>6, <1>7, <1>10, <1>11 DEF TypeOK
<1>13. Control'
  BY <1>1, <1>7, <1>10, <1>11 DEF MInv, Control, Working
<1>14. ViewInv' /\ WriteInv'
  BY <1>1, <1>10 DEF ViewInv, WriteInv, Working
<1>15. data'[path'] = full /\ m \in Texts(full) /\ kept \subseteq Texts(full)
  BY <1>5, <1>6, <1>11
<1>16. Stored'
  BY <1>1, <1>3, <1>10, <1>11, <1>15 DEF Stored, Working
<1>17. ASSUME NEW x \in Msgs, Nowhere(x), x # m PROVE Nowhere(x)'
  <2>1. x \notin Texts(f) /\ \A i \in Inodes : x \notin Texts(data[i])
    BY <1>2, <1>3, <1>17 DEF Nowhere
  <2>2. x \notin Texts(full)
    BY <1>5, <1>17, <2>1
  <2>3. \A i \in Inodes : x \notin Texts(data'[i])
    BY <1>6, <2>1, <2>2
  <2>4. \A q \in Procs : ~InTab(mb'[q], x)
    BY <1>3, <1>9, <1>7, <1>17, <2>2 DEF Nowhere
  <2>5. QED
    BY <2>3, <2>4 DEF Nowhere
<1>18. PendingOK(p) /\ Nowhere(m) /\ m \notin unsent
  BY <1>1, <1>3 DEF MInv, Fresh, PendingOK
<1>19. PendingOK(p)'
  <2>1. \A q \in Procs : ~InTab(mb[q], m) /\ ~InDeleted(mb[q], m)
    BY <1>18, NowhereIs
  <2>2. \A q \in Procs : (q # p => ~InTab(mb'[q], m)) /\ ~InDeleted(mb'[q], m)
    BY <1>3, <1>9, <1>7, <2>1
  <2>3. QED
    BY <1>3, <1>10, <1>11, <1>18, <2>2 DEF PendingOK
<1>20. ASSUME NEW q \in Procs, q # p, call[q].op = "append" PROVE PendingOK(q)'
  <2>1. PICK x : x = call[q].msg
    OBVIOUS
  <2>2. x \in Msgs /\ PendingOK(q) /\ x # m
    BY <1>1, <1>3, <1>20, <2>1 DEF MInv, Control, Fresh
  <2>3. x \notin unsent /\ Nowhere(x)
    BY <1>1, <1>20, <2>1, <2>2 DEF PendingOK, Working
  <2>4. Nowhere(x)'
    BY <1>17, <2>2, <2>3
  <2>5. \A y \in Procs : ~InTab(mb'[y], x) /\ ~InDeleted(mb'[y], x)
    BY <2>4 DEF Nowhere, InTab, InDeleted
  <2>6. QED
    BY <1>11, <2>1, <2>3, <2>4, <2>5 DEF PendingOK
<1>21. ASSUME NEW x \in unsent PROVE Nowhere(x)'
  <2>1. x \in Msgs /\ Nowhere(x)
    BY <1>1 DEF MInv, TypeOK, Fresh
  <2>2. QED
    BY <1>17, <1>18, <2>1
<1>22. Fresh'
  BY <1>11, <1>19, <1>20, <1>21 DEF MInv, Fresh
<1>23. Spared'
  BY <1>3, <1>9, <1>7, <1>11 DEF MInv, Spared
<1>24. QED
  BY <1>12, <1>13, <1>14, <1>16, <1>22, <1>23 DEF MInv

-----------------------------------------------------------------------------
\* The invariant, and what it is for.

\* A delivered mailbox with one message, no folder open.
LEMMA InitInv ==
  ASSUME Init
  PROVE  MInv /\ AgentInv /\ ~unsafe
<1>1. PICK m \in Msgs, u \in {0} \cup DeliverUids :
        /\ data = [i \in Inodes |->
                     IF i = 1 THEN <<From>> \o (IF u = 0 THEN <<>> ELSE <<Uid(u)>>)
                                     \o <<Body(m)>>
                              ELSE <<>>]
        /\ unsent = Msgs \ {m}
        /\ kept = {m}
  BY DEF Init
<1>2. PICK a, b, c, g : /\ a = <<From>> /\ b = (IF u = 0 THEN <<>> ELSE <<Uid(u)>>)
                        /\ c = <<Body(m)>> /\ g = (a \o b) \o c
  OBVIOUS
<1>3. u \in Uids
  BY MboxAssumption, FormatAssumption DEF Uids
<1>4. From \in Cells /\ Uid(u) \in Cells /\ Body(m) \in Cells
  BY <1>3, CellsWritten
<1>5. a \in Seq(Cells) /\ b \in Seq(Cells) /\ c \in Seq(Cells)
  BY <1>2, <1>4
<1>6. Texts(a) = {} /\ Texts(b) = {} /\ Texts(c) = {m}
  BY <1>2 DEF Texts, From, Uid, Body
<1>7. a \o b \in Seq(Cells) /\ Texts(a \o b) = Texts(a) \cup Texts(b)
  BY <1>5, TextsOfConcat
<1>8. PICK ab \in Seq(Cells) : ab = a \o b /\ Texts(ab) = {}
  BY <1>6, <1>7
<1>9. ab \o c \in Seq(Cells) /\ Texts(ab \o c) = Texts(ab) \cup Texts(c)
  BY <1>5, TextsOfConcat
<1>10. g \in Seq(Cells) /\ Texts(g) = {m}
  BY <1>2, <1>6, <1>8, <1>9
<1>11. PICK z \in Seq(Cells) : z = <<>> /\ Texts(z) = {}
  <2>1. <<>> \in Seq(Cells)
    OBVIOUS
  <2>2. Texts(<<>>) = {}
    BY DEF Texts
  <2>3. QED
    BY <2>1, <2>2
<1>12. data = [i \in Inodes |-> IF i = 1 THEN g ELSE z]
  BY <1>1, <1>2, <1>11
<1>13. /\ path = 1 /\ path \in Inodes /\ data \in [Inodes -> Seq(Cells)]
       /\ data[path] = g /\ \A i \in Inodes : data[i] \in {g, z}
  BY <1>10, <1>12, MboxAssumption DEF Init
<1>14. /\ now = 0 /\ mtime = [i \in Inodes |-> 0] /\ lock = None
       /\ mb = [p \in Procs |-> FolderNew] /\ pc = [p \in Procs \cup {Agent} |-> "closed"]
       /\ call = [p \in Procs |-> NoCall] /\ crashes = 0 /\ calls = 0
       /\ marked = [p \in Procs |-> {}] /\ unsafe = FALSE
  BY DEF Init
<1>15. \A p \in Procs : pc[p] = "closed" /\ call[p].op = "none" /\ mb[p].mb_tab = <<>>
  BY <1>14, NoCallIs, FolderNewIs
<1>16. /\ mb \in [Procs -> Folders] /\ call \in [Procs -> Calls]
       /\ pc \in [Procs \cup {Agent} -> Labels]
  BY <1>14, NoCallIs, FolderNewIs DEF Labels
<1>17. /\ now \in 0..MaxTime /\ mtime \in [Inodes -> 0..MaxTime]
       /\ crashes \in 0..MaxCrashes /\ calls \in 0..MaxCalls
  BY <1>14, MboxAssumption
<1>18. TypeOK
  BY <1>1, <1>13, <1>14, <1>16, <1>17 DEF TypeOK
<1>19. Control /\ ViewInv /\ WriteInv
  BY <1>15 DEF Control, ViewInv, WriteInv, Working
<1>20. Stored
  BY <1>1, <1>10, <1>13, <1>15 DEF Stored
<1>21. \A p \in Procs : \A x : ~InTab(mb[p], x) /\ ~InDeleted(mb[p], x)
  <2>1. \A p \in Procs : Len(mb[p].mb_tab) = 0
    BY <1>15
  <2>2. QED
    BY <2>1 DEF InTab, InDeleted
<1>22. ASSUME NEW x \in unsent PROVE Nowhere(x)
  <2>1. x # m
    BY <1>1
  <2>2. \A i \in Inodes : x \notin Texts(data[i])
    BY <1>10, <1>11, <1>13, <2>1
  <2>3. QED
    BY <1>21, <2>2 DEF Nowhere
<1>23. Fresh
  BY <1>15, <1>22 DEF Fresh
<1>24. Spared
  BY <1>21 DEF Spared
<1>25. QED
  BY <1>14, <1>18, <1>19, <1>20, <1>23, <1>24 DEF MInv, AgentInv

\* What the lock did not protect is never forgotten.
LEMMA UnsafeStays ==
  ASSUME [Next]_vars, ~unsafe'
  PROVE  ~unsafe
<1>1. CASE UNCHANGED vars
  BY <1>1 DEF vars
<1>2. ASSUME NEW p \in Procs, ProcStep(p) PROVE ~unsafe
  <2>1. CASE Lock(p) \/ BreakStaleLock(p) \/ CopyFails(p)
    BY <2>1 DEF Lock, BreakStaleLock, CopyFails
  <2>2. CASE \/ InitCall(p) \/ Reopen(p) \/ LockTimeout(p) \/ StatLock(p)
             \/ ExpungeFails(p) \/ Expunge(p) \/ ReopenFails(p)
             \/ Truncate(p) \/ TruncateFails(p)
             \/ WriteAndParse(p) \/ Unlock(p) \/ Crash(p) \/ Restart(p)
    BY <2>2 DEF InitCall, Reopen, LockTimeout, StatLock, ExpungeFails,
                Expunge, ReopenFails, Truncate, TruncateFails, WriteAndParse, Unlock, Crash,
                Restart, ghosts
  <2>3. CASE \/ \E m \in Msgs : AppendCall(p, m)
             \/ \E op \in {"read", "expunge", "done"} : OtherCall(p, op)
             \/ \E u \in Uids : DeleteMsg(p, u)
    BY <2>3 DEF AppendCall, OtherCall, DeleteMsg, ghosts
  <2>4. QED
    BY <1>2, <2>1, <2>2, <2>3 DEF ProcStep
<1>3. ASSUME NEW m \in Msgs, NEW u \in DeliverUids, Deliver(m, u) PROVE ~unsafe
  BY <1>3 DEF Deliver
<1>4. CASE Tick \/ AgentLocks \/ AgentUnlocks
  BY <1>4 DEF Tick, AgentLocks, AgentUnlocks, ghosts
<1>5. QED
  BY <1>1, <1>2, <1>3, <1>4 DEF Next

\* A process's step is none of the agent's.
LEMMA AgentLeftAlone ==
  ASSUME TypeOK, NEW p \in Procs, ProcStep(p)
  PROVE  pc'[Agent] = pc[Agent]
<1>1. pc \in [Procs \cup {Agent} -> Labels] /\ p # Agent
  BY MboxAssumption DEF TypeOK
<1>2. (pc' = pc \/ \E l : pc' = [pc EXCEPT ![p] = l]) => pc'[Agent] = pc[Agent]
  BY <1>1
<1>3. CASE \/ InitCall(p) \/ \E m \in Msgs : AppendCall(p, m)
           \/ \E op \in {"read", "expunge", "done"} : OtherCall(p, op)
  BY <1>2, <1>3 DEF InitCall, AppendCall, OtherCall, Enter, Go
<1>4. CASE LockTimeout(p) \/ Unlock(p)
  BY <1>2, <1>4 DEF LockTimeout, Unlock, Finish, Go
<1>5. CASE Lock(p)
  BY <1>2, <1>5 DEF Lock, Go
<1>6. CASE \/ Reopen(p) \/ StatLock(p) \/ BreakStaleLock(p) \/ ExpungeFails(p)
           \/ Expunge(p) \/ ReopenFails(p) \/ CopyFails(p) \/ Truncate(p)
           \/ TruncateFails(p) \/ WriteAndParse(p) \/ Crash(p) \/ Restart(p)
  BY <1>2, <1>6 DEF Reopen, StatLock, BreakStaleLock, ExpungeFails, Expunge,
                    ReopenFails, CopyFails, Truncate, TruncateFails, WriteAndParse,
                    Crash, Restart, Go
<1>7. CASE \E u \in Uids : DeleteMsg(p, u)
  BY <1>2, <1>7 DEF DeleteMsg
<1>8. QED
  BY <1>3, <1>4, <1>5, <1>6, <1>7 DEF ProcStep

\* Nobody but the agent removes the agent's lock file, unless he breaks a live
\* lock.
LEMMA NextAgent ==
  ASSUME MInv, AgentInv, [Next]_vars, ~unsafe'
  PROVE  AgentInv'
<1>1. TypeOK /\ pc \in [Procs \cup {Agent} -> Labels] /\ Agent \notin Procs /\ None # Agent
  BY MboxAssumption DEF MInv, TypeOK
<1>2. ASSUME NEW p \in Procs, ProcStep(p) PROVE AgentInv'
  <2>1. pc'[Agent] = pc[Agent]
    BY <1>1, <1>2, AgentLeftAlone
  <2>2. CASE lock' = lock
    BY <2>1, <2>2 DEF AgentInv
  <2>3. CASE Lock(p)
    BY <1>1, <2>1, <2>3 DEF AgentInv, Lock
  <2>4. CASE BreakStaleLock(p)
    BY <2>1, <2>4 DEF AgentInv, BreakStaleLock
  <2>5. CASE Unlock(p)
    <3>1. lock = p
      BY <2>5 DEF MInv, Control, Working, Unlock
    <3>2. QED
      BY <1>1, <2>1, <3>1 DEF AgentInv
  <2>6. CASE \/ InitCall(p) \/ Reopen(p) \/ LockTimeout(p) \/ StatLock(p)
             \/ ExpungeFails(p) \/ Expunge(p) \/ ReopenFails(p) \/ CopyFails(p)
             \/ Truncate(p) \/ TruncateFails(p)
             \/ WriteAndParse(p) \/ Crash(p) \/ Restart(p)
    BY <2>2, <2>6 DEF InitCall, Reopen, LockTimeout, StatLock, ExpungeFails,
                Expunge, ReopenFails, CopyFails, Truncate, TruncateFails,
                WriteAndParse, Crash, Restart
  <2>7. CASE \/ \E m \in Msgs : AppendCall(p, m)
             \/ \E op \in {"read", "expunge", "done"} : OtherCall(p, op)
             \/ \E u \in Uids : DeleteMsg(p, u)
    BY <2>2, <2>7 DEF AppendCall, OtherCall, DeleteMsg
  <2>8. QED
    BY <1>2, <2>3, <2>4, <2>5, <2>6, <2>7 DEF ProcStep
<1>3. CASE AgentLocks \/ AgentUnlocks
  BY <1>1, <1>3 DEF AgentInv, AgentLocks, AgentUnlocks, Go
<1>4. ASSUME NEW m \in Msgs, NEW u \in DeliverUids, Deliver(m, u) PROVE AgentInv'
  BY <1>4 DEF AgentInv, Deliver
<1>5. CASE Tick \/ UNCHANGED vars
  BY <1>5 DEF AgentInv, Tick, vars
<1>6. QED
  BY <1>2, <1>3, <1>4, <1>5 DEF Next

\* One step, of whoever.
LEMMA NextInv ==
  ASSUME MInv, AgentInv, [Next]_vars, ~unsafe'
  PROVE  MInv'
<1>1. ASSUME NEW p \in Procs, ProcStep(p) PROVE MInv'
  <2>1. CASE InitCall(p)
    BY <2>1, InitCallInv
  <2>2. ASSUME NEW m \in Msgs, AppendCall(p, m) PROVE MInv'
    BY <2>2, AppendCallInv
  <2>3. ASSUME NEW op \in {"read", "expunge", "done"}, OtherCall(p, op) PROVE MInv'
    BY <2>3, OtherCallInv
  <2>4. ASSUME NEW u \in Uids, DeleteMsg(p, u) PROVE MInv'
    BY <2>4, DeleteMsgInv
  <2>5. CASE Reopen(p)
    BY <2>5, ReopenInv
  <2>6. CASE Lock(p)
    BY <2>6, LockInv
  <2>7. CASE LockTimeout(p)
    BY <2>7, LockTimeoutInv
  <2>8. CASE BreakStaleLock(p)
    BY <2>8, BreakStaleLockInv
  <2>9. CASE ExpungeFails(p)
    BY <2>9, ExpungeFailsInv
  <2>10. CASE Expunge(p)
    BY <2>10, ExpungeInvariant
  <2>11. CASE Truncate(p)
    BY <2>11, TruncateInv
  <2>12. CASE TruncateFails(p)
    BY <2>12, TruncateFailsInv
  <2>13. CASE WriteAndParse(p)
    BY <2>13, WriteAndParseInv
  <2>14. CASE Unlock(p)
    BY <2>14, UnlockInv
  <2>15. CASE Crash(p)
    BY <2>15, CrashInv
  <2>16. CASE Restart(p)
    BY <2>16, RestartInv
  <2>17. CASE StatLock(p)
    BY <2>17, StatLockInv
  <2>18. CASE ReopenFails(p)
    BY <2>18, ReopenFailsInv
  <2>19. CASE CopyFails(p)
    BY <2>19, CopyFailsInv
  <2>20. QED
    BY <1>1, <2>1, <2>2, <2>3, <2>4, <2>5, <2>6, <2>7, <2>8, <2>9, <2>10, <2>11,
       <2>12, <2>13, <2>14, <2>15, <2>16, <2>17, <2>18, <2>19 DEF ProcStep
<1>2. ASSUME NEW m \in Msgs, NEW u \in DeliverUids, Deliver(m, u) PROVE MInv'
  BY <1>2, DeliverInv
<1>3. CASE Tick
  <2>1. now' \in 0..MaxTime
    BY <1>3, MboxAssumption DEF Tick, MInv, TypeOK
  <2>2. QED
    BY <1>3, <2>1, IdleInv DEF Tick
<1>4. CASE UNCHANGED vars
  <2>1. now' \in 0..MaxTime
    BY <1>4 DEF vars, MInv, TypeOK
  <2>2. UNCHANGED <<disk, lock, mb, pc, call, crashes, calls, ghosts>>
    BY <1>4 DEF vars, disk, ghosts
  <2>3. QED
    BY <2>1, <2>2, IdleInv
<1>5. CASE AgentLocks \/ AgentUnlocks
  BY <1>5, AgentLockInv
<1>6. QED
  BY <1>1, <1>2, <1>3, <1>4, <1>5 DEF Next

\* As long as the lock protects the file, everything is in order.
WhileSafe == unsafe \/ (MInv /\ AgentInv)

LEMMA AlwaysWhileSafe ==
  Spec => []WhileSafe
<1>1. Init => WhileSafe
  BY InitInv DEF WhileSafe
<1>2. WhileSafe /\ [Next]_vars => WhileSafe'
  BY UnsafeStays, NextInv, NextAgent DEF WhileSafe
<1>3. QED
  BY <1>1, <1>2, PTL DEF Spec

\* mailmbox_append_message_list, mailmbox_expunge_no_lock and
\* mailmbox_delete_msg: for any number of processes and messages, whatever the
\* deaths, removed lock files of dead processes, failed renames, reopenings and
\* deliveries, an accepted message stays in the file until somebody asks for
\* its deletion - as long as no writer got the lock with a view taken before
\* it, no waiter removed a live holder's lock file, and no copy_to_old_file
\* failed between its ftruncate() and its memcpy().
THEOREM AcceptedMessagesStay ==
  Spec => []NoMessageLost
<1>1. WhileSafe => NoMessageLost
  BY DEF WhileSafe, MInv, Stored, NoMessageLost, Lost
<1>2. QED
  BY <1>1, AlwaysWhileSafe, PTL

-----------------------------------------------------------------------------
\* The numbers.

\* FoldersNums, tables and files stay far below the width of the counter.
Room ==
  \E B \in Nat :
    /\ 4 * B < UidSpace
    /\ \A p \in Procs : mb[p].mb_max_uid <= B /\ Len(mb[p].mb_tab) <= B
    /\ \A i \in Inodes : Len(data[i]) <= B /\ FileBelow(data[i], B)

\* What NumbersDistinct says of one folder, and that its counter is not behind
\* what the file holds.
FolderNums(fol) ==
  /\ fol.mb_written_uid <= fol.mb_max_uid
  /\ \A i \in 1..Len(fol.mb_tab) : fol.mb_tab[i].uid \in 1..fol.mb_max_uid
  /\ \A i, j \in 1..Len(fol.mb_tab) : fol.mb_tab[i].uid = fol.mb_tab[j].uid => i = j

FoldersNums == \A p \in Procs : FolderNums(mb[p])

\* What FolderNums looks at.
LEMMA SameNums ==
  ASSUME NEW old, NEW new, FolderNums(old), new.mb_written_uid = old.mb_written_uid,
         new.mb_max_uid = old.mb_max_uid, new.mb_tab = old.mb_tab
  PROVE  FolderNums(new)
BY DEF FolderNums

\* A new folder has no messages.
LEMMA NewNums ==
  FolderNums(FolderNew)
<1>1. /\ FolderNew.mb_tab = <<>> /\ FolderNew.mb_written_uid = 0
      /\ FolderNew.mb_max_uid = 0
  BY DEF FolderNew
<1>2. Len(FolderNew.mb_tab) = 0
  BY <1>1
<1>3. QED
  BY <1>1, <1>2 DEF FolderNums

\* What both states leave room for.
BoundFor(B, fol, f) ==
  /\ B \in Nat /\ 4 * B < UidSpace
  /\ fol.mb_max_uid <= B /\ Len(fol.mb_tab) <= B
  /\ Len(f) <= B /\ FileBelow(f, B)

\* One bound for a folder before and the files after a step.
LEMMA RoomFor ==
  ASSUME Room, Room', NEW p \in Procs, mb[p] \in Folders,
         data' \in [Inodes -> Seq(Cells)]
  PROVE  \E B : \A i \in Inodes : BoundFor(B, mb[p], data'[i])
<1>1. PICK b \in Nat : 4 * b < UidSpace /\ mb[p].mb_max_uid <= b /\ Len(mb[p].mb_tab) <= b
  BY DEF Room
<1>2. PICK c \in Nat : /\ 4 * c < UidSpace
                       /\ \A i \in Inodes : Len(data'[i]) <= c /\ FileBelow(data'[i], c)
  BY DEF Room
<1>3. PICK fol \in Folders : fol = mb[p]
  OBVIOUS
<1>4. fol.mb_max_uid \in Uids /\ fol.mb_tab \in Seq(Entries)
  BY FolderIs
<1>5. fol.mb_max_uid \in Nat /\ Len(fol.mb_tab) \in Nat
  BY <1>4, FormatAssumption DEF Uids
<1>6. PICK B \in Nat : B >= b /\ B >= c /\ (B = b \/ B = c)
  <2>1. b >= c \/ c >= b
    OBVIOUS
  <2>2. b >= b /\ c >= c
    OBVIOUS
  <2>3. QED
    BY <2>1, <2>2, Zenon
<1>7. ASSUME NEW i \in Inodes PROVE BoundFor(B, fol, data'[i])
  <2>1. PICK f \in Seq(Cells) : f = data'[i]
    OBVIOUS
  <2>2. PICK x \in Nat, y \in Nat, z \in Nat :
          x = fol.mb_max_uid /\ y = Len(fol.mb_tab) /\ z = Len(f)
    BY <1>5
  <2>3. x <= b /\ y <= b /\ z <= c
    BY <1>1, <1>2, <1>3, <2>1, <2>2, Zenon
  <2>4. x <= B /\ y <= B /\ z <= B
    BY <1>6, <2>3
  <2>5. 4 * B < UidSpace
    BY <1>1, <1>2, <1>6, Zenon
  <2>6. ASSUME NEW k \in 1..Len(f), f[k].k = "uid" PROVE f[k].v <= B
    <3>1. f[k].v <= c /\ f[k] \in Cells
      BY <1>2, <2>1, <2>6 DEF FileBelow
    <3>2. f[k].v \in Nat
      BY <2>6, <3>1, CellValues, FormatAssumption DEF Uids
    <3>3. QED
      BY <1>6, <3>1, <3>2
  <2>7. FileBelow(f, B)
    BY <2>6 DEF FileBelow
  <2>8. QED
    BY <2>1, <2>2, <2>4, <2>5, <2>7 DEF BoundFor
<1>8. QED
  BY <1>3, <1>7

\* mailmbox_parse_additionnal keeps the numbers apart.
LEMMA ParsedNums ==
  ASSUME NEW fol \in Folders, FolderNums(fol), NEW f \in Seq(Cells), NEW B,
         BoundFor(B, fol, f), NEW c \in 1..(Len(f) + 1), NEW new,
         FolderParsed(fol, new, f, c)
  PROVE  FolderNums(new)
<1>1. PICK tab \in Seq(Entries), w \in Uids, max \in Uids :
        tab = fol.mb_tab /\ w = fol.mb_written_uid /\ max = fol.mb_max_uid
  BY FolderIs
<1>2. w \in Nat /\ max \in Nat /\ UidSpace \in Nat /\ Len(tab) \in Nat /\ Len(f) \in Nat
  BY FormatAssumption DEF Uids
<1>3. /\ B \in Nat /\ 4 * B < UidSpace /\ max <= B /\ Len(tab) <= B /\ Len(f) <= B
      /\ FileBelow(f, B)
  BY <1>1 DEF BoundFor
<1>4. w <= B /\ B + Len(tab) + Len(f) < UidSpace
  BY <1>1, <1>2, <1>3 DEF FolderNums
<1>5. TableBelow(tab, B)
  <2>1. SUFFICES ASSUME NEW i \in 1..Len(tab) PROVE tab[i].uid <= B
    BY DEF TableBelow
  <2>2. PICK u \in 1..max : u = tab[i].uid
    BY <1>1 DEF FolderNums
  <2>3. u <= B
    BY <1>2, <1>3
  <2>4. QED
    BY <2>2, <2>3, Zenon
<1>6. Distinct(tab)
  <2>1. \A i, j \in 1..Len(tab) : tab[i].uid = tab[j].uid => i = j
    BY <1>1, Zenon DEF FolderNums
  <2>2. QED
    BY <2>1 DEF Distinct
<1>7. PICK r : r = ParseAdditionnal(f, tab, w, c)
  OBVIOUS
<1>8. NumsApart(r)
  BY <1>3, <1>4, <1>5, <1>6, <1>7, ParseNums, Zenon
<1>9. new.mb_tab = r.tab /\ new.mb_written_uid = r.written_uid /\ new.mb_max_uid = r.max_uid
  BY <1>1, <1>7 DEF FolderParsed
<1>10. QED
  BY <1>8, <1>9 DEF FolderNums, NumsApart

\* mailmbox_map and mailmbox_parse too.
LEMMA MappedNums ==
  ASSUME NEW fol \in Folders, FolderNums(fol), NEW bytes \in Seq(Cells),
         NEW size \in Nat, NEW f, f = Resize(bytes, size), NEW B, BoundFor(B, fol, f),
         NEW r, r = MapAndParse(fol, bytes, size)
  PROVE  FolderNums(r)
<1>1. f \in Seq(Cells)
  BY ResizeIs
<1>2. PICK e \in Folders : e = [fol EXCEPT !.mb_tab = <<>>]
  <2>1. <<>> \in Seq(Entries)
    OBVIOUS
  <2>2. [fol EXCEPT !.mb_tab = <<>>] \in Folders
    BY <2>1 DEF Folders
  <2>3. QED
    BY <2>2
<1>3. /\ e.mb_tab = <<>> /\ e.mb_written_uid = fol.mb_written_uid
      /\ e.mb_max_uid = fol.mb_max_uid
  BY <1>2 DEF Folders
<1>4. Len(e.mb_tab) = 0
  BY <1>3
<1>5. FolderNums(e)
  BY <1>3, <1>4 DEF FolderNums
<1>6. BoundFor(B, e, f)
  BY <1>3, <1>4 DEF BoundFor
<1>7. PICK t, w : t = Parse(f, w) /\ w = fol.mb_written_uid
  OBVIOUS
<1>8. r = [fol EXCEPT !.mb_mapping_size = size, !.mb_tab = t.tab,
                      !.mb_written_uid = t.written_uid, !.mb_max_uid = t.max_uid]
  BY <1>7 DEF MapAndParse
<1>9. /\ r.mb_tab = t.tab /\ r.mb_written_uid = t.written_uid
      /\ r.mb_max_uid = t.max_uid
  BY <1>8 DEF Folders
<1>10. FolderParsed(e, r, f, 1)
  BY <1>3, <1>7, <1>9 DEF FolderParsed, Parse
<1>11. 1 \in 1..(Len(f) + 1)
  BY <1>1
<1>12. QED
  BY <1>1, <1>5, <1>6, <1>10, <1>11, ParsedNums

\* mailmbox_delete_msg changes no number.
LEMMA MarkDeletedNums ==
  ASSUME NEW fol \in Folders, FolderNums(fol), NEW i \in DOMAIN fol.mb_tab,
         NEW r, r = MarkDeleted(fol, i)
  PROVE  FolderNums(r)
<1>1. PICK tab, e, t : /\ tab = fol.mb_tab /\ e = [tab[i] EXCEPT !.deleted = TRUE]
                       /\ t = [tab EXCEPT ![i] = e]
  OBVIOUS
<1>2. tab \in Seq(Entries) /\ i \in 1..Len(tab)
  BY <1>1, FolderIs
<1>3. tab[i] \in Entries
  BY <1>2
<1>4. e \in Entries /\ e.uid = tab[i].uid
  BY <1>1, <1>3 DEF Entries
<1>5. /\ t \in Seq(Entries) /\ Len(t) = Len(tab) /\ t[i] = e
      /\ \A j \in 1..Len(tab) : j # i => t[j] = tab[j]
  BY <1>1, <1>2, <1>4
<1>6. r = [fol EXCEPT !.mb_tab = t, !.mb_changed = TRUE,
                      !.mb_deleted_count = fol.mb_deleted_count + 1]
  BY <1>1 DEF MarkDeleted
<1>7. /\ r.mb_tab = t /\ r.mb_max_uid = fol.mb_max_uid
      /\ r.mb_written_uid = fol.mb_written_uid
  BY <1>6 DEF Folders
<1>8. \A j \in 1..Len(t) : t[j].uid = tab[j].uid
  BY <1>4, <1>5
<1>9. QED
  BY <1>1, <1>5, <1>7, <1>8 DEF FolderNums

\* A step that gives one process another folder.
LEMMA NumbersStep ==
  ASSUME FoldersNums, NEW p \in Procs, FolderNums(mb'[p]),
         \A q \in Procs : q # p => mb'[q] = mb[q]
  PROVE  FoldersNums'
BY DEF FoldersNums

\* The end of an operation.
LEMMA FinishNums ==
  ASSUME TypeOK, FoldersNums, NEW p \in Procs, NEW ok, Finish(p, ok)
  PROVE  FoldersNums'
<1>1. mb \in [Procs -> Folders] /\ FolderNums(mb[p])
  BY DEF TypeOK, FoldersNums
<1>2. PICK gone : mb' = [mb EXCEPT ![p] = IF gone THEN FolderNew ELSE @]
  BY DEF Finish
<1>3. mb'[p] \in {mb[p], FolderNew} /\ \A q \in Procs : q # p => mb'[q] = mb[q]
  BY <1>1, <1>2
<1>4. FolderNums(mb'[p])
  BY <1>1, <1>3, NewNums
<1>5. QED
  BY <1>3, <1>4, NumbersStep

\* The table is read anew once the process has the lock.
LEMMA LockNums ==
  ASSUME MInv, FoldersNums, Room, Room', NEW p \in Procs, Lock(p)
  PROVE  FoldersNums'
<1>1. /\ TypeOK /\ pc[p] = "lock" /\ mb \in [Procs -> Folders] /\ path \in Inodes
      /\ data \in [Inodes -> Seq(Cells)] /\ data' = data
  BY DEF MInv, TypeOK, Lock, disk
<1>2. CASE call[p].changed /\ ~CanMap
  <2>1. mb' = mb
    BY <1>2 DEF Lock
  <2>2. QED
    BY <2>1 DEF FoldersNums
<1>3. CASE ~(call[p].changed /\ ~CanMap)
  <2>1. mb' = [mb EXCEPT ![p] = Revalidated(p)]
    BY <1>3 DEF Lock
  <2>2. mb'[p] = Revalidated(p) /\ \A q \in Procs : q # p => mb'[q] = mb[q]
    BY <1>1, <2>1
  <2>3. CASE ~call[p].changed
    BY <2>2, <2>3, NumbersStep DEF Revalidated, FoldersNums
  <2>4. CASE call[p].changed
    <3>1. PICK fol \in Folders, fd \in Inodes, bytes \in Seq(Cells), size \in Nat :
            fol = mb[p] /\ fd = mb[p].mb_fd /\ bytes = data[fd] /\ size = Len(data[path])
      BY <1>1, <2>4 DEF MInv, Control
    <3>2. PICK B : \A i \in Inodes : BoundFor(B, fol, data[i])
      BY <1>1, <3>1, RoomFor
    <3>3. PICK f, r : f = Resize(bytes, size) /\ r = MapAndParse(fol, bytes, size)
      OBVIOUS
    <3>4. Len(f) = size /\ (FileBelow(bytes, B) => FileBelow(f, B))
      BY <3>3, ResizeIs
    <3>5. BoundFor(B, fol, bytes) /\ BoundFor(B, fol, data[path])
      BY <1>1, <3>1, <3>2
    <3>6. BoundFor(B, fol, f)
      BY <3>1, <3>4, <3>5 DEF BoundFor
    <3>7. FolderNums(fol)
      BY <3>1 DEF FoldersNums
    <3>8. FolderNums(r)
      BY <3>3, <3>6, <3>7, MappedNums
    <3>9. PICK t : t = call[p].mtime
      OBVIOUS
    <3>10. mb'[p] = [r EXCEPT !.mb_mtime = t]
      BY <2>2, <2>4, <3>1, <3>3, <3>9 DEF Revalidated
    <3>11. r \in Folders
      BY <3>3, MapAndParseIs DEF ReadFrom
    <3>12. /\ mb'[p].mb_tab = r.mb_tab /\ mb'[p].mb_max_uid = r.mb_max_uid
           /\ mb'[p].mb_written_uid = r.mb_written_uid
      BY <3>10, <3>11 DEF Folders
    <3>13. FolderNums(mb'[p])
      BY <3>8, <3>12, SameNums
    <3>14. QED
      BY <2>2, <3>13, NumbersStep
  <2>5. QED
    BY <2>3, <2>4
<1>4. QED
  BY <1>2, <1>3

\* The rewritten file is parsed from scratch.
LEMMA ExpungeNums ==
  ASSUME MInv, MInv', FoldersNums, Room, Room', NEW p \in Procs, Expunge(p)
  PROVE  FoldersNums'
<1>1. /\ mb \in [Procs -> Folders] /\ data \in [Inodes -> Seq(Cells)] /\ path' \in Inodes
      /\ data' \in [Inodes -> Seq(Cells)]
  BY DEF MInv, TypeOK
<1>2. PICK X, j : X = NewContent(p) /\ j = path'
  OBVIOUS
<1>3. data' = [data EXCEPT ![j] = X] /\ mb' = [mb EXCEPT ![p] = Reopened(@, j, X)]
  BY <1>2 DEF Expunge, ReplaceFile
<1>4. data'[j] = X /\ X \in Seq(Cells) /\ j \in Inodes
  BY <1>1, <1>2, <1>3
<1>5. PICK fol, n, r : /\ fol \in Folders /\ fol = mb[p] /\ n \in Nat /\ n = Len(X)
                       /\ r = MapAndParse(fol, X, n)
  <2>1. mb[p] \in Folders /\ Len(X) \in Nat
    BY <1>1, <1>4
  <2>2. QED
    BY <2>1
<1>6. /\ mb'[p] = Reopened(fol, j, X)
      /\ \A q \in Procs : q # p => mb'[q] = mb[q]
  BY <1>1, <1>3, <1>5
<1>7. PICK B : \A i \in Inodes : BoundFor(B, fol, data'[i])
  BY <1>1, <1>5, RoomFor
<1>8. BoundFor(B, fol, X) /\ Resize(X, n) = X
  BY <1>4, <1>5, <1>7, ResizeIs
<1>9. FolderNums(fol)
  BY <1>5 DEF FoldersNums
<1>10. FolderNums(r)
  BY <1>4, <1>5, <1>8, <1>9, MappedNums
<1>11. PICK t : t = now
  OBVIOUS
<1>12. mb'[p] = [r EXCEPT !.mb_fd = j, !.mb_mtime = t, !.mb_changed = FALSE,
                          !.mb_deleted_count = 0]
  BY <1>5, <1>6, <1>11 DEF Reopened
<1>13. r \in Folders
  BY <1>4, <1>5, MapAndParseIs DEF ReadFrom
<1>14. /\ mb'[p].mb_tab = r.mb_tab /\ mb'[p].mb_max_uid = r.mb_max_uid
       /\ mb'[p].mb_written_uid = r.mb_written_uid
  BY <1>12, <1>13 DEF Folders
<1>15. FolderNums(mb'[p])
  BY <1>10, <1>14, SameNums
<1>16. QED
  BY <1>6, <1>15, NumbersStep

\* What was appended is parsed behind what the table knows.
LEMMA WriteNums ==
  ASSUME MInv, FoldersNums, Room, Room', NEW p \in Procs, WriteAndParse(p)
  PROVE  FoldersNums'
<1>1. mb \in [Procs -> Folders] /\ path \in Inodes
  BY DEF MInv, TypeOK
<1>2. PICK full, c : WrittenTo(p, full, c)
  BY WriteAndParseIs
<1>3. /\ full \in Seq(Cells) /\ c \in 1..(Len(full) + 1)
      /\ data' \in [Inodes -> Seq(Cells)] /\ data'[path] = full
      /\ FolderParsed(mb[p], mb'[p], full, c)
      /\ \A q \in Procs : q # p => mb'[q] = mb[q]
  BY <1>2 DEF WrittenTo
<1>4. PICK fol \in Folders : fol = mb[p]
  BY <1>1
<1>5. PICK B : \A i \in Inodes : BoundFor(B, fol, data'[i])
  BY <1>1, <1>3, <1>4, RoomFor
<1>6. BoundFor(B, fol, full)
  BY <1>1, <1>3, <1>5
<1>7. FolderNums(fol)
  BY <1>4 DEF FoldersNums
<1>8. PICK new : new = mb'[p]
  OBVIOUS
<1>9. FolderNums(new)
  BY <1>3, <1>4, <1>6, <1>7, <1>8, ParsedNums
<1>10. QED
  BY <1>3, <1>8, <1>9, NumbersStep

\* One step, of whoever.
LEMMA NextNums ==
  ASSUME MInv, AgentInv, FoldersNums, Room, Room', [Next]_vars, ~unsafe'
  PROVE  FoldersNums'
<1>1. TypeOK /\ mb \in [Procs -> Folders]
  BY DEF MInv, TypeOK
<1>2. ASSUME mb' = mb PROVE FoldersNums'
  BY <1>2 DEF FoldersNums
<1>3. ASSUME NEW p \in Procs, ProcStep(p) PROVE FoldersNums'
  <2>1. CASE \/ InitCall(p) \/ StatLock(p) \/ BreakStaleLock(p) \/ ExpungeFails(p)
             \/ Truncate(p) \/ Restart(p) \/ \E m \in Msgs : AppendCall(p, m)
             \/ \E op \in {"read", "expunge", "done"} : OtherCall(p, op)
    BY <1>2, <2>1 DEF InitCall, StatLock, BreakStaleLock, ExpungeFails, Truncate, Restart,
                      AppendCall, OtherCall
  <2>2. ASSUME NEW u \in Uids, DeleteMsg(p, u) PROVE FoldersNums'
    <3>1. PICK i \in DOMAIN mb[p].mb_tab : mb' = [mb EXCEPT ![p] = MarkDeleted(@, i)]
      BY <2>2 DEF DeleteMsg
    <3>2. PICK fol, r : fol \in Folders /\ fol = mb[p] /\ r = MarkDeleted(fol, i)
      BY <1>1
    <3>3. FolderNums(fol) /\ i \in DOMAIN fol.mb_tab
      BY <3>2 DEF FoldersNums
    <3>4. FolderNums(r)
      BY <3>2, <3>3, MarkDeletedNums
    <3>5. mb'[p] = r /\ \A q \in Procs : q # p => mb'[q] = mb[q]
      BY <1>1, <3>1, <3>2
    <3>6. QED
      BY <3>4, <3>5, NumbersStep
  <2>3. CASE Reopen(p) \/ TruncateFails(p) \/ ReopenFails(p) \/ CopyFails(p)
    <3>1. PICK fd, n : mb' = [mb EXCEPT ![p].mb_fd = fd, ![p].mb_mapping_size = n]
      <4>1. CASE Reopen(p)
        BY <4>1 DEF Reopen
      <4>2. CASE TruncateFails(p)
        <5>1. PICK n : n = Len(data[path])
          OBVIOUS
        <5>2. mb' = [mb EXCEPT ![p].mb_mapping_size = n]
          BY <4>2, <5>1 DEF TruncateFails
        <5>3. PICK fol, fd : fol \in Folders /\ fol = mb[p] /\ fd = fol.mb_fd
          BY <1>1
        <5>4. [fol EXCEPT !.mb_mapping_size = n]
                = [fol EXCEPT !.mb_fd = fd, !.mb_mapping_size = n]
          BY <5>3 DEF Folders
        <5>5. mb' = [mb EXCEPT ![p].mb_fd = fd, ![p].mb_mapping_size = n]
          BY <1>1, <5>2, <5>3, <5>4
        <5>6. QED
          BY <5>5
      <4>3. CASE ReopenFails(p) \/ CopyFails(p)
        BY <4>3 DEF ReopenFails, CopyFails
      <4>4. QED
        BY <2>3, <4>1, <4>2, <4>3
    <3>2. PICK fol \in Folders : fol = mb[p]
      BY <1>1
    <3>3. /\ mb'[p] = [fol EXCEPT !.mb_fd = fd, !.mb_mapping_size = n]
          /\ \A q \in Procs : q # p => mb'[q] = mb[q]
      BY <1>1, <3>1, <3>2
    <3>4. /\ mb'[p].mb_tab = fol.mb_tab /\ mb'[p].mb_max_uid = fol.mb_max_uid
          /\ mb'[p].mb_written_uid = fol.mb_written_uid
      BY <3>3 DEF Folders
    <3>5. FolderNums(mb'[p])
      BY <3>2, <3>4, SameNums DEF FoldersNums
    <3>6. QED
      BY <3>3, <3>5, NumbersStep
  <2>4. CASE Lock(p)
    BY <2>4, LockNums
  <2>5. CASE LockTimeout(p) \/ Unlock(p)
    BY <1>1, <2>5, FinishNums DEF LockTimeout, Unlock
  <2>6. CASE Expunge(p)
    BY <2>6, NextInv, ExpungeNums
  <2>7. CASE WriteAndParse(p)
    BY <2>7, WriteNums
  <2>8. CASE Crash(p)
    <3>1. mb'[p] = FolderNew /\ \A q \in Procs : q # p => mb'[q] = mb[q]
      BY <1>1, <2>8 DEF Crash
    <3>2. QED
      BY <3>1, NewNums, NumbersStep
  <2>9. QED
    BY <1>3, <2>1, <2>2, <2>3, <2>4, <2>5, <2>6, <2>7, <2>8 DEF ProcStep
<1>4. ASSUME NEW m \in Msgs, NEW u \in DeliverUids, Deliver(m, u) PROVE FoldersNums'
  BY <1>2, <1>4 DEF Deliver
<1>5. CASE Tick \/ AgentLocks \/ AgentUnlocks
  BY <1>2, <1>5 DEF Tick, AgentLocks, AgentUnlocks
<1>6. CASE UNCHANGED vars
  BY <1>2, <1>6 DEF vars
<1>7. QED
  BY <1>3, <1>4, <1>5, <1>6 DEF Next

\* mailmbox_parse_additionnal, in every folder: as long as numbers, tables and
\* files stay below a quarter of the width of msg_uid, the numbers of a table
\* are distinct, not zero and not above mb_max_uid, whoever numbered, appended,
\* expunged or died in between.
THEOREM NumbersStayDistinct ==
  Spec /\ []Room => [](~unsafe => NumbersDistinct)
<1>1. DEFINE NInv == unsafe \/ FoldersNums
<1>2. Init => NInv
  <2>1. SUFFICES ASSUME Init PROVE FoldersNums
    OBVIOUS
  <2>2. mb = [p \in Procs |-> FolderNew]
    BY <2>1 DEF Init
  <2>3. QED
    BY <2>2, NewNums DEF FoldersNums
<1>3. NInv /\ WhileSafe /\ Room /\ Room' /\ [Next]_vars => NInv'
  BY UnsafeStays, NextNums DEF WhileSafe
<1>4. WhileSafe /\ NInv => (~unsafe => NumbersDistinct)
  <2>1. SUFFICES ASSUME MInv, FoldersNums PROVE NumbersDistinct
    BY DEF WhileSafe
  <2>2. TypeOK
    BY <2>1 DEF MInv
  <2>3. ASSUME NEW p \in Procs
        PROVE  /\ \A i \in DOMAIN mb[p].mb_tab : mb[p].mb_tab[i].uid \in 1..mb[p].mb_max_uid
               /\ \A i, j \in DOMAIN mb[p].mb_tab :
                    mb[p].mb_tab[i].uid = mb[p].mb_tab[j].uid => i = j
    <3>1. mb[p] \in Folders
      BY <2>2 DEF TypeOK
    <3>2. mb[p].mb_tab \in Seq(Entries)
      BY <3>1, FolderIs
    <3>3. DOMAIN mb[p].mb_tab = 1..Len(mb[p].mb_tab)
      BY <3>2
    <3>4. QED
      BY <2>1, <3>3 DEF FoldersNums, FolderNums
  <2>4. QED
    BY <2>2, <2>3 DEF NumbersDistinct
<1>5. QED
  <2>1. Spec => []WhileSafe
    BY AlwaysWhileSafe
  <2>2. QED
    BY <1>2, <1>3, <1>4, <2>1, PTL DEF Spec

=============================================================================
