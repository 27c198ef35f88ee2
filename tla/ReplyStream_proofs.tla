--------------------------- MODULE ReplyStream_proofs ---------------------------
(***************************************************************************)
(* Wherever the reads cut the stream, each pending call gets the reply     *)
(* that was sent for it: proved for all well-formed replies of any length  *)
(* whose lines fit into line_buf, any number of them pipelined, and any    *)
(* size of line_buf that holds a known line.                               *)
(***************************************************************************)
EXTENDS ReplyStream, DataFacts

-----------------------------------------------------------------------------
(***************************************************************************)
(* FlattenSeq is the last value of a function that equals its own          *)
(* unfolding.                                                              *)
(***************************************************************************)
Joins(ss, n, f) == f = [i \in 1 .. n |-> IF i = 1 THEN ss[i] ELSE f[i - 1] \o ss[i]]

LEMMA FlattenChosen ==
    ASSUME NEW ss, NEW n \in Nat \ {0}, Len(ss) = n
    PROVE  FlattenSeq(ss) = (CHOOSE f : Joins(ss, n, f))[n]
BY DEF FlattenSeq, Joins

\* The first m of both are the same.
SameFirst(ss, tt, m) == \A i \in 1 .. m : ss[i] = tt[i]

\* Its values, one by one.
LEMMA JoinsFirst ==
    ASSUME NEW ss, NEW n \in Nat \ {0}, NEW f, Joins(ss, n, f)
    PROVE  f[1] = ss[1]
<1> DEFINE e == [j \in 1 .. n |-> IF j = 1 THEN ss[j] ELSE f[j - 1] \o ss[j]]
<1>1. f[1] = e[1]
  <2>1. f = e
    BY DEF Joins
  <2> HIDE DEF e
  <2> QED
    BY <2>1
<1>2. e[1] = ss[1]
  OBVIOUS
<1> HIDE DEF e
<1> QED
  BY <1>1, <1>2

Appends(ss, f, i) == f[i + 1] = f[i] \o ss[i + 1]

LEMMA JoinsNext ==
    ASSUME NEW ss, NEW n \in Nat, NEW f, Joins(ss, n, f), NEW i \in Nat \ {0}, i < n
    PROVE  Appends(ss, f, i)
<1> DEFINE e == [j \in 1 .. n |-> IF j = 1 THEN ss[j] ELSE f[j - 1] \o ss[j]]
<1>1. f[i + 1] = e[i + 1]
  <2>1. f = e
    BY DEF Joins
  <2> HIDE DEF e
  <2> QED
    BY <2>1
<1>2. e[i + 1] = f[i] \o ss[i + 1]
  <2>1. i + 1 \in 1 .. n /\ i + 1 # 1 /\ (i + 1) - 1 = i
    OBVIOUS
  <2>2. e[i + 1] = f[(i + 1) - 1] \o ss[i + 1]
    BY <2>1
  <2> HIDE DEF e
  <2> QED
    BY <2>1, <2>2
<1> HIDE DEF e
<1> QED
  BY <1>1, <1>2 DEF Appends

\* There is such a function.
LEMMA JoinsExist ==
    ASSUME NEW ss, NEW n \in Nat
    PROVE  \E f : Joins(ss, n, f)
<1> DEFINE Q == {m \in Nat : \E f : Joins(ss, m, f)}
<1>1. 0 \in Q
  <2>1. Joins(ss, 0, [i \in 1 .. 0 |-> 0])
    BY DEF Joins
  <2> QED
    BY <2>1
<1>2. ASSUME NEW m \in Nat, m \in Q
      PROVE  m + 1 \in Q
  <2>1. PICK f : Joins(ss, m, f)
    BY <1>2
  <2> DEFINE G(h) == [i \in 1 .. m + 1 |-> IF i = 1 THEN ss[i] ELSE h[i - 1] \o ss[i]]
  <2>2. PICK g : g = G(f)
    OBVIOUS
  <2>3. ASSUME NEW i \in 1 .. m
        PROVE  g[i] = f[i]
    <3> DEFINE e == [j \in 1 .. m |-> IF j = 1 THEN ss[j] ELSE f[j - 1] \o ss[j]]
    <3>1. f[i] = e[i]
      <4>1. f = e
        BY <2>1 DEF Joins
      <4> HIDE DEF e
      <4> QED
        BY <4>1
    <3>2. e[i] = G(f)[i]
      OBVIOUS
    <3> HIDE DEF e, G
    <3> QED
      BY <2>2, <3>1, <3>2
  <2>4. \A i \in 2 .. m + 1 : g[i - 1] = f[i - 1]
    <3> HIDE DEF G, Q
    <3> SUFFICES ASSUME NEW i \in 2 .. m + 1 PROVE g[i - 1] = f[i - 1]
      OBVIOUS
    <3>1. i - 1 \in 1 .. m
      OBVIOUS
    <3> QED
      BY <2>3, <3>1
  <2>5. G(f) = G(g)
    BY <2>4
  <2>6. Joins(ss, m + 1, g)
    <3>1. g = G(g)
      <4> HIDE DEF G
      <4> QED
        BY <2>2, <2>5
    <3> QED
      BY <3>1 DEF Joins
  <2> QED
    BY <2>6
<1>3. Q = Nat
  <2> HIDE DEF Q
  <2>1. Q \subseteq Nat
    BY DEF Q
  <2> QED
    BY <1>1, <1>2, <2>1, NatInductive
<1> QED
  BY <1>3

\* Its values depend on the sequences up to there only.
Agree(f, g, m) == f[m] = g[m]

LEMMA JoinsUnique ==
    ASSUME NEW ss, NEW tt, NEW n \in Nat, NEW m \in 1 .. n, SameFirst(ss, tt, m),
           NEW f, Joins(ss, n, f), NEW g, Joins(tt, m, g)
    PROVE  Agree(f, g, m)
<1> DEFINE Q == {i \in Nat : i \in 1 .. m => f[i] = g[i]}
<1>1. 0 \in Q
  OBVIOUS
<1>2. ASSUME NEW i \in Nat, i \in Q
      PROVE  i + 1 \in Q
  <2> SUFFICES ASSUME i < m
               PROVE  f[i + 1] = g[i + 1]
    OBVIOUS
  <2>1. CASE i = 0
    <3>1. f[1] = ss[1] /\ g[1] = tt[1] /\ ss[1] = tt[1]
      BY JoinsFirst DEF SameFirst
    <3> QED
      BY <2>1, <3>1
  <2>2. CASE i # 0
    <3>1. f[i + 1] = f[i] \o ss[i + 1] /\ g[i + 1] = g[i] \o tt[i + 1]
      <4>1. i \in Nat \ {0} /\ i < n /\ m \in Nat
        BY <2>2
      <4>2. f[i + 1] = f[i] \o ss[i + 1]
        BY <4>1, JoinsNext DEF Appends
      <4>3. i \in Nat \ {0} /\ i < m /\ m \in Nat
        BY <4>1
      <4>4. g[i + 1] = g[i] \o tt[i + 1]
        BY <4>3, JoinsNext DEF Appends
      <4> QED
        BY <4>2, <4>4
    <3>2. f[i] = g[i] /\ ss[i + 1] = tt[i + 1]
      BY <1>2, <2>2 DEF SameFirst
    <3> QED
      BY <3>1, <3>2
  <2> QED
    BY <2>1, <2>2
<1>3. Q = Nat
  <2> HIDE DEF Q
  <2>1. Q \subseteq Nat
    BY DEF Q
  <2> QED
    BY <1>1, <1>2, <2>1, NatInductive
<1> QED
  BY <1>3 DEF Agree

\* The value of FlattenSeq: one sequence is itself, and one more is appended.
LEMMA FlattenOne ==
    ASSUME NEW ss, Len(ss) = 1
    PROVE  FlattenSeq(ss) = ss[1]
<1>1. PICK f : f = CHOOSE g : Joins(ss, 1, g)
  OBVIOUS
<1>2. \E g : Joins(ss, 1, g)
  BY JoinsExist
<1>3. Joins(ss, 1, f)
  BY <1>1, <1>2
<1>4. FlattenSeq(ss) = f[1]
  <2>1. FlattenSeq(ss) = (CHOOSE g : Joins(ss, 1, g))[1]
    <3>1. 1 \in Nat \ {0}
      OBVIOUS
    <3> QED
      BY <3>1, FlattenChosen
  <2> QED
    BY <1>1, <2>1
<1> QED
  BY <1>3, <1>4, JoinsFirst

LEMMA FlattenNext ==
    ASSUME NEW n \in Nat \ {0}, NEW tt, Len(tt) = n, NEW ss, Len(ss) = n + 1,
           \A i \in 1 .. n : ss[i] = tt[i]
    PROVE  FlattenSeq(ss) = FlattenSeq(tt) \o ss[n + 1]
<1>1. PICK f : f = CHOOSE g : Joins(ss, n + 1, g)
  OBVIOUS
<1>2. PICK g : g = CHOOSE k : Joins(tt, n, k)
  OBVIOUS
<1>3. (\E k : Joins(ss, n + 1, k)) /\ (\E k : Joins(tt, n, k))
  <2>1. n \in Nat /\ n + 1 \in Nat
    OBVIOUS
  <2> QED
    BY <2>1, JoinsExist
<1>4. Joins(ss, n + 1, f) /\ Joins(tt, n, g)
  BY <1>1, <1>2, <1>3
<1>5. FlattenSeq(ss) = f[n + 1] /\ FlattenSeq(tt) = g[n]
  <2>1. n + 1 \in Nat \ {0}
    OBVIOUS
  <2>2. FlattenSeq(ss) = (CHOOSE k : Joins(ss, n + 1, k))[n + 1]
    BY <2>1, FlattenChosen
  <2>3. FlattenSeq(tt) = (CHOOSE k : Joins(tt, n, k))[n]
    BY FlattenChosen
  <2> QED
    BY <1>1, <1>2, <2>2, <2>3
<1>6. PICK m \in Nat : m = n + 1 /\ n < m /\ n \in 1 .. m /\ n \in 1 .. n
  OBVIOUS
<1>7. Joins(ss, m, f)
  BY <1>4, <1>6
<1>8. f[n] = g[n]
  <2>1. SameFirst(ss, tt, n)
    BY DEF SameFirst
  <2>2. Agree(f, g, n)
    BY <1>4, <1>6, <1>7, <2>1, JoinsUnique
  <2> QED
    BY <2>2 DEF Agree
<1>9. f[n + 1] = f[n] \o ss[n + 1]
  <2>1. m \in Nat /\ Joins(ss, m, f) /\ n \in Nat \ {0} /\ n < m
    BY <1>6, <1>7
  <2>2. Appends(ss, f, n)
    BY <2>1, JoinsNext
  <2> QED
    BY <2>2 DEF Appends
<1> QED
  BY <1>5, <1>8, <1>9

-----------------------------------------------------------------------------
(***************************************************************************)
(* The stream: the units of the first i replies.                           *)
(***************************************************************************)
UpTo(rs, i) == AllUnits(SubSeq(rs, 1, i))

LEMMA UpToNone ==
    ASSUME NEW R, NEW rs \in Seq(R)
    PROVE  UpTo(rs, 0) = << >>
<1>1. SubSeq(rs, 1, 0) = << >>
  OBVIOUS
<1>2. [i \in DOMAIN << >> |-> << >>[i].units] = << >>
  OBVIOUS
<1> QED
  BY <1>1, <1>2 DEF UpTo, AllUnits, FlattenSeq

\* The sequences of units of the first i replies.
LEMMA FirstUnits ==
    ASSUME NEW R, NEW rs \in Seq(R), NEW i \in 1 .. Len(rs)
    PROVE  \E us : us = [j \in 1 .. i |-> rs[j].units] /\ UpTo(rs, i) = FlattenSeq(us)
<1> DEFINE t == SubSeq(rs, 1, i)
<1>1. DOMAIN t = 1 .. i /\ \A j \in 1 .. i : t[j] = rs[j]
  OBVIOUS
<1>2. UpTo(rs, i) = FlattenSeq([j \in DOMAIN t |-> t[j].units])
  BY DEF UpTo, AllUnits
<1> HIDE DEF t
<1>3. [j \in DOMAIN t |-> t[j].units] = [j \in 1 .. i |-> rs[j].units]
  BY <1>1
<1> QED
  BY <1>2, <1>3

LEMMA UpToNext ==
    ASSUME NEW R, NEW rs \in Seq(R), NEW i \in 1 .. Len(rs)
    PROVE  /\ i = 1 => UpTo(rs, i) = rs[i].units
           /\ i > 1 => UpTo(rs, i) = UpTo(rs, i - 1) \o rs[i].units
<1>1. PICK us : us = [j \in 1 .. i |-> rs[j].units] /\ UpTo(rs, i) = FlattenSeq(us)
  BY FirstUnits
<1>2. Len(us) = i /\ us[i] = rs[i].units
  BY <1>1
<1>3. CASE i = 1
  BY <1>1, <1>2, <1>3, FlattenOne
<1>4. CASE i > 1
  <2>1. PICK n \in Nat \ {0} : n = i - 1 /\ n \in 1 .. Len(rs)
    BY <1>4
  <2>2. PICK vs : vs = [j \in 1 .. n |-> rs[j].units] /\ UpTo(rs, n) = FlattenSeq(vs)
    BY <2>1, FirstUnits
  <2>3. Len(vs) = n /\ Len(us) = n + 1 /\ \A j \in 1 .. n : us[j] = vs[j]
    BY <1>1, <1>2, <2>1, <2>2
  <2>4. FlattenSeq(us) = FlattenSeq(vs) \o us[n + 1]
    BY <2>3, FlattenNext
  <2>5. n + 1 = i
    BY <2>1
  <2>6. us[n + 1] = rs[i].units /\ UpTo(rs, n) = UpTo(rs, i - 1)
    BY <1>2, <2>1, <2>5
  <2>7. UpTo(rs, i) = UpTo(rs, n) \o us[n + 1]
    BY <1>1, <2>2, <2>4
  <2>8. UpTo(rs, i) = UpTo(rs, i - 1) \o rs[i].units
    BY <2>6, <2>7
  <2>9. i # 1
    BY <1>4
  <2> QED
    BY <2>8, <2>9
<1> QED
  BY <1>3, <1>4

Sequences(U, rs) == \A i \in 1 .. Len(rs) : rs[i].units \in Seq(U)

LEMMA UpToOneMore ==
    ASSUME NEW U, NEW R, NEW rs \in Seq(R), Sequences(U, rs), NEW i \in Nat, i < Len(rs),
           UpTo(rs, i) \in Seq(U)
    PROVE  /\ UpTo(rs, i + 1) = UpTo(rs, i) \o rs[i + 1].units
           /\ UpTo(rs, i + 1) \in Seq(U)
<1>1. i + 1 \in 1 .. Len(rs) /\ (i + 1) - 1 = i
  OBVIOUS
<1>2. rs[i + 1].units \in Seq(U)
  BY <1>1 DEF Sequences
<1>3. UpTo(rs, i + 1) = UpTo(rs, i) \o rs[i + 1].units
  <2>1. CASE i = 0
    <3>1. UpTo(rs, i) = << >>
      BY <2>1, UpToNone
    <3>2. UpTo(rs, i + 1) = rs[i + 1].units
      <4>1. i + 1 = 1
        BY <2>1
      <4> QED
        BY <1>1, <4>1, UpToNext
    <3>3. << >> \o rs[i + 1].units = rs[i + 1].units
      BY <1>2
    <3> QED
      BY <3>1, <3>2, <3>3
  <2>2. CASE i > 0
    <3>1. i + 1 > 1
      BY <2>2
    <3>2. UpTo(rs, i + 1) = UpTo(rs, (i + 1) - 1) \o rs[i + 1].units
      BY <1>1, <3>1, UpToNext
    <3> QED
      BY <1>1, <3>2
  <2> QED
    BY <2>1, <2>2
<1>4. UpTo(rs, i) \o rs[i + 1].units \in Seq(U)
  <2> DEFINE a == UpTo(rs, i)
             b == rs[i + 1].units
  <2>1. a \in Seq(U) /\ b \in Seq(U)
    BY <1>2
  <2> HIDE DEF a, b
  <2>2. a \o b \in Seq(U)
    BY <2>1
  <2> QED
    BY <2>2 DEF a, b
<1> QED
  BY <1>3, <1>4

LEMMA UpToType ==
    ASSUME NEW U, NEW R, NEW rs \in Seq(R), Sequences(U, rs), NEW i \in 0 .. Len(rs)
    PROVE  UpTo(rs, i) \in Seq(U)
<1> DEFINE Q == {k \in Nat : k <= Len(rs) => UpTo(rs, k) \in Seq(U)}
<1>1. 0 \in Q
  <2>1. UpTo(rs, 0) = << >>
    BY UpToNone
  <2>2. << >> \in Seq(U)
    OBVIOUS
  <2> QED
    BY <2>1, <2>2
<1>2. ASSUME NEW k \in Nat, k \in Q
      PROVE  k + 1 \in Q
  BY <1>2, UpToOneMore
<1>3. Q = Nat
  <2> HIDE DEF Q
  <2>1. Q \subseteq Nat
    BY DEF Q
  <2> QED
    BY <1>1, <1>2, <2>1, NatInductive
<1> QED
  BY <1>3

\* What is sent first stays where it is.
Starts(a, b) == Len(a) <= Len(b) /\ \A k \in 1 .. Len(a) : b[k] = a[k]

LEMMA StartsMore ==
    ASSUME NEW U, NEW a \in Seq(U), NEW b \in Seq(U), NEW c \in Seq(U), Starts(a, b)
    PROVE  Starts(a, b \o c)
<1>1. Len(b \o c) = Len(b) + Len(c) /\ \A k \in 1 .. Len(b) : (b \o c)[k] = b[k]
  OBVIOUS
<1> QED
  BY <1>1 DEF Starts

LEMMA UpToPrefix ==
    ASSUME NEW U, NEW R, NEW rs \in Seq(R), Sequences(U, rs),
           NEW i \in 0 .. Len(rs)
    PROVE  Starts(UpTo(rs, i), UpTo(rs, Len(rs)))
<1> DEFINE Q == {k \in Nat : i <= k /\ k <= Len(rs) => Starts(UpTo(rs, i), UpTo(rs, k))}
<1>0. UpTo(rs, i) \in Seq(U)
  BY UpToType
<1>1. 0 \in Q
  BY <1>0 DEF Starts
<1>2. ASSUME NEW k \in Nat, k \in Q
      PROVE  k + 1 \in Q
  <2> SUFFICES ASSUME i <= k + 1, k + 1 <= Len(rs)
               PROVE  Starts(UpTo(rs, i), UpTo(rs, k + 1))
    OBVIOUS
  <2>1. CASE i = k + 1
    BY <1>0, <2>1 DEF Starts
  <2>2. CASE i <= k
    <3>1. UpTo(rs, k) \in Seq(U) /\ k < Len(rs)
      BY UpToType
    <3>2. k + 1 \in 1 .. Len(rs)
      OBVIOUS
    <3>3. rs[k + 1].units \in Seq(U)
      BY <3>2 DEF Sequences
    <3>4. Starts(UpTo(rs, i), UpTo(rs, k))
      BY <1>2, <2>2
    <3>5. UpTo(rs, k + 1) = UpTo(rs, k) \o rs[k + 1].units
      BY <3>1, UpToOneMore
    <3> QED
      BY <1>0, <3>1, <3>3, <3>4, <3>5, StartsMore
  <2> QED
    BY <2>1, <2>2
<1>3. Q = Nat
  <2> HIDE DEF Q
  <2>1. Q \subseteq Nat
    BY DEF Q
  <2> QED
    BY <1>1, <1>2, <2>1, NatInductive
<1> QED
  BY <1>3

LEMMA UpToAll ==
    ASSUME NEW R, NEW rs \in Seq(R)
    PROVE  UpTo(rs, Len(rs)) = AllUnits(rs)
<1>1. SubSeq(rs, 1, Len(rs)) = rs
  OBVIOUS
<1> QED
  BY <1>1 DEF UpTo

\* Where reply i + 1 is in the stream.
LEMMA ReplyInStream ==
    ASSUME NEW U, NEW R, NEW rs \in Seq(R), Sequences(U, rs), NEW i \in Nat, i < Len(rs)
    PROVE  /\ UpTo(rs, i) \in Seq(U) /\ UpTo(rs, i + 1) \in Seq(U) /\ AllUnits(rs) \in Seq(U)
           /\ Len(UpTo(rs, i + 1)) = Len(UpTo(rs, i)) + Len(rs[i + 1].units)
           /\ Len(UpTo(rs, i + 1)) <= Len(AllUnits(rs))
           /\ i + 1 = Len(rs) => Len(UpTo(rs, i + 1)) = Len(AllUnits(rs))
           /\ \A k \in 1 .. Len(rs[i + 1].units) :
                 AllUnits(rs)[Len(UpTo(rs, i)) + k] = rs[i + 1].units[k]
<1>1. i \in 0 .. Len(rs) /\ i + 1 \in 0 .. Len(rs) /\ i + 1 \in 1 .. Len(rs) /\ Len(rs) \in 0 .. Len(rs)
  OBVIOUS
<1>2. UpTo(rs, i) \in Seq(U) /\ UpTo(rs, i + 1) \in Seq(U) /\ UpTo(rs, Len(rs)) \in Seq(U)
  BY <1>1, UpToType
<1>3. UpTo(rs, Len(rs)) = AllUnits(rs)
  BY UpToAll
<1>4. rs[i + 1].units \in Seq(U)
  BY <1>1 DEF Sequences
<1>5. UpTo(rs, i + 1) = UpTo(rs, i) \o rs[i + 1].units
  BY <1>2, UpToOneMore
<1>6. Starts(UpTo(rs, i + 1), AllUnits(rs))
  BY <1>1, <1>3, UpToPrefix
<1> DEFINE a == UpTo(rs, i)
           b == rs[i + 1].units
<1>7. Len(a \o b) = Len(a) + Len(b) /\ \A k \in 1 .. Len(b) : (a \o b)[Len(a) + k] = b[k]
  <2> HIDE DEF a, b
  <2> QED
    BY <1>2, <1>4 DEF a, b
<1>8. ASSUME NEW k \in 1 .. Len(b)
      PROVE  AllUnits(rs)[Len(a) + k] = b[k]
  <2>1. Len(a) + k \in 1 .. Len(a \o b)
    <3> HIDE DEF a, b
    <3> QED
      BY <1>2, <1>4, <1>7 DEF a, b
  <2>2. AllUnits(rs)[Len(a) + k] = (a \o b)[Len(a) + k]
    BY <1>5, <1>6, <2>1 DEF Starts
  <2> QED
    BY <1>7, <2>2
<1>9. Len(UpTo(rs, i + 1)) <= Len(AllUnits(rs))
  BY <1>6 DEF Starts
<1> QED
  BY <1>2, <1>3, <1>5, <1>7, <1>8, <1>9

-----------------------------------------------------------------------------
(***************************************************************************)
(* get_line.                                                               *)
(***************************************************************************)
\* The first unit of a buffer that ends a line.
LEMMA FirstEnded ==
    ASSUME NEW b \in Seq(Unit), NEW eol, eol = SelectInSeq(b, Ended)
    PROVE  /\ eol \in 0 .. Len(b)
           /\ eol # 0 => Ended(b[eol]) /\ \A j \in 1 .. eol - 1 : ~ Ended(b[j])
           /\ eol = 0 => \A j \in 1 .. Len(b) : ~ Ended(b[j])
<1> DEFINE I == {i \in 1 .. Len(b) : Ended(b[i])}
<1>1. eol = IF I # {} THEN Min(I) ELSE 0
  BY DEF SelectInSeq
<1>2. CASE I = {}
  BY <1>1, <1>2
<1>3. CASE I # {}
  <2>1. I \in SUBSET Nat
    OBVIOUS
  <2> HIDE DEF I
  <2>2. eol \in I /\ \A y \in I : eol <= y
    BY <1>1, <1>3, <2>1, LeastElement
  <2>3. eol \in 1 .. Len(b) /\ Ended(b[eol])
    BY <2>2 DEF I
  <2>4. ASSUME NEW j \in 1 .. eol - 1 PROVE ~ Ended(b[j])
    <3> SUFFICES ASSUME Ended(b[j]) PROVE FALSE
      OBVIOUS
    <3>1. Len(b) \in Nat /\ eol \in Nat /\ j \in 1 .. Len(b) /\ j < eol
      BY <2>3
    <3>2. j \in I
      BY <3>1 DEF I, Ended
    <3>3. eol <= j
      BY <2>2, <3>2
    <3> QED
      BY <3>1, <3>3
  <2>5. eol # 0 /\ eol \in 0 .. Len(b)
    BY <2>3
  <2> QED
    BY <2>3, <2>4, <2>5
<1> QED
  BY <1>2, <1>3

\* What get_line takes of a buffer: t units, n of which the line has room for.
Takes(l, line, b, t, n) ==
    /\ l.rest = SubSeq(b, t + 1, Len(b))
    /\ \A j \in 1 .. t - 1 : ~ Ended(b[j])
    /\ t < Len(b) => Ended(b[t])
    /\ l.line = line \o SubSeq(b, 1, n)
    /\ n < t => Len(line) + n = MaxLine - 1
    /\ l.complete <=> Ended(b[n]) \/ Len(line) + n = MaxLine - 1
    /\ Len(line) + n <= MaxLine - 1

LEMMA LineTaken ==
    ASSUME NEW b \in Seq(Unit), b # << >>, NEW p, p.line \in Seq(Unit),
           Len(p.line) < MaxLine - 1
    PROVE  \E t \in 1 .. Len(b) : \E n \in 1 .. t : Takes(get_line(p, b), p.line, b, t, n)
<1>1. MaxLine \in Nat
  BY HttpAssumption
<1> DEFINE line == p.line
<1>2. line \in Seq(Unit) /\ Len(line) \in Nat /\ Len(line) < MaxLine - 1
  OBVIOUS
<1>3. PICK eol : eol = SelectInSeq(b, Ended)
  OBVIOUS
<1>4. PICK t : t = IF eol = 0 THEN Len(b) ELSE eol
  OBVIOUS
<1>5. PICK n : n = IF t <= MaxLine - 1 - Len(line) THEN t ELSE MaxLine - 1 - Len(line)
  OBVIOUS
<1>6. Len(b) \in Nat \ {0}
  OBVIOUS
<1>7. t \in 1 .. Len(b) /\ (\A j \in 1 .. t - 1 : ~ Ended(b[j])) /\ (t < Len(b) => Ended(b[t]))
  <2>1. /\ eol \in 0 .. Len(b)
        /\ eol # 0 => Ended(b[eol]) /\ \A j \in 1 .. eol - 1 : ~ Ended(b[j])
        /\ eol = 0 => \A j \in 1 .. Len(b) : ~ Ended(b[j])
    BY <1>3, FirstEnded
  <2>2. CASE eol = 0
    BY <1>4, <1>6, <2>1, <2>2
  <2>3. CASE eol # 0
    BY <1>4, <1>6, <2>1, <2>3
  <2> QED
    BY <2>2, <2>3
<1>8. n \in 1 .. t /\ (n < t => Len(line) + n = MaxLine - 1) /\ Len(line) + n <= MaxLine - 1
  <2> HIDE DEF line
  <2>1. CASE t <= MaxLine - 1 - Len(line)
    BY <1>1, <1>2, <1>5, <1>6, <1>7, <2>1
  <2>2. CASE ~ (t <= MaxLine - 1 - Len(line))
    BY <1>1, <1>2, <1>5, <1>6, <1>7, <2>2
  <2> QED
    BY <2>1, <2>2
<1> DEFINE c == SubSeq(b, 1, n)
           d == line \o c
<1>9. c \in Seq(Unit) /\ Len(c) = n /\ c[n] = b[n]
  BY <1>6, <1>7, <1>8
<1>10. Len(d) = Len(line) + n /\ d[Len(d)] = b[n]
  <2> HIDE DEF c, line
  <2> QED
    BY <1>2, <1>8, <1>9
<1>11. /\ get_line(p, b).rest = SubSeq(b, t + 1, Len(b))
       /\ get_line(p, b).line = d
       /\ get_line(p, b).complete = (Ended(Last(d)) \/ Len(d) = MaxLine - 1)
  BY <1>3, <1>4, <1>5 DEF get_line
<1>12. Last(d) = b[n]
  <2> HIDE DEF d
  <2> QED
    BY <1>10 DEF Last
<1> HIDE DEF d
<1>13. Takes(get_line(p, b), line, b, t, n)
  BY <1>7, <1>8, <1>10, <1>11, <1>12 DEF Takes, d
<1> QED
  BY <1>7, <1>8, <1>13

\* The buffer holds the units of u after the first k, as far as u goes.
Follows(b, u, k) == \A j \in 1 .. Len(b) : k + j <= Len(u) => b[j] = u[k + j]

\* The concatenation of two sequences, and when two sequences are equal.
LEMMA Concatenation ==
    ASSUME NEW U, NEW x \in Seq(U), NEW y \in Seq(U)
    PROVE  /\ x \o y \in Seq(U) /\ Len(x \o y) = Len(x) + Len(y)
           /\ \A j \in 1 .. Len(x) : (x \o y)[j] = x[j]
           /\ \A j \in 1 .. Len(y) : (x \o y)[Len(x) + j] = y[j]
OBVIOUS

LEMMA SameSequence ==
    ASSUME NEW U, NEW x \in Seq(U), NEW y \in Seq(U), Len(x) = Len(y),
           \A j \in 1 .. Len(x) : x[j] = y[j]
    PROVE  x = y
OBVIOUS

\* What has been taken of a line, and what is taken of the buffer, side by side.
Joined(u, q, k, b, n) ==
    SubSeq(u, q + 1, k) \o SubSeq(b, 1, n) = SubSeq(u, q + 1, k + n)

LEMMA Together ==
    ASSUME NEW u \in Seq(Unit), NEW q \in Nat, NEW k \in Nat, q <= k,
           NEW b \in Seq(Unit), Follows(b, u, k), NEW n \in 1 .. Len(b), k + n <= Len(u)
    PROVE  Joined(u, q, k, b, n)
<1> DEFINE x == SubSeq(u, q + 1, k)
           y == SubSeq(b, 1, n)
           v == SubSeq(u, q + 1, k + n)
<1>0. n \in Nat /\ Len(u) \in Nat
  OBVIOUS
<1>1. PICK m \in Nat : k = q + m
  <2>1. k - q \in Nat /\ k = q + (k - q)
    OBVIOUS
  <2> QED
    BY <2>1
<1>2. x \in Seq(Unit) /\ Len(x) = m /\ \A j \in 1 .. m : x[j] = u[q + j]
  BY <1>0, <1>1
<1>3. y \in Seq(Unit) /\ Len(y) = n /\ \A j \in 1 .. n : y[j] = u[k + j]
  <2>1. y \in Seq(Unit) /\ Len(y) = n /\ \A j \in 1 .. n : y[j] = b[j]
    OBVIOUS
  <2>2. \A j \in 1 .. n : b[j] = u[k + j]
    BY <1>0 DEF Follows
  <2> QED
    BY <2>1, <2>2
<1>4. v \in Seq(Unit) /\ Len(v) = m + n /\ \A j \in 1 .. m + n : v[j] = u[q + j]
  <2>1. PICK e \in Nat : e = k + n /\ e = q + (m + n) /\ q <= e /\ e <= Len(u)
    BY <1>0, <1>1
  <2>2. SubSeq(u, q + 1, e) \in Seq(Unit) /\ Len(SubSeq(u, q + 1, e)) = m + n
    BY <1>0, <2>1
  <2>3. \A j \in 1 .. m + n : SubSeq(u, q + 1, e)[j] = u[q + j]
    BY <1>0, <2>1
  <2> QED
    BY <2>1, <2>2, <2>3
<1> HIDE DEF x, y, v
<1> DEFINE w == x \o y
<1>5. /\ w \in Seq(Unit) /\ Len(w) = m + n
      /\ \A j \in 1 .. m : w[j] = x[j]
      /\ \A j \in 1 .. n : w[m + j] = y[j]
  <2>1. /\ x \o y \in Seq(Unit) /\ Len(x \o y) = Len(x) + Len(y)
        /\ \A j \in 1 .. Len(x) : (x \o y)[j] = x[j]
        /\ \A j \in 1 .. Len(y) : (x \o y)[Len(x) + j] = y[j]
    <3>1. x \in Seq(Unit) /\ y \in Seq(Unit)
      BY <1>2, <1>3
    <3> QED
      BY <3>1, Concatenation
  <2>2. Len(x) = m /\ Len(y) = n
    BY <1>2, <1>3
  <2> QED
    BY <2>1, <2>2
<1> HIDE DEF w
<1>6. ASSUME NEW j \in 1 .. m + n
      PROVE  w[j] = v[j]
  <2>1. CASE j \in 1 .. m
    BY <1>2, <1>4, <1>5, <2>1
  <2>2. CASE j \notin 1 .. m
    <3>1. PICK i \in 1 .. n : j = m + i
      <4>1. j - m \in 1 .. n /\ j = m + (j - m)
        BY <1>0, <2>2
      <4> QED
        BY <4>1
    <3>2. w[j] = y[i]
      BY <1>5, <3>1
    <3>3. v[j] = u[q + j] /\ q + j = k + i
      BY <1>0, <1>1, <1>4, <3>1
    <3> QED
      BY <1>3, <3>2, <3>3
  <2> QED
    BY <2>1, <2>2
<1>7. w = v
  BY <1>4, <1>5, <1>6, SameSequence
<1> QED
  BY <1>7 DEF x, y, v, w, Joined

KnownTurn(u, q, k, c, v, b, l) ==
    \E t \in 1 .. Len(b) :
        /\ l.rest = SubSeq(b, t + 1, Len(b))
        /\ \/ k + t = q + 1 /\ ~ l.complete /\ l.line = SubSeq(u, q + 1, k + t)
           \/ k + t = q + 2 /\ l.complete /\ Meaning(l.line) = << c, v >>

\* Unit q + 1 opens a known line of which the units up to k have been taken,
\* one or none: the buffer holds its first unit only, or completes it.
LEMMA KnownLine ==
    ASSUME NEW u \in Seq(Unit), NEW c, NEW v, NEW q \in Nat, q + 2 <= Len(u),
           Line(u, q + 1, c, v), NEW k \in {q, q + 1},
           NEW b \in Seq(Unit), b # << >>, Follows(b, u, k),
           NEW p, p.line = SubSeq(u, q + 1, k)
    PROVE  KnownTurn(u, q, k, c, v, b, get_line(p, b))
<1> DEFINE l == get_line(p, b)
<1>0. MaxLine \in Nat /\ MaxLine - 1 >= 2 /\ Len(u) \in Nat /\ k \in Nat
  BY HttpAssumption, RepliesAssumption
<1>1. u[q + 1] = << c, v, 1 >> /\ u[q + 2] = << c, v, 2 >>
  <2>1. (q + 1) + 1 = q + 2
    OBVIOUS
  <2> QED
    BY <2>1 DEF Line
<1>2. Ended(u[q + 2]) /\ ~ Ended(u[q + 1])
  BY <1>1 DEF Ended
<1>3. p.line \in Seq(Unit) /\ Len(p.line) = k - q
  BY <1>0
<1>4a. PICK t \in 1 .. Len(b) : \E m \in 1 .. t : Takes(l, p.line, b, t, m)
  <2>1. Len(p.line) < MaxLine - 1
    BY <1>0, <1>3
  <2> HIDE DEF l
  <2> QED
    BY <1>3, <2>1, LineTaken DEF l
<1>4. PICK n \in 1 .. t : Takes(l, p.line, b, t, n)
  BY <1>4a
<1> HIDE DEF l
<1>5. t \in Nat /\ n \in Nat /\ t >= 1 /\ n >= 1 /\ n <= t /\ t <= Len(b) /\ Len(b) \in Nat
  BY <1>4
<1>6. k + t <= q + 2
  <2> SUFFICES ASSUME k + t > q + 2 PROVE FALSE
    BY <1>0, <1>5
  <2>1. PICK j \in 1 .. t - 1 : k + j = q + 2
    <3>1. (q + 2) - k \in 1 .. t - 1 /\ k + ((q + 2) - k) = q + 2
      BY <1>0, <1>5
    <3> QED
      BY <3>1
  <2>2. j \in 1 .. Len(b) /\ k + j <= Len(u)
    BY <1>5, <2>1
  <2>3. b[j] = u[q + 2]
    BY <2>1, <2>2 DEF Follows
  <2> QED
    BY <1>2, <1>4, <2>1, <2>3 DEF Takes
<1>7. n = t
  <2> SUFFICES ASSUME n < t PROVE FALSE
    BY <1>5
  <2>1. (k - q) + n = MaxLine - 1
    BY <1>3, <1>4 DEF Takes
  <2> QED
    BY <1>0, <1>5, <1>6, <2>1
<1>8. l.rest = SubSeq(b, t + 1, Len(b)) /\ l.line = p.line \o SubSeq(b, 1, t)
      /\ (l.complete <=> Ended(b[t]) \/ (k - q) + t = MaxLine - 1)
  BY <1>3, <1>4, <1>7 DEF Takes
<1>9. b[t] = u[k + t]
  <2>1. t \in 1 .. Len(b) /\ k + t <= Len(u)
    BY <1>0, <1>5, <1>6
  <2> QED
    BY <2>1 DEF Follows
<1>10. l.line = SubSeq(u, q + 1, k + t)
  <2>1. q <= k /\ k + t <= Len(u)
    BY <1>0, <1>6
  <2>2. SubSeq(u, q + 1, k) \o SubSeq(b, 1, t) = SubSeq(u, q + 1, k + t)
    <3>1. k \in Nat /\ t \in 1 .. Len(b)
      BY <1>0
    <3>2. Joined(u, q, k, b, t)
      BY <2>1, <3>1, Together
    <3> QED
      BY <3>2 DEF Joined
  <2> QED
    BY <1>8, <2>2
<1>11. CASE k + t = q + 1
  <2>1. ~ Ended(b[t])
    BY <1>2, <1>9, <1>11
  <2>2. (k - q) + t # MaxLine - 1
    BY <1>0, <1>5, <1>11
  <2> QED
    BY <1>4, <1>8, <1>10, <1>11, <2>1, <2>2 DEF l, KnownTurn
<1>12. CASE k + t = q + 2
  <2>1. Ended(b[t])
    BY <1>2, <1>9, <1>12
  <2>2. Len(l.line) = 2 /\ l.line[1] = u[q + 1] /\ l.line[2] = u[q + 2]
    <3>1. q + 2 <= Len(u) /\ q + 1 \in Nat /\ q + 2 \in Nat
      BY <1>0
    <3>2. l.line = SubSeq(u, q + 1, q + 2)
      BY <1>10, <1>12
    <3> QED
      BY <3>1, <3>2
  <2>3. Meaning(l.line) = << c, v >>
    BY <1>1, <2>2 DEF Meaning
  <2> QED
    BY <1>4, <1>8, <1>12, <2>1, <2>3 DEF l, KnownTurn
<1>13. k + t = q + 1 \/ k + t = q + 2
  BY <1>0, <1>5, <1>6
<1> QED
  BY <1>11, <1>12, <1>13

NoneEnded(u, x, y) == \A j \in x .. y : ~ Ended(u[j])
AllOther(u, x, y) == \A j \in x .. y : u[j][1] = "other"

\* A line begins with unit q + 1.
Opens(u, q) ==
    \/ u[q + 1][1] = "other" /\ ~ Ended(u[q + 1])
    \/ Line(u, q + 1, u[q + 1][1], u[q + 1][2])

\* The line being taken is made of the units q + 1 .. k of the lines that
\* begin at a.
LineAt(u, a, k, line) ==
    \E q \in a - 1 .. k :
        /\ line = SubSeq(u, q + 1, k) /\ k - q < MaxLine - 1
        /\ NoneEnded(u, q + 1, k)
        /\ Opens(u, q)

\* Between other lines and an end that is not reached there are other lines.
LEMMA OthersGoOn ==
    ASSUME NEW u \in Seq(Unit), NEW a \in Nat \ {0}, NEW b \in Nat, b <= Len(u), Fields(u, a, b),
           NEW q \in Nat, a - 1 <= q, NEW k \in Nat, q < k, k <= b,
           u[q + 1][1] = "other", NoneEnded(u, q + 1, k - 1)
    PROVE  AllOther(u, q + 1, k)
<1>1. ASSUME NEW j \in Nat, q + 1 < j, j <= k, u[j][1] # "other", ~ Ended(u[j]) PROVE FALSE
  <2>1. j \in a .. b /\ j > a /\ j - 1 \in q + 1 .. k - 1
    BY <1>1
  <2>2. ~ Ended(u[j - 1])
    BY <2>1 DEF NoneEnded
  <2>3. ~ Line(u, j - 1, u[j][1], u[j][2])
    <3>1. (j - 1) + 1 = j
      BY <1>1
    <3> QED
      BY <1>1, <3>1 DEF Line, Ended
  <2> QED
    BY <1>1, <2>1, <2>2, <2>3 DEF Fields
<1>2. ASSUME NEW j \in Nat, q + 1 < j, j <= k, u[j][1] # "other" PROVE FALSE
  <2>1. j \in a .. b /\ j > a /\ j - 1 \in q + 1 .. k - 1
    BY <1>2
  <2>2. ~ Ended(u[j - 1])
    BY <2>1 DEF NoneEnded
  <2>3. Line(u, j - 1, u[j][1], u[j][2])
    BY <1>2, <2>1, <2>2 DEF Fields
  <2>4. u[j - 1] = << u[j][1], u[j][2], 1 >>
    BY <2>3 DEF Line
  <2>5. u[j - 1][1] # "other"
    BY <1>2, <2>4
  <2>6. CASE j - 1 = q + 1
    BY <2>5, <2>6
  <2>7. CASE j - 1 # q + 1
    <3>1. j - 1 \in Nat /\ q + 1 < j - 1 /\ j - 1 <= k
      BY <2>1, <2>7
    <3> QED
      BY <1>1, <2>2, <2>5, <3>1
  <2> QED
    BY <2>6, <2>7
<1> QED
  <2> SUFFICES ASSUME NEW j \in q + 1 .. k PROVE u[j][1] = "other"
    BY DEF AllOther
  <2> QED
    BY <1>2

\* What get_line makes of t units after the first k: an unfinished line, an
\* other line or a known one, and never a piece of one that line_buf cannot hold.
Unfinished(u, a, b, k, t, l) ==
    /\ ~ l.complete /\ k + t < b /\ LineAt(u, a, k + t, l.line)
    /\ NoneEnded(u, k + 1, k + t)

Other(u, b, k, t, l) ==
    /\ l.complete /\ k + t < b /\ Opens(u, k + t)
    /\ AllOther(u, k + 1, k + t)
    /\ Meaning(l.line)[1] \in {"other", "junk"}

Known(u, b, k, t, l) ==
    /\ l.complete /\ u[k + t][1] # "other" /\ Ended(u[k + t])
    /\ Meaning(l.line) = << u[k + t][1], u[k + t][2] >>
    /\ NoneEnded(u, k + 1, k + t - 1)
    /\ k + t < b => Opens(u, k + t)

LEMMA NextOpens ==
    ASSUME NEW u \in Seq(Unit), NEW a \in Nat \ {0}, NEW b \in Nat, b <= Len(u), Fields(u, a, b),
           NEW k \in Nat, a <= k, k < b, Ended(u[k])
    PROVE  Opens(u, k)
<1> DEFINE j == k + 1
<1>1. j \in a .. b /\ j - 1 = k
  OBVIOUS
<1>2. \/ u[j][1] = "other" /\ ~ Ended(u[j])
      \/ Line(u, j, u[j][1], u[j][2])
      \/ Line(u, k, u[j][1], u[j][2])
  BY <1>1 DEF Fields
<1>3. ~ Line(u, k, u[j][1], u[j][2])
  <2> SUFFICES ASSUME Line(u, k, u[j][1], u[j][2]) PROVE FALSE
    OBVIOUS
  <2>1. u[k] = << u[j][1], u[j][2], 1 >>
    BY DEF Line
  <2> QED
    BY <2>1 DEF Ended
<1> QED
  BY <1>2, <1>3 DEF Opens

LEMMA LastOfFields ==
    ASSUME NEW u \in Seq(Unit), NEW a \in Nat \ {0}, NEW b \in Nat, b <= Len(u), Fields(u, a, b)
    PROVE  /\ b > a /\ u[b - 1] = << "blank", 0, 1 >> /\ u[b] = << "blank", 0, 2 >>
           /\ Ended(u[b]) /\ ~ Ended(u[b - 1])
           /\ \A k \in a .. b - 2 : u[k][1] \in {"length", "chunked", "other"}
<1>1. (b - 1) + 1 = b
  OBVIOUS
<1> QED
  BY <1>1 DEF Fields, Line, Ended

\* Units that are all other make no line the parser knows, an end without text
\* excepted.
LEMMA OthersMean ==
    ASSUME NEW line \in Seq(Unit), Len(line) # 1, \A j \in 1 .. Len(line) : line[j][1] = "other"
    PROVE  Meaning(line)[1] \in {"other", "junk"}
<1>1. CASE Len(line) = 2 /\ line[1] = << line[2][1], line[2][2], 1 >>
  <2>1. Meaning(line) = << line[2][1], line[2][2] >> /\ line[2][1] = "other"
    BY <1>1 DEF Meaning
  <2> QED
    BY <2>1
<1>2. CASE ~ (Len(line) = 2 /\ line[1] = << line[2][1], line[2][2], 1 >>)
  <2>1. Meaning(line) = << "junk", 0 >>
    BY <1>2 DEF Meaning
  <2> QED
    BY <2>1
<1> QED
  BY <1>1, <1>2

\* A turn of get_line on header or footer lines.
LEMMA FieldLine ==
    ASSUME NEW u \in Seq(Unit), NEW a \in Nat \ {0}, NEW e \in Nat, e <= Len(u), Fields(u, a, e),
           NEW k \in Nat, a - 1 <= k, k < e,
           NEW p, LineAt(u, a, k, p.line),
           NEW b \in Seq(Unit), b # << >>, Follows(b, u, k)
    PROVE  \E t \in 1 .. Len(b) :
              /\ k + t <= e
              /\ get_line(p, b).rest = SubSeq(b, t + 1, Len(b))
              /\ \/ Unfinished(u, a, e, k, t, get_line(p, b))
                 \/ Other(u, e, k, t, get_line(p, b))
                 \/ Known(u, e, k, t, get_line(p, b))
<1> DEFINE l == get_line(p, b)
<1>0. MaxLine \in Nat /\ MaxLine - 1 >= 2 /\ Len(u) \in Nat /\ Len(b) \in Nat \ {0}
  BY HttpAssumption, RepliesAssumption
<1>1. PICK q \in a - 1 .. k :
        /\ p.line = SubSeq(u, q + 1, k) /\ k - q < MaxLine - 1
        /\ NoneEnded(u, q + 1, k)
        /\ Opens(u, q)
  BY DEF LineAt
<1>2. /\ e > a /\ u[e - 1] = << "blank", 0, 1 >> /\ u[e] = << "blank", 0, 2 >>
      /\ Ended(u[e]) /\ ~ Ended(u[e - 1])
      /\ \A j \in a .. e - 2 : u[j][1] \in {"length", "chunked", "other"}
  BY LastOfFields
<1>3. q \in Nat /\ a - 1 <= q /\ q <= k
  BY <1>1
<1>4. CASE u[q + 1][1] # "other"
  <2> DEFINE c == u[q + 1][1]
             v == u[q + 1][2]
  <2>1. Line(u, q + 1, c, v)
    BY <1>1, <1>4 DEF Opens
  <2>2. u[q + 1] = << c, v, 1 >> /\ u[q + 2] = << c, v, 2 >>
    <3>1. (q + 1) + 1 = q + 2
      BY <1>3
    <3> HIDE DEF c, v
    <3> QED
      BY <2>1, <3>1 DEF Line
  <2>3. Ended(u[q + 2]) /\ ~ Ended(u[q + 1]) /\ u[q + 2][1] = c /\ u[q + 2][2] = v
    BY <2>2 DEF Ended
  <2>4. q + 2 <= e
    <3> SUFFICES ASSUME q + 2 > e PROVE FALSE
      BY <1>3
    <3>1. q + 1 = e
      BY <1>3
    <3> QED
      BY <1>2, <2>3, <3>1
  <2>5. k \in {q, q + 1}
    <3> SUFFICES ASSUME k >= q + 2 PROVE FALSE
      BY <1>3
    <3>1. q + 2 \in q + 1 .. k
      BY <1>3
    <3> QED
      BY <1>1, <2>3, <3>1 DEF NoneEnded
  <2>6. PICK t \in 1 .. Len(b) :
              /\ l.rest = SubSeq(b, t + 1, Len(b))
              /\ \/ k + t = q + 1 /\ ~ l.complete /\ l.line = SubSeq(u, q + 1, k + t)
                 \/ k + t = q + 2 /\ l.complete /\ Meaning(l.line) = << c, v >>
    <3> HIDE DEF c, v
    <3>1. q \in Nat /\ q + 2 <= Len(u) /\ Line(u, q + 1, c, v) /\ k \in {q, q + 1}
      BY <1>0, <1>3, <2>1, <2>4, <2>5
    <3>2. p.line = SubSeq(u, q + 1, k)
      BY <1>1
    <3>3. KnownTurn(u, q, k, c, v, b, get_line(p, b))
      BY <3>1, <3>2, KnownLine
    <3> HIDE DEF l
    <3> QED
      BY <3>3 DEF KnownTurn, l
  <2> HIDE DEF l, c, v
  <2>7. t \in Nat /\ t >= 1
    BY <1>0
  <2>8. CASE k + t = q + 1 /\ ~ l.complete /\ l.line = SubSeq(u, q + 1, k + t)
    <3>1. k = q /\ t = 1 /\ k + t = q + 1
      BY <1>3, <2>7, <2>8
    <3>2. k + t < e
      BY <1>3, <2>4, <3>1
    <3>3. q \in a - 1 .. k + t /\ (k + t) - q < MaxLine - 1
      BY <1>0, <1>3, <3>1
    <3>4. NoneEnded(u, q + 1, k + t)
      BY <1>3, <2>3, <3>1 DEF NoneEnded
    <3>5. LineAt(u, a, k + t, l.line)
      BY <1>1, <2>8, <3>3, <3>4 DEF LineAt
    <3>6. Unfinished(u, a, e, k, t, l)
      BY <2>8, <3>1, <3>2, <3>4, <3>5 DEF Unfinished
    <3> QED
      BY <2>6, <3>2, <3>6 DEF l
  <2>9. CASE k + t = q + 2 /\ l.complete /\ Meaning(l.line) = << c, v >>
    <3>1. k + t = q + 2 /\ k + t <= e /\ k + t \in Nat /\ a <= k + t
      BY <1>3, <2>4, <2>7, <2>9
    <3>2. u[k + t][1] = c /\ u[k + t][2] = v /\ Ended(u[k + t]) /\ c # "other"
      BY <1>4, <2>3, <3>1 DEF c
    <3>3. k + t < e => Opens(u, k + t)
      BY <3>1, <3>2, NextOpens
    <3>4. NoneEnded(u, k + 1, k + t - 1)
      <4> SUFFICES ASSUME NEW j \in k + 1 .. k + t - 1 PROVE ~ Ended(u[j])
        BY DEF NoneEnded
      <4>1. j = q + 1
        BY <1>3, <2>5, <2>7, <3>1
      <4> QED
        BY <2>3, <4>1
    <3>5. Known(u, e, k, t, l)
      BY <2>9, <3>2, <3>3, <3>4 DEF Known
    <3> QED
      BY <2>6, <3>1, <3>5 DEF l
  <2> QED
    BY <2>6, <2>8, <2>9
<1>5. CASE u[q + 1][1] = "other"
  <2>1. p.line \in Seq(Unit) /\ Len(p.line) = k - q
    BY <1>0, <1>1, <1>3
  <2>2. PICK t \in 1 .. Len(b) : \E m \in 1 .. t : Takes(l, p.line, b, t, m)
    <3>1. Len(p.line) < MaxLine - 1
      BY <1>1, <2>1
    <3> HIDE DEF l
    <3> QED
      BY <2>1, <3>1, LineTaken DEF l
  <2>3. PICK n \in 1 .. t : Takes(l, p.line, b, t, n)
    BY <2>2
  <2> HIDE DEF l
  <2>4. t \in Nat /\ n \in Nat /\ t >= 1 /\ n >= 1 /\ n <= t /\ t <= Len(b)
    BY <1>0
  <2>5. ASSUME NEW j \in 1 .. t, k + j <= e PROVE b[j] = u[k + j]
    <3>1. j \in 1 .. Len(b) /\ k + j <= Len(u)
      BY <1>0, <2>4, <2>5
    <3> QED
      BY <3>1 DEF Follows
  <2>6. k + t <= e
    <3> SUFFICES ASSUME k + t > e PROVE FALSE
      BY <2>4
    <3>1. PICK j \in 1 .. t - 1 : k + j = e
      <4>1. e - k \in 1 .. t - 1 /\ k + (e - k) = e
        BY <2>4
      <4> QED
        BY <4>1
    <3>2. b[j] = u[e]
      BY <2>4, <2>5, <3>1
    <3> QED
      BY <1>2, <2>3, <3>1, <3>2 DEF Takes
  <2>7. ASSUME NEW j \in q + 1 .. k + t - 1 PROVE ~ Ended(u[j])
    <3>1. CASE j <= k
      BY <1>1, <3>1 DEF NoneEnded
    <3>2. CASE j > k
      <4>1. PICK i \in 1 .. t - 1 : j = k + i
        <5>1. j - k \in 1 .. t - 1 /\ j = k + (j - k)
          BY <1>3, <2>4, <3>2
        <5> QED
          BY <5>1
      <4>2. i \in 1 .. t /\ k + i <= e
        BY <2>4, <2>6, <4>1
      <4>3. b[i] = u[j]
        BY <2>5, <4>1, <4>2
      <4> QED
        BY <2>3, <4>1, <4>3 DEF Takes
    <3> QED
      BY <1>3, <2>4, <3>1, <3>2
  <2>8. AllOther(u, q + 1, k + t)
    <3>1. PICK m \in Nat : m = k + t
      BY <2>4
    <3>2. q < m /\ m <= e /\ q \in Nat /\ a - 1 <= q
      BY <1>3, <2>4, <2>6, <3>1
    <3>3. NoneEnded(u, q + 1, m - 1)
      BY <2>7, <3>1 DEF NoneEnded
    <3>4. AllOther(u, q + 1, m)
      BY <1>5, <3>2, <3>3, OthersGoOn
    <3> QED
      BY <3>1, <3>4
  <2>9. k + t < e
    <3> SUFFICES ASSUME k + t = e PROVE FALSE
      BY <2>4, <2>6
    <3>1. e \in q + 1 .. k + t
      BY <1>3
    <3> QED
      BY <1>2, <2>8, <3>1 DEF AllOther
  <2>10. l.line = SubSeq(u, q + 1, k + n) /\ l.rest = SubSeq(b, t + 1, Len(b))
    <3>1. k + n <= Len(u) /\ n \in 1 .. Len(b)
      BY <1>0, <2>4, <2>6
    <3>2. SubSeq(u, q + 1, k) \o SubSeq(b, 1, n) = SubSeq(u, q + 1, k + n)
      <4>1. q \in Nat /\ q <= k
        BY <1>3
      <4>2. Joined(u, q, k, b, n)
        BY <3>1, <4>1, Together
      <4> QED
        BY <4>2 DEF Joined
    <3> QED
      BY <1>1, <2>3, <3>2 DEF Takes
  <2>11. CASE ~ l.complete
    <3>1. n = t
      BY <2>3, <2>4, <2>11 DEF Takes
    <3>2. ~ Ended(b[t]) /\ (k - q) + t < MaxLine - 1
      BY <1>0, <1>3, <2>1, <2>3, <2>4, <2>11, <3>1 DEF Takes
    <3>3. ~ Ended(u[k + t])
      BY <2>4, <2>5, <2>6, <3>2
    <3>4. NoneEnded(u, q + 1, k + t)
      <4> SUFFICES ASSUME NEW j \in q + 1 .. k + t PROVE ~ Ended(u[j])
        BY DEF NoneEnded
      <4>1. j \in q + 1 .. k + t - 1 \/ j = k + t
        BY <1>3, <2>4
      <4> QED
        BY <2>7, <3>3, <4>1
    <3>5. q \in a - 1 .. k + t /\ (k + t) - q < MaxLine - 1
      BY <1>0, <1>3, <2>4, <3>2
    <3>6. LineAt(u, a, k + t, l.line)
      BY <1>1, <2>10, <3>1, <3>4, <3>5 DEF LineAt
    <3>7. NoneEnded(u, k + 1, k + t)
      BY <1>3, <3>4 DEF NoneEnded
    <3>8. Unfinished(u, a, e, k, t, l)
      BY <2>9, <2>11, <3>6, <3>7 DEF Unfinished
    <3> QED
      BY <2>6, <2>10, <3>8 DEF l
  <2>12. CASE l.complete
    <3>1. l.line \in Seq(Unit) /\ \A j \in 1 .. Len(l.line) : l.line[j][1] = "other"
      <4> DEFINE w == SubSeq(u, q + 1, k + n)
      <4>1. /\ w \in Seq(Unit) /\ Len(w) = (k + n) - q
            /\ \A j \in 1 .. Len(w) : w[j] = u[q + j] /\ q + j \in q + 1 .. k + t
        <5>1. k + n \in Nat /\ k + n <= Len(u) /\ q <= k + n /\ k + n <= k + t
          BY <1>0, <1>3, <2>4, <2>6
        <5>2. w \in Seq(Unit) /\ Len(w) = (k + n) - q /\ \A j \in 1 .. (k + n) - q : w[j] = u[q + j]
          BY <1>3, <5>1
        <5>3. \A j \in 1 .. (k + n) - q : q + j \in q + 1 .. k + t
          BY <1>3, <2>4, <5>1
        <5> HIDE DEF w
        <5> QED
          BY <5>2, <5>3
      <4> HIDE DEF w
      <4>2. \A j \in 1 .. Len(w) : w[j][1] = "other"
        BY <2>8, <4>1 DEF AllOther
      <4> QED
        BY <2>10, <4>1, <4>2 DEF w
    <3>2. Ended(u[k + t]) /\ n = t
      <4>1. PICK j \in q + 1 .. e : j - (q + 1) <= MaxLine - 2 /\ Ended(u[j])
        <5>1. q + 1 \in a .. e
          BY <1>3, <2>4, <2>6
        <5> QED
          BY <5>1 DEF Fields, Fits
      <4>2. j >= k + t
        BY <1>3, <2>4, <2>7, <4>1
      <4>3. (k - q) + n <= MaxLine - 1 /\ (n < t => (k - q) + n = MaxLine - 1)
        BY <2>1, <2>3 DEF Takes
      <4>4. n = t
        BY <1>0, <1>3, <2>4, <4>1, <4>2, <4>3
      <4>5. CASE Ended(b[n])
        BY <2>4, <2>5, <2>6, <4>4, <4>5
      <4>6. CASE (k - q) + n = MaxLine - 1
        <5>1. j = k + t
          BY <1>0, <1>3, <2>4, <4>1, <4>2, <4>4, <4>6
        <5> QED
          BY <4>1, <4>4, <5>1
      <4> QED
        BY <2>1, <2>3, <2>12, <4>4, <4>5, <4>6 DEF Takes
    <3>6. Len(l.line) # 1
      <4>1. ~ Ended(u[q + 1])
        BY <1>1, <1>3 DEF Opens, Line, Ended
      <4>2. k + t # q + 1
        BY <3>2, <4>1
      <4>3. Len(l.line) = (k + n) - q
        BY <1>0, <1>3, <2>4, <2>6, <2>10
      <4> QED
        BY <1>3, <2>4, <3>2, <4>2, <4>3
    <3>7. Meaning(l.line)[1] \in {"other", "junk"}
      BY <3>1, <3>6, OthersMean
    <3>3. AllOther(u, k + 1, k + t)
      BY <1>3, <2>8 DEF AllOther
    <3>4. Opens(u, k + t)
      <4>1. k + t \in Nat /\ a <= k + t /\ Ended(u[k + t])
        BY <1>3, <2>4, <3>2
      <4> QED
        BY <2>9, <4>1, NextOpens
    <3>5. Other(u, e, k, t, l)
      BY <2>9, <2>12, <3>3, <3>4, <3>7 DEF Other
    <3> QED
      BY <2>6, <2>10, <3>5 DEF l
  <2> QED
    BY <2>11, <2>12
<1> QED
  BY <1>4, <1>5

-----------------------------------------------------------------------------
(***************************************************************************)
(* How much body there is up to a position.                                *)
(***************************************************************************)
NoData(u, x, y) == \A j \in x .. y : u[j][1] # "data"

LEMMA DataType ==
    ASSUME NEW u, NEW k \in Nat
    PROVE  DataUpTo(u, k) \in Nat
<1> DEFINE S == {j \in 1 .. k : u[j][1] = "data"}
<1>1. S \in SUBSET (1 .. k)
  OBVIOUS
<1> HIDE DEF S
<1>2. Cardinality(S) \in Nat
  BY <1>1, PartOfInterval
<1> QED
  BY <1>2 DEF DataUpTo, S

LEMMA DataNone ==
    ASSUME NEW u, NEW i \in Nat, NEW j \in Nat, i <= j, NoData(u, i + 1, j)
    PROVE  DataUpTo(u, j) = DataUpTo(u, i)
<1>1. {x \in 1 .. j : u[x][1] = "data"} = {x \in 1 .. i : u[x][1] = "data"}
  BY DEF NoData
<1> QED
  BY <1>1 DEF DataUpTo

LEMMA DataMore ==
    ASSUME NEW u, NEW i \in Nat, NEW j \in Nat, i <= j
    PROVE  DataUpTo(u, i) <= DataUpTo(u, j)
<1> DEFINE S == {x \in 1 .. j : u[x][1] = "data"}
           R == {x \in 1 .. i : u[x][1] = "data"}
<1>1. S \in SUBSET (1 .. j) /\ R \in SUBSET S
  OBVIOUS
<1> HIDE DEF S, R
<1>2. Cardinality(R) <= Cardinality(S)
  BY <1>1, FewerElements
<1> QED
  BY <1>2 DEF DataUpTo, S, R

LEMMA DataRun ==
    ASSUME NEW u, NEW i \in Nat, NEW j \in Nat, i <= j, AllData(u, i + 1, j)
    PROVE  DataUpTo(u, j) = DataUpTo(u, i) + (j - i)
<1> DEFINE S == {x \in 1 .. j : u[x][1] = "data"}
           R == {x \in 1 .. i : u[x][1] = "data"}
           D == i + 1 .. j
<1>1. S = R \cup D /\ R \cap D = {}
  BY DEF AllData
<1>2. R \in SUBSET (1 .. i)
  OBVIOUS
<1>3. IsFiniteSet(D) /\ Cardinality(D) = j - i
  <2>1. i + 1 \in Int /\ j \in Int
    OBVIOUS
  <2>2. IsFiniteSet(D) /\ Cardinality(D) = IF i + 1 > j THEN 0 ELSE j - (i + 1) + 1
    BY <2>1, FS_Interval
  <2> QED
    BY <2>2
<1> HIDE DEF S, R, D
<1>4. IsFiniteSet(R) /\ Cardinality(R) \in Nat
  BY <1>2, PartOfInterval
<1>5. Cardinality(R \cup D) = Cardinality(R) + Cardinality(D) - Cardinality(R \cap D)
  BY <1>3, <1>4, FS_Union
<1>6. Cardinality(R \cap D) = 0
  BY <1>1, FS_EmptySet
<1>7. Cardinality(S) = Cardinality(R) + (j - i)
  BY <1>1, <1>3, <1>4, <1>5, <1>6
<1> QED
  BY <1>7 DEF DataUpTo, S, R

-----------------------------------------------------------------------------
(***************************************************************************)
(* Where the parser is: k units of the reply r have been taken.            *)
(***************************************************************************)
Parser ==
    [line : Seq(Unit), content_length : Nat, has_body : BOOLEAN, is_chunked : BOOLEAN,
     state : ParserStates, got : Nat, status : Nat]

\* Unit j ends a header of this kind.
Ends(u, j, kind) == u[j][1] = kind /\ Ended(u[j])

HeadersSaid(p, u, k) ==
    /\ p.is_chunked <=> \E j \in 3 .. k : Ends(u, j, "chunked")
    /\ p.has_body <=> HasBody(u[1][2]) /\ \A j \in 3 .. k : Ends(u, j, "length") => u[j][2] # 0
    /\ \/ p.content_length = Inf /\ \A j \in 3 .. k : ~ Ends(u, j, "length")
       \/ \E j \in 3 .. k : Ends(u, j, "length") /\ p.content_length = u[j][2]

AtStatus(p, u, k) ==
    /\ p.state = "S_REPLY_STATUS" /\ p.got = 0
    /\ k \in {0, 1} /\ p.line = SubSeq(u, 1, k)

AtHeaders(p, u, k, h) ==
    /\ p.state = "S_REPLY_HEADER" /\ p.got = 0
    /\ k \in 2 .. h - 1 /\ LineAt(u, 3, k, p.line)
    /\ HeadersSaid(p, u, k)

AtData(p, r, k, h) ==
    /\ p.state = "S_REPLY_DATA" /\ p.line = << >>
    /\ k \in h .. Len(r.units) /\ AllData(r.units, h + 1, Len(r.units))
    /\ p.got = DataUpTo(r.units, k)
    /\ ~ r.untilEof => k < Len(r.units)
    /\ p.content_length = IF r.untilEof THEN Inf ELSE r.body

\* The rest of a chunk, or a line between chunks.
InChunk(p, u, k, z) ==
    \E n \in Nat \ {0} :
        /\ p.content_length = p.got + n /\ p.line = << >>
        /\ k + n + 2 < z /\ AllData(u, k + 1, k + n) /\ Line(u, k + n + 1, "blank", 0)

BetweenChunks(p, u, k, h, z) ==
    /\ p.content_length = p.got
    /\ \E q \in h .. k :
          /\ k \in {q, q + 1} /\ q + 2 <= z /\ p.line = SubSeq(u, q + 1, k)
          /\ Line(u, q + 1, "blank", 0) \/ Line(u, q + 1, "size", u[q + 1][2])

AtChunks(p, u, k, h, z) ==
    /\ p.state = "S_REPLY_CHUNKED" /\ ChunkedBody(u, h, z)
    /\ k \in h .. z - 1 /\ p.got = DataUpTo(u, k)
    /\ InChunk(p, u, k, z) \/ BetweenChunks(p, u, k, h, z)

AtFooters(p, r, k, h, z) ==
    /\ p.state = "S_REPLY_FOOTER" /\ ChunkedBody(r.units, h, z)
    /\ k \in z .. Len(r.units) - 1 /\ LineAt(r.units, z + 1, k, p.line)
    /\ p.got = r.body

AtEnd(p, r, k) ==
    p.state = "S_REPLY_DONE" /\ p.got = r.body /\ p.line = << >> /\ k = Len(r.units)

ParserAt(p, r, k, h, z) ==
    \/ AtStatus(p, r.units, k)
    \/ AtHeaders(p, r.units, k, h)
    \/ AtData(p, r, k, h)
    \/ AtChunks(p, r.units, k, h, z)
    \/ AtFooters(p, r, k, h, z)
    \/ AtEnd(p, r, k)

\* What one turn of the parser does with a buffer that goes on where the
\* parser is: it takes some units, none after the reply, and is where they end.
Turns(o, r, k, h, z, b) ==
    \E t \in 0 .. Len(b) :
        /\ k + t <= Len(r.units)
        /\ o.rest = SubSeq(b, t + 1, Len(b))
        /\ o.s \in Parser /\ ParserAt(o.s, r, k + t, h, z)

LEMMA ReplyFacts ==
    ASSUME NEW r, NEW h, NEW z, IsReply(r, h, z)
    PROVE  /\ r.units \in Seq(Unit) /\ Len(r.units) \in Nat /\ h \in Nat /\ h >= 4 /\ h <= Len(r.units)
           /\ z \in Nat /\ z >= h /\ z <= Len(r.units)
           /\ r.units[1][2] \in 200 .. 599 /\ Line(r.units, 1, "status", r.units[1][2])
           /\ Fields(r.units, 3, h)
           /\ r.body = DataUpTo(r.units, Len(r.units)) /\ r.body < Inf /\ r.body \in Nat
           /\ Word \in Nat /\ Inf = Word - 1 /\ MaxLine \in Nat /\ MaxLine > 2
<1>1. r.units \in Seq(Unit) /\ h \in 4 .. Len(r.units) /\ z \in h .. Len(r.units)
  BY DEF IsReply
<1>2. Len(r.units) \in Nat
  BY <1>1
<1>3. r.body = DataUpTo(r.units, Len(r.units)) /\ r.body < Inf
  BY DEF IsReply
<1>4. r.body \in Nat
  BY <1>2, <1>3, DataType
<1>5. Word \in Nat /\ Inf = Word - 1 /\ MaxLine \in Nat /\ MaxLine > 2
  BY HttpAssumption, RepliesAssumption DEF Inf
<1>6. /\ r.units[1][2] \in 200 .. 599 /\ Line(r.units, 1, "status", r.units[1][2])
      /\ Fields(r.units, 3, h)
  BY DEF IsReply
<1> QED
  BY <1>1, <1>2, <1>3, <1>4, <1>5, <1>6

\* The line feed of a line that has been taken is behind the parser.
LEMMA EmptyLine ==
    ASSUME NEW u \in Seq(Unit), NEW a \in Nat \ {0}, NEW q \in Nat, a - 1 <= q, q <= Len(u), Opens(u, q)
    PROVE  LineAt(u, a, q, << >>)
<1>1. MaxLine \in Nat /\ MaxLine > 2
  BY HttpAssumption, RepliesAssumption
<1>2. SubSeq(u, q + 1, q) = << >>
  OBVIOUS
<1>3. q \in a - 1 .. q /\ q - q < MaxLine - 1
  BY <1>1
<1>4. NoneEnded(u, q + 1, q)
  BY DEF NoneEnded
<1> QED
  BY <1>2, <1>3, <1>4 DEF LineAt

LEMMA FirstOpens ==
    ASSUME NEW u \in Seq(Unit), NEW a \in Nat \ {0}, NEW b \in Nat, b <= Len(u), Fields(u, a, b)
    PROVE  Opens(u, a - 1)
<1>1. a \in a .. b /\ (a - 1) + 1 = a
  BY DEF Fields
<1>2. (u[a][1] = "other" /\ ~ Ended(u[a])) \/ Line(u, a, u[a][1], u[a][2])
  BY <1>1 DEF Fields
<1> QED
  BY <1>1, <1>2 DEF Opens

\* The parser after the status line.
Started(p, v, has_body, state) ==
    [p EXCEPT !.status = v, !.has_body = has_body, !.state = state, !.line = << >>]

LEMMA ParserSet ==
    ASSUME NEW p \in Parser, NEW v \in Nat, NEW has_body \in BOOLEAN, NEW state \in ParserStates
    PROVE  Started(p, v, has_body, state) \in Parser
<1>1. << >> \in Seq(Unit)
  OBVIOUS
<1>2. [p EXCEPT !.status = v, !.has_body = has_body] \in Parser
  BY DEF Parser
<1> DEFINE n == [p EXCEPT !.status = v, !.has_body = has_body]
<1>3. [n EXCEPT !.state = state, !.line = << >>] \in Parser
  <2> HIDE DEF n
  <2> QED
    BY <1>1, <1>2 DEF Parser, n
<1>4. Started(p, v, has_body, state) = [n EXCEPT !.state = state, !.line = << >>]
  BY DEF Started
<1> QED
  BY <1>3, <1>4

LEMMA StatusTurn ==
    ASSUME NEW r, NEW h, NEW z, IsReply(r, h, z),
           NEW k, NEW p \in Parser, AtStatus(p, r.units, k),
           NEW b \in Seq(Unit), b # << >>, Follows(b, r.units, k), NEW x
    PROVE  Turns(http_process_reply_bytes(p, b, x), r, k, h, z, b)
<1> DEFINE o == http_process_reply_bytes(p, b, x)
           l == get_line(p, b)
           u == r.units
           v == u[1][2]
<1>1. /\ u \in Seq(Unit) /\ Len(u) \in Nat /\ h \in Nat /\ h >= 4 /\ h <= Len(u)
      /\ v \in 200 .. 599 /\ Line(u, 1, "status", v)
      /\ Fields(u, 3, h) /\ Word \in Nat /\ Inf = Word - 1 /\ Word > 1
  <2>1. Word \in Nat /\ Word > 1
    BY HttpAssumption
  <2> QED
    BY <2>1, ReplyFacts
<1>2. p.state = "S_REPLY_STATUS" /\ p.got = 0 /\ k \in {0, 1} /\ p.line = SubSeq(u, 1, k)
  BY DEF AtStatus
<1>3. o = parse_status_line(p, b, x)
  BY <1>2 DEF http_process_reply_bytes
<1> HIDE DEF l, u, v, o
<1>4. KnownTurn(u, 0, k, "status", v, b, l)
  <2>1. Line(u, 0 + 1, "status", v) /\ p.line = SubSeq(u, 0 + 1, k) /\ k \in {0, 0 + 1} /\ 0 + 2 <= Len(u)
    BY <1>1, <1>2
  <2>2. Follows(b, u, k)
    BY DEF u
  <2> QED
    BY <1>1, <2>1, <2>2, KnownLine DEF l
<1>5. PICK t \in 1 .. Len(b) :
        /\ l.rest = SubSeq(b, t + 1, Len(b))
        /\ \/ k + t = 1 /\ ~ l.complete /\ l.line = SubSeq(u, 1, k + t)
           \/ k + t = 2 /\ l.complete /\ Meaning(l.line) = << "status", v >>
  BY <1>4 DEF KnownTurn
<1>6. t \in 0 .. Len(b) /\ Len(b) \in Nat
  OBVIOUS
<1> DEFINE fresh == [p EXCEPT !.is_chunked = FALSE, !.content_length = Inf]
<1>7. /\ fresh \in Parser /\ fresh.state = "S_REPLY_STATUS" /\ fresh.got = 0
      /\ fresh.is_chunked = FALSE /\ fresh.content_length = Inf
  <2>1. Inf \in Nat
    BY <1>1
  <2>2. fresh \in Parser
    BY <2>1 DEF Parser
  <2>3. fresh.is_chunked = FALSE /\ fresh.content_length = Inf
    BY DEF Parser
  <2>4. fresh.state = p.state /\ fresh.got = p.got
    BY DEF Parser
  <2> QED
    BY <1>2, <2>2, <2>3, <2>4
<1> HIDE DEF fresh
<1>8. CASE k + t = 1 /\ ~ l.complete /\ l.line = SubSeq(u, 1, k + t)
  <2>1. o.s = [fresh EXCEPT !.line = l.line] /\ o.rest = l.rest
    BY <1>3, <1>8 DEF parse_status_line, Incomplete, Outcome, l, fresh
  <2>2. l.line \in Seq(Unit)
    BY <1>1, <1>8
  <2>3. o.s \in Parser /\ o.s.state = "S_REPLY_STATUS" /\ o.s.got = 0 /\ o.s.line = l.line
    BY <1>7, <2>1, <2>2 DEF Parser
  <2>4. AtStatus(o.s, u, k + t)
    BY <1>8, <2>3 DEF AtStatus
  <2>5. k + t <= Len(u)
    BY <1>1, <1>8
  <2> QED
    BY <1>5, <1>6, <2>1, <2>3, <2>4, <2>5 DEF Turns, ParserAt, u, o
<1>9. CASE k + t = 2 /\ l.complete /\ Meaning(l.line) = << "status", v >>
  <2>1. v # 100 /\ v \in Nat
    BY <1>1
  <2>2. /\ o.s = [fresh EXCEPT !.status = v, !.has_body = HasBody(v),
                               !.state = "S_REPLY_HEADER", !.line = << >>]
        /\ o.rest = l.rest
    BY <1>3, <1>9, <2>1 DEF parse_status_line, Outcome, l, fresh
  <2>3. HasBody(v) \in BOOLEAN
    BY DEF HasBody
  <2>4. /\ o.s \in Parser /\ o.s.state = "S_REPLY_HEADER" /\ o.s.got = 0 /\ o.s.line = << >>
        /\ o.s.has_body = HasBody(v) /\ o.s.is_chunked = FALSE /\ o.s.content_length = Inf
    <3>1. << >> \in Seq(Unit) /\ "S_REPLY_HEADER" \in ParserStates
      BY DEF ParserStates
    <3>2. o.s \in Parser
      <4>1. Started(fresh, v, HasBody(v), "S_REPLY_HEADER") \in Parser
        BY <1>7, <2>1, <2>3, <3>1, ParserSet
      <4> QED
        BY <2>2, <4>1 DEF Started
    <3>3. o.s.state = "S_REPLY_HEADER" /\ o.s.line = << >> /\ o.s.has_body = HasBody(v)
      BY <1>7, <2>2 DEF Parser
    <3>4. o.s.got = fresh.got /\ o.s.is_chunked = fresh.is_chunked /\ o.s.content_length = fresh.content_length
      BY <1>7, <2>2 DEF Parser
    <3> QED
      BY <1>7, <3>2, <3>3, <3>4
  <2>5. Opens(u, 2)
    <3>1. Opens(u, 3 - 1)
      BY <1>1, FirstOpens
    <3> QED
      BY <3>1
  <2>6. LineAt(u, 3, 2, << >>)
    BY <1>1, <2>5, EmptyLine
  <2>7. HeadersSaid(o.s, u, 2)
    BY <2>4 DEF HeadersSaid, v
  <2>8. AtHeaders(o.s, u, k + t, h)
    BY <1>1, <1>9, <2>4, <2>6, <2>7 DEF AtHeaders
  <2>9. k + t <= Len(u)
    BY <1>1, <1>9
  <2> QED
    BY <1>5, <1>6, <2>2, <2>4, <2>8, <2>9 DEF Turns, ParserAt, u, o
<1> QED
  BY <1>5, <1>8, <1>9

-----------------------------------------------------------------------------
(***************************************************************************)
(* The headers.                                                            *)
(***************************************************************************)
\* No unit of these ends a header that matters to the parser.
NothingSaid(u, x, y) == \A j \in x .. y : ~ Ends(u, j, "length") /\ ~ Ends(u, j, "chunked")

LEMMA SaidBefore ==
    ASSUME NEW u, NEW p, NEW k \in Nat, NEW m \in Nat, k <= m, k >= 2, HeadersSaid(p, u, k),
           NothingSaid(u, k + 1, m), NEW n, n.is_chunked = p.is_chunked, n.has_body = p.has_body,
           n.content_length = p.content_length
    PROVE  HeadersSaid(n, u, m)
<1>1. \A j \in 3 .. m : Ends(u, j, "length") \/ Ends(u, j, "chunked") => j \in 3 .. k
  BY DEF NothingSaid
<1>2. \A j \in 3 .. k : j \in 3 .. m
  OBVIOUS
<1>3. n.is_chunked <=> \E j \in 3 .. m : Ends(u, j, "chunked")
  BY <1>1, <1>2 DEF HeadersSaid
<1>4. n.has_body <=> HasBody(u[1][2]) /\ \A j \in 3 .. m : Ends(u, j, "length") => u[j][2] # 0
  BY <1>1, <1>2 DEF HeadersSaid
<1>5. \/ n.content_length = Inf /\ \A j \in 3 .. m : ~ Ends(u, j, "length")
      \/ \E j \in 3 .. m : Ends(u, j, "length") /\ n.content_length = u[j][2]
  BY <1>1, <1>2 DEF HeadersSaid
<1> QED
  BY <1>3, <1>4, <1>5 DEF HeadersSaid

LEMMA LengthSaid ==
    ASSUME NEW u, NEW p, NEW k \in Nat, NEW m \in Nat, k < m, k >= 2, HeadersSaid(p, u, k),
           NothingSaid(u, k + 1, m - 1), Ends(u, m, "length"), NEW n, n.is_chunked = p.is_chunked,
           n.has_body = (p.has_body /\ u[m][2] # 0), n.content_length = u[m][2]
    PROVE  HeadersSaid(n, u, m)
<1>0. ~ Ends(u, m, "chunked")
  BY DEF Ends
<1>1. \A j \in 3 .. m : j = m \/ (Ends(u, j, "length") \/ Ends(u, j, "chunked") => j \in 3 .. k)
  BY DEF NothingSaid
<1>2. m \in 3 .. m /\ \A j \in 3 .. k : j \in 3 .. m
  OBVIOUS
<1>3. n.is_chunked <=> \E j \in 3 .. m : Ends(u, j, "chunked")
  BY <1>0, <1>1, <1>2 DEF HeadersSaid
<1>4. n.has_body <=> HasBody(u[1][2]) /\ \A j \in 3 .. m : Ends(u, j, "length") => u[j][2] # 0
  BY <1>1, <1>2 DEF HeadersSaid
<1>5. \E j \in 3 .. m : Ends(u, j, "length") /\ n.content_length = u[j][2]
  BY <1>2
<1> QED
  BY <1>3, <1>4, <1>5 DEF HeadersSaid

LEMMA ChunkedSaid ==
    ASSUME NEW u, NEW p, NEW k \in Nat, NEW m \in Nat, k < m, k >= 2, HeadersSaid(p, u, k),
           NothingSaid(u, k + 1, m - 1), Ends(u, m, "chunked"), NEW n, n.is_chunked = TRUE,
           n.has_body = p.has_body, n.content_length = p.content_length
    PROVE  HeadersSaid(n, u, m)
<1>0. ~ Ends(u, m, "length")
  BY DEF Ends
<1>1. \A j \in 3 .. m : Ends(u, j, "length") => j \in 3 .. k
  BY <1>0 DEF NothingSaid
<1>2. m \in 3 .. m /\ \A j \in 3 .. k : j \in 3 .. m
  OBVIOUS
<1>3. n.is_chunked <=> \E j \in 3 .. m : Ends(u, j, "chunked")
  BY <1>2
<1>4. n.has_body <=> HasBody(u[1][2]) /\ \A j \in 3 .. m : Ends(u, j, "length") => u[j][2] # 0
  BY <1>1, <1>2 DEF HeadersSaid
<1>5. \/ n.content_length = Inf /\ \A j \in 3 .. m : ~ Ends(u, j, "length")
      \/ \E j \in 3 .. m : Ends(u, j, "length") /\ n.content_length = u[j][2]
  BY <1>1, <1>2 DEF HeadersSaid
<1> QED
  BY <1>3, <1>4, <1>5 DEF HeadersSaid

\* A header that matters is there with the unit that ends it.
LEMMA HeaderEnds ==
    ASSUME NEW u \in Seq(Unit), NEW h \in Nat, h <= Len(u), Fields(u, 3, h),
           NEW kind \in {"length", "chunked"}, NEW j \in 3 .. h, u[j][1] = kind
    PROVE  \E i \in 3 .. h : Ends(u, i, kind) /\ u[i][2] = u[j][2]
<1>1. \/ j < h /\ Line(u, j, u[j][1], u[j][2])
      \/ j > 3 /\ Line(u, j - 1, u[j][1], u[j][2])
  BY DEF Fields
<1>2. CASE j < h /\ Line(u, j, u[j][1], u[j][2])
  <2>1. u[j + 1] = << u[j][1], u[j][2], 2 >> /\ j + 1 \in 3 .. h
    BY <1>2 DEF Line
  <2>2. Ends(u, j + 1, kind) /\ u[j + 1][2] = u[j][2]
    BY <2>1 DEF Ends, Ended
  <2> QED
    BY <2>1, <2>2
<1>3. CASE j > 3 /\ Line(u, j - 1, u[j][1], u[j][2])
  <2>1. (j - 1) + 1 = j
    OBVIOUS
  <2>2. u[j] = << u[j][1], u[j][2], 2 >>
    BY <1>3, <2>1 DEF Line
  <2>3. Ends(u, j, kind)
    BY <2>2 DEF Ends, Ended
  <2> QED
    BY <2>3
<1> QED
  BY <1>1, <1>2, <1>3

\* At the empty line the parser knows what the headers say.
LEMMA AllSaid ==
    ASSUME NEW u \in Seq(Unit), NEW h \in Nat, h <= Len(u), Fields(u, 3, h),
           NEW p, HeadersSaid(p, u, h)
    PROVE  /\ p.is_chunked <=> SaysChunked(u, h)
           /\ p.has_body <=> HasBody(u[1][2]) /\ 0 \notin Lengths(u, h)
           /\ Lengths(u, h) = {} => p.content_length = Inf
           /\ Lengths(u, h) # {} => p.content_length \in Lengths(u, h)
<1>1. \A v : v \in Lengths(u, h) <=> \E j \in 3 .. h : Ends(u, j, "length") /\ u[j][2] = v
  <2> TAKE v
  <2>1. ASSUME v \in Lengths(u, h)
        PROVE  \E j \in 3 .. h : Ends(u, j, "length") /\ u[j][2] = v
    <3>1. PICK j \in 3 .. h : u[j][1] = "length" /\ u[j][2] = v
      BY <2>1 DEF Lengths
    <3>2. "length" \in {"length", "chunked"}
      OBVIOUS
    <3> QED
      BY <3>1, <3>2, HeaderEnds
  <2>2. ASSUME NEW j \in 3 .. h, Ends(u, j, "length"), u[j][2] = v
        PROVE  v \in Lengths(u, h)
    BY <2>2 DEF Lengths, Ends
  <2> QED
    BY <2>1, <2>2
<1>2. SaysChunked(u, h) <=> \E j \in 3 .. h : Ends(u, j, "chunked")
  <2>1. ASSUME NEW j \in 3 .. h, u[j][1] = "chunked"
        PROVE  \E i \in 3 .. h : Ends(u, i, "chunked")
    <3>1. "chunked" \in {"length", "chunked"}
      OBVIOUS
    <3> QED
      BY <2>1, <3>1, HeaderEnds
  <2>2. ASSUME NEW j \in 3 .. h, Ends(u, j, "chunked")
        PROVE  u[j][1] = "chunked"
    BY <2>2 DEF Ends
  <2> QED
    BY <2>1, <2>2 DEF SaysChunked
<1>3. p.is_chunked <=> SaysChunked(u, h)
  BY <1>2 DEF HeadersSaid
<1>4. p.has_body <=> HasBody(u[1][2]) /\ 0 \notin Lengths(u, h)
  BY <1>1 DEF HeadersSaid
<1>5. CASE p.content_length = Inf /\ \A j \in 3 .. h : ~ Ends(u, j, "length")
  <2>1. Lengths(u, h) = {}
    BY <1>1, <1>5
  <2> QED
    BY <1>3, <1>4, <1>5, <2>1
<1>6. CASE \E j \in 3 .. h : Ends(u, j, "length") /\ p.content_length = u[j][2]
  <2>1. p.content_length \in Lengths(u, h)
    BY <1>1, <1>6
  <2> QED
    BY <1>3, <1>4, <2>1
<1> QED
  BY <1>5, <1>6 DEF HeadersSaid

\* There is no body among the headers.
LEMMA HeadersHaveNoData ==
    ASSUME NEW r, NEW h, NEW z, IsReply(r, h, z)
    PROVE  DataUpTo(r.units, h) = 0
<1> DEFINE u == r.units
<1>1. /\ u \in Seq(Unit) /\ Len(u) \in Nat /\ h \in Nat /\ h >= 4 /\ h <= Len(u)
      /\ Line(u, 1, "status", u[1][2]) /\ Fields(u, 3, h)
  BY ReplyFacts
<1> HIDE DEF u
<1>2. /\ u[h - 1] = << "blank", 0, 1 >> /\ u[h] = << "blank", 0, 2 >>
      /\ \A k \in 3 .. h - 2 : u[k][1] \in {"length", "chunked", "other"}
  BY <1>1, LastOfFields
<1>3. u[1][1] = "status" /\ u[2][1] = "status"
  <2>1. 1 + 1 = 2
    OBVIOUS
  <2>2. u[1] = << "status", u[1][2], 1 >> /\ u[2] = << "status", u[1][2], 2 >>
    BY <1>1, <2>1 DEF Line
  <2> QED
    BY <2>2
<1>4. NoData(u, 0 + 1, h)
  <2> SUFFICES ASSUME NEW j \in 1 .. h PROVE u[j][1] # "data"
    BY DEF NoData
  <2>1. j = 1 \/ j = 2 \/ j \in 3 .. h - 2 \/ j = h - 1 \/ j = h
    BY <1>1
  <2> QED
    BY <1>2, <1>3, <2>1
<1>5. DataUpTo(u, 0) = 0
  <2>1. {j \in 1 .. 0 : u[j][1] = "data"} = {}
    OBVIOUS
  <2> QED
    BY <2>1, FS_EmptySet DEF DataUpTo
<1>6. 0 \in Nat /\ 0 <= h
  BY <1>1
<1> QED
  BY <1>1, <1>4, <1>5, <1>6, DataNone DEF u

\* After an empty line in a body of chunks there is another line.
LEMMA ChunkNext ==
    ASSUME NEW u \in Seq(Unit), NEW h \in Nat, NEW z \in Nat, ChunkedBody(u, h, z), h >= 4, z <= Len(u),
           NEW q \in h .. z - 2, u[q] = << "blank", 0, 2 >>
    PROVE  Line(u, q + 1, "blank", 0) \/ Line(u, q + 1, "size", u[q + 1][2])
<1>1. CASE q = z - 2
  <2>1. q + 1 = z - 1
    BY <1>1
  <2>2. Line(u, z - 1, "size", 0)
    BY DEF ChunkedBody
  <2>3. u[z - 1][2] = 0
    BY <2>2 DEF Line
  <2> QED
    BY <2>1, <2>2, <2>3
<1>2. CASE q # z - 2
  <2> DEFINE j == q + 1
  <2>1. j \in h + 1 .. z - 2 /\ j - 1 = q /\ j - 2 = q - 1 /\ (q - 1) + 1 = q
    BY <1>2
  <2>2. Chunks(u, h + 1, z - 2)
    BY DEF ChunkedBody
  <2> HIDE DEF j
  <2>3. \/ j < z - 2 /\ Line(u, j, "blank", 0)
        \/ j > h + 1 /\ Line(u, j - 1, "blank", 0)
        \/ j < z - 2 /\ Line(u, j, "size", u[j][2])
        \/ Line(u, j - 1, "size", u[j][2])
        \/ u[j][1] = "data" /\ j > h + 1 /\ (u[j - 1][1] = "data" \/ Line(u, j - 2, "size", u[j - 1][2]))
    BY <2>1, <2>2 DEF Chunks
  <2>4. ~ Line(u, q, "blank", 0) /\ ~ Line(u, q, "size", u[j][2])
    BY DEF Line
  <2>5. u[q][1] # "data" /\ ~ Line(u, q - 1, "size", u[q][2])
    BY <2>1 DEF Line
  <2> QED
    BY <2>1, <2>3, <2>4, <2>5 DEF j
<1> QED
  BY <1>1, <1>2

\* The parser and HTTP/1.1 agree on which final replies end with their headers.
LEMMA SameBody ==
    ASSUME NEW c \in 200 .. 599
    PROVE  HasBody(c) <=> c \notin Bodiless
<1>1. c \div 100 # 1
  OBVIOUS
<1> QED
  BY <1>1 DEF HasBody, Bodiless

\* After the empty line: the parser is at the body, or the reply is complete.
LEMMA HeadersEnd ==
    ASSUME NEW r, NEW h, NEW z, IsReply(r, h, z),
           NEW p \in Parser, p.state = "S_REPLY_HEADER", p.got = 0, p.line = << >>,
           HeadersSaid(p, r.units, h)
    PROVE  EndOfHeaders(p) \in Parser /\ ParserAt(EndOfHeaders(p), r, h, h, z)
<1> DEFINE u == r.units
           n == EndOfHeaders(p)
<1>1. /\ u \in Seq(Unit) /\ Len(u) \in Nat /\ h \in Nat /\ h >= 4 /\ h <= Len(u)
      /\ z \in Nat /\ z >= h /\ z <= Len(u)
      /\ u[1][2] \in 200 .. 599 /\ Fields(u, 3, h) /\ Word \in Nat /\ Inf = Word - 1
      /\ r.body = DataUpTo(u, Len(u)) /\ r.body < Inf /\ r.body \in Nat
  BY ReplyFacts
<1>2. DataUpTo(u, h) = 0
  BY HeadersHaveNoData
<1>3. /\ r.untilEof <=> OpenBody(u, h)
      /\ NoBody(u, h) \/ SizedBody(u, h) \/ ChunkedBody(u, h, z) \/ OpenBody(u, h)
  BY DEF IsReply
<1> HIDE DEF u
<1>4. /\ p.is_chunked <=> SaysChunked(u, h)
      /\ p.has_body <=> u[1][2] \notin Bodiless /\ 0 \notin Lengths(u, h)
      /\ Lengths(u, h) = {} => p.content_length = Inf
      /\ Lengths(u, h) # {} => p.content_length \in Lengths(u, h)
  <2>1. HasBody(u[1][2]) <=> u[1][2] \notin Bodiless
    BY <1>1, SameBody
  <2> QED
    BY <1>1, <2>1, AllSaid DEF u
<1>5. CASE NoBody(u, h)
  <2>1. ~ p.has_body
    BY <1>4, <1>5 DEF NoBody
  <2>2. n = [p EXCEPT !.state = "S_REPLY_DONE"]
    BY <2>1 DEF EndOfHeaders
  <2>3. n \in Parser /\ n.state = "S_REPLY_DONE" /\ n.got = p.got /\ n.line = p.line
    BY <2>2 DEF Parser, ParserStates
  <2>4. Len(u) = h
    BY <1>5 DEF NoBody
  <2>5. AtEnd(n, r, h)
    BY <1>1, <1>2, <2>3, <2>4 DEF AtEnd, u
  <2> QED
    BY <2>3, <2>5 DEF ParserAt
<1>6. CASE SizedBody(u, h)
  <2>1. u[1][2] \notin Bodiless /\ Lengths(u, h) = {Len(u) - h} /\ ~ SaysChunked(u, h)
        /\ Len(u) > h /\ AllData(u, h + 1, Len(u))
    BY <1>6 DEF SizedBody
  <2>2. p.has_body /\ ~ p.is_chunked /\ p.content_length = Len(u) - h /\ ~ r.untilEof
    <3>1. 0 \notin {Len(u) - h} /\ {Len(u) - h} # {}
      BY <1>1, <2>1
    <3>2. ~ OpenBody(u, h)
      BY <2>1 DEF OpenBody
    <3> QED
      BY <1>3, <1>4, <2>1, <3>1, <3>2
  <2>3. n = [p EXCEPT !.state = "S_REPLY_DATA"]
    BY <2>2 DEF EndOfHeaders
  <2>4. /\ n \in Parser /\ n.state = "S_REPLY_DATA" /\ n.got = p.got /\ n.line = p.line
        /\ n.content_length = p.content_length
    BY <2>3 DEF Parser, ParserStates
  <2>5. r.body = Len(u) - h
    <3>1. DataUpTo(u, Len(u)) = DataUpTo(u, h) + (Len(u) - h)
      BY <1>1, <2>1, DataRun
    <3> QED
      BY <1>1, <1>2, <3>1
  <2>6. AtData(n, r, h, h)
    BY <1>1, <1>2, <2>1, <2>2, <2>4, <2>5 DEF AtData, u
  <2> QED
    BY <2>4, <2>6 DEF ParserAt
<1>7. CASE ChunkedBody(u, h, z)
  <2>1. u[1][2] \notin Bodiless /\ Lengths(u, h) = {} /\ SaysChunked(u, h) /\ h + 2 <= z
    BY <1>7 DEF ChunkedBody
  <2>2. p.has_body /\ p.is_chunked
    BY <1>4, <2>1
  <2>3. n = [p EXCEPT !.content_length = 0, !.state = "S_REPLY_CHUNKED"]
    BY <2>2 DEF EndOfHeaders
  <2>4. /\ n \in Parser /\ n.state = "S_REPLY_CHUNKED" /\ n.got = p.got /\ n.line = p.line
        /\ n.content_length = 0
    BY <2>3 DEF Parser, ParserStates
  <2>5. u[h] = << "blank", 0, 2 >>
    BY <1>1, LastOfFields
  <2>6. Line(u, h + 1, "blank", 0) \/ Line(u, h + 1, "size", u[h + 1][2])
    <3>1. h \in h .. z - 2
      BY <1>1, <2>1
    <3> QED
      BY <1>1, <1>7, <2>5, <3>1, ChunkNext
  <2>7. SubSeq(u, h + 1, h) = << >>
    BY <1>1
  <2>8. BetweenChunks(n, u, h, h, z)
    <3>1. h \in h .. h /\ h \in {h, h + 1} /\ h + 2 <= z
      BY <1>1, <2>1
    <3>2. n.line = SubSeq(u, h + 1, h)
      BY <2>4, <2>7
    <3> QED
      BY <2>4, <2>6, <3>1, <3>2 DEF BetweenChunks
  <2>9. AtChunks(n, u, h, h, z)
    <3>1. h \in h .. z - 1 /\ n.got = DataUpTo(u, h)
      BY <1>1, <1>2, <2>1, <2>4
    <3> QED
      BY <1>7, <2>4, <2>8, <3>1 DEF AtChunks
  <2> QED
    BY <2>4, <2>9 DEF ParserAt, u
<1>8. CASE OpenBody(u, h)
  <2>1. u[1][2] \notin Bodiless /\ Lengths(u, h) = {} /\ ~ SaysChunked(u, h) /\ AllData(u, h + 1, Len(u))
    BY <1>8 DEF OpenBody
  <2>2. p.has_body /\ ~ p.is_chunked /\ p.content_length = Inf /\ r.untilEof
    BY <1>3, <1>4, <1>8, <2>1
  <2>3. n = [p EXCEPT !.state = "S_REPLY_DATA"]
    BY <2>2 DEF EndOfHeaders
  <2>4. /\ n \in Parser /\ n.state = "S_REPLY_DATA" /\ n.got = p.got /\ n.line = p.line
        /\ n.content_length = p.content_length
    BY <2>3 DEF Parser, ParserStates
  <2>5. h \in h .. Len(u)
    BY <1>1
  <2>6. AtData(n, r, h, h)
    BY <1>2, <2>1, <2>2, <2>4, <2>5 DEF AtData, u
  <2> QED
    BY <2>4, <2>6 DEF ParserAt
<1> QED
  BY <1>3, <1>5, <1>6, <1>7, <1>8

LEMMA HeadersTurn ==
    ASSUME NEW r, NEW h, NEW z, IsReply(r, h, z),
           NEW k, NEW p \in Parser, AtHeaders(p, r.units, k, h),
           NEW b \in Seq(Unit), b # << >>, Follows(b, r.units, k), NEW x
    PROVE  Turns(http_process_reply_bytes(p, b, x), r, k, h, z, b)
<1> DEFINE o == http_process_reply_bytes(p, b, x)
           l == get_line(p, b)
           u == r.units
           next == [p EXCEPT !.line = << >>]
<1>1. /\ u \in Seq(Unit) /\ Len(u) \in Nat /\ h \in Nat /\ h >= 4 /\ h <= Len(u)
      /\ Fields(u, 3, h)
  BY ReplyFacts
<1>2. /\ p.state = "S_REPLY_HEADER" /\ p.got = 0 /\ k \in Nat /\ k >= 2 /\ k < h
      /\ LineAt(u, 3, k, p.line) /\ HeadersSaid(p, u, k)
  BY <1>1 DEF AtHeaders
<1>3. o = parse_headers(p, b)
  BY <1>2 DEF http_process_reply_bytes
<1>4. PICK t \in 1 .. Len(b) :
        /\ k + t <= h /\ l.rest = SubSeq(b, t + 1, Len(b))
        /\ Unfinished(u, 3, h, k, t, l) \/ Other(u, h, k, t, l) \/ Known(u, h, k, t, l)
  <2>1. Follows(b, u, k) /\ 3 \in Nat \ {0} /\ 3 - 1 <= k
    BY <1>2
  <2> HIDE DEF u, l, next, o
  <2> QED
    BY <1>1, <1>2, <2>1, FieldLine DEF l
<1>5. /\ next \in Parser /\ next.state = p.state /\ next.got = p.got /\ next.line = << >>
      /\ next.is_chunked = p.is_chunked /\ next.has_body = p.has_body
      /\ next.content_length = p.content_length
  <2>1. << >> \in Seq(Unit)
    OBVIOUS
  <2> QED
    BY <2>1 DEF Parser
<1>6. p.is_chunked \in BOOLEAN /\ p.has_body \in BOOLEAN /\ p.content_length \in Nat
  BY DEF Parser
<1> HIDE DEF u, l, o, next
<1>7. t \in 0 .. Len(b) /\ t \in Nat /\ t >= 1 /\ k + t <= Len(u) /\ k + t \in Nat
  BY <1>1, <1>2, <1>4
<1>8. /\ u[h - 1] = << "blank", 0, 1 >> /\ u[h] = << "blank", 0, 2 >> /\ ~ Ended(u[h - 1])
      /\ \A j \in 3 .. h - 2 : u[j][1] \in {"length", "chunked", "other"}
  BY <1>1, LastOfFields
<1>9. CASE Unfinished(u, 3, h, k, t, l)
  <2>1. ~ l.complete /\ k + t < h /\ LineAt(u, 3, k + t, l.line) /\ NoneEnded(u, k + 1, k + t)
    BY <1>9 DEF Unfinished
  <2>2. o.s = [p EXCEPT !.line = l.line] /\ o.rest = l.rest
    BY <1>3, <2>1 DEF parse_headers, Incomplete, Outcome, l
  <2>3. l.line \in Seq(Unit)
    BY <1>1, <1>7, <2>1 DEF LineAt
  <2>4. /\ o.s \in Parser /\ o.s.state = p.state /\ o.s.got = p.got /\ o.s.line = l.line
        /\ o.s.is_chunked = p.is_chunked /\ o.s.has_body = p.has_body
        /\ o.s.content_length = p.content_length
    BY <2>2, <2>3 DEF Parser
  <2>5. NothingSaid(u, k + 1, k + t)
    BY <2>1 DEF NoneEnded, NothingSaid, Ends
  <2>6. HeadersSaid(o.s, u, k + t)
    <3>1. k <= k + t
      BY <1>2, <1>7
    <3> QED
      BY <1>2, <1>7, <2>4, <2>5, <3>1, SaidBefore
  <2>7. AtHeaders(o.s, u, k + t, h)
    BY <1>1, <1>2, <1>7, <2>1, <2>4, <2>6 DEF AtHeaders
  <2> QED
    BY <1>4, <1>7, <2>2, <2>4, <2>7 DEF Turns, ParserAt, u, o
<1>10. CASE Other(u, h, k, t, l)
  <2>1. /\ l.complete /\ k + t < h /\ Opens(u, k + t)
        /\ AllOther(u, k + 1, k + t)
        /\ Meaning(l.line)[1] \in {"other", "junk"}
    BY <1>10 DEF Other
  <2>2. o.s = next /\ o.rest = l.rest
    <3>1. Header(next, Meaning(l.line)) = next
      BY <2>1 DEF Header
    <3> QED
      BY <1>3, <2>1, <3>1 DEF parse_headers, Outcome, l, next
  <2>3. NothingSaid(u, k + 1, k + t)
    BY <2>1 DEF AllOther, NothingSaid, Ends
  <2>4. HeadersSaid(o.s, u, k + t)
    <3>1. k <= k + t
      BY <1>2, <1>7
    <3> QED
      BY <1>2, <1>5, <1>7, <2>2, <2>3, <3>1, SaidBefore
  <2>5. LineAt(u, 3, k + t, << >>)
    <3>1. 3 \in Nat \ {0} /\ 3 - 1 <= k + t
      BY <1>2, <1>7
    <3> QED
      BY <1>1, <1>7, <2>1, <3>1, EmptyLine
  <2>6. AtHeaders(o.s, u, k + t, h)
    BY <1>1, <1>2, <1>5, <1>7, <2>1, <2>2, <2>4, <2>5 DEF AtHeaders
  <2> QED
    BY <1>4, <1>5, <1>7, <2>2, <2>6 DEF Turns, ParserAt, u, o
<1>11. CASE Known(u, h, k, t, l)
  <2>0. PICK m : m = k + t
    OBVIOUS
  <2>1. /\ l.complete /\ u[m][1] # "other" /\ Ended(u[m])
        /\ Meaning(l.line) = << u[m][1], u[m][2] >>
        /\ NoneEnded(u, k + 1, m - 1)
        /\ m < h => Opens(u, m)
    <3>1. Known(u, h, k, t, l) /\ k + t = m
      BY <1>11, <2>0
    <3>2. l.complete /\ u[m][1] # "other" /\ Ended(u[m])
      BY <3>1 DEF Known
    <3>3. Meaning(l.line) = << u[m][1], u[m][2] >>
      BY <3>1 DEF Known
    <3>4. NoneEnded(u, k + 1, m - 1)
      BY <1>2, <1>7, <3>1 DEF Known
    <3>5. ASSUME m < h PROVE Opens(u, m)
      BY <3>1, <3>5 DEF Known
    <3> QED
      BY <3>2, <3>3, <3>4, <3>5
  <2>2. m \in Nat /\ k < m /\ m >= 3 /\ m <= h /\ m <= Len(u)
    BY <1>1, <1>2, <1>4, <1>7, <2>0
  <2>3. NothingSaid(u, k + 1, m - 1)
    BY <2>1 DEF NoneEnded, NothingSaid, Ends
  <2>4. CASE m = h
    <3>1. Meaning(l.line) = << "blank", 0 >>
      BY <1>8, <2>1, <2>4
    <3>2. o.s = EndOfHeaders(next) /\ o.rest = l.rest
      BY <1>3, <2>1, <3>1 DEF parse_headers, Outcome, l, next
    <3>3. NothingSaid(u, k + 1, m)
      <4>1. ~ Ends(u, h, "length") /\ ~ Ends(u, h, "chunked")
        BY <1>8 DEF Ends
      <4>2. \A j \in k + 1 .. m : j \in k + 1 .. m - 1 \/ j = h
        BY <1>2, <2>2, <2>4
      <4> QED
        BY <2>3, <4>1, <4>2 DEF NothingSaid
    <3>4. HeadersSaid(next, u, h)
      <4>1. HeadersSaid(next, u, m)
        BY <1>2, <1>5, <2>2, <3>3, SaidBefore
      <4> QED
        BY <2>4, <4>1
    <3>5. EndOfHeaders(next) \in Parser /\ ParserAt(EndOfHeaders(next), r, h, h, z)
      BY <1>2, <1>5, <3>4, HeadersEnd DEF u
    <3> QED
      BY <1>4, <1>7, <2>0, <2>4, <3>2, <3>5 DEF Turns, u, o
  <2>5. CASE m # h
    <3>1. m \in 3 .. h - 2
      <4>1. m # h - 1
        BY <1>8, <2>1
      <4> QED
        BY <1>1, <2>2, <2>5, <4>1
    <3>2. u[m][1] \in {"length", "chunked"}
      BY <1>8, <2>1, <3>1
    <3>3. m < h /\ Opens(u, m)
      BY <1>1, <2>1, <2>2, <2>5
    <3>4. LineAt(u, 3, m, << >>)
      <4>1. 3 \in Nat \ {0} /\ 3 - 1 <= m
        BY <2>2
      <4> QED
        BY <1>1, <2>2, <3>3, <4>1, EmptyLine
    <3>5. o.s = Header(next, Meaning(l.line)) /\ o.rest = l.rest
      <4>1. Meaning(l.line)[1] # "blank"
        BY <2>1, <3>2
      <4> QED
        BY <1>3, <2>1, <4>1 DEF parse_headers, Outcome, l, next
    <3>6. CASE u[m][1] = "length"
      <4> DEFINE v == u[m][2]
      <4>1. o.s = [next EXCEPT !.content_length = v, !.has_body = @ /\ v # 0]
        BY <2>1, <3>5, <3>6 DEF Header
      <4>2. v \in Nat
        <5>1. u[m] \in Unit
          BY <1>1, <2>2
        <5> QED
          BY <5>1 DEF Unit
      <4> HIDE DEF v
      <4>3. /\ o.s \in Parser /\ o.s.state = next.state /\ o.s.got = next.got /\ o.s.line = next.line
        BY <1>5, <1>6, <4>1, <4>2 DEF Parser
      <4>4. /\ o.s.is_chunked = next.is_chunked /\ o.s.has_body = (next.has_body /\ v # 0)
            /\ o.s.content_length = v
        BY <1>5, <4>1 DEF Parser
      <4>5. Ends(u, m, "length")
        BY <2>1, <3>6 DEF Ends
      <4>6. HeadersSaid(o.s, u, m)
        BY <1>2, <1>5, <2>2, <2>3, <4>4, <4>5, LengthSaid DEF v
      <4>7. AtHeaders(o.s, u, m, h)
        BY <1>1, <1>2, <1>5, <2>2, <3>3, <3>4, <4>3, <4>6 DEF AtHeaders
      <4> QED
        BY <1>4, <1>7, <2>0, <3>5, <4>3, <4>7 DEF Turns, ParserAt, u, o
    <3>7. CASE u[m][1] = "chunked"
      <4>1. o.s = [next EXCEPT !.is_chunked = TRUE]
        BY <2>1, <3>5, <3>7 DEF Header
      <4>2. /\ o.s \in Parser /\ o.s.state = next.state /\ o.s.got = next.got /\ o.s.line = next.line
        BY <1>5, <4>1 DEF Parser
      <4>3. /\ o.s.is_chunked = TRUE /\ o.s.has_body = next.has_body
            /\ o.s.content_length = next.content_length
        BY <1>5, <4>1 DEF Parser
      <4>4. Ends(u, m, "chunked")
        BY <2>1, <3>7 DEF Ends
      <4>5. HeadersSaid(o.s, u, m)
        BY <1>2, <1>5, <2>2, <2>3, <4>3, <4>4, ChunkedSaid
      <4>6. AtHeaders(o.s, u, m, h)
        BY <1>1, <1>2, <1>5, <2>2, <3>3, <3>4, <4>2, <4>5 DEF AtHeaders
      <4> QED
        BY <1>4, <1>7, <2>0, <3>5, <4>2, <4>6 DEF Turns, ParserAt, u, o
    <3> QED
      BY <3>2, <3>6, <3>7
  <2> QED
    BY <2>4, <2>5
<1> QED
  BY <1>4, <1>9, <1>10, <1>11

-----------------------------------------------------------------------------
(***************************************************************************)
(* The body.                                                               *)
(***************************************************************************)
LEMMA NoWrap ==
    ASSUME NEW w \in Nat, NEW n \in Nat, n < w
    PROVE  n % w = n
OBVIOUS

\* A run of body: as much of it as the buffer holds and the reply needs.
BodyPart(p, b, d) ==
    \E n \in 0 .. Len(b) :
        /\ n = IF Len(b) > d THEN d ELSE Len(b)
        /\ Body(p, b).s = [p EXCEPT !.got = p.got + n]
        /\ Body(p, b).s \in Parser
        /\ Body(p, b).rest = SubSeq(b, n + 1, Len(b))

LEMMA BodyTaken ==
    ASSUME NEW p \in Parser, NEW b \in Seq(Unit), NEW d \in Nat \ {0}, Needed(p) = d,
           Word \in Nat, p.got + d < Word
    PROVE  BodyPart(p, b, d)
<1>1. PICK n : n = IF Len(b) > d THEN d ELSE Len(b)
  OBVIOUS
<1>2. n \in 0 .. Len(b) /\ n \in Nat /\ n <= d /\ p.got \in Nat
  <2>1. Len(b) \in Nat /\ p.got \in Nat
    BY DEF Parser
  <2> QED
    BY <1>1, <2>1
<1>3. (p.got + n) % Word = p.got + n
  <2>1. p.got + n \in Nat /\ p.got + n < Word
    BY <1>2
  <2> QED
    BY <2>1, NoWrap
<1>4. Body(p, b).s = [p EXCEPT !.got = p.got + n] /\ Body(p, b).rest = SubSeq(b, n + 1, Len(b))
  BY <1>1, <1>3 DEF Body, Outcome
<1>5. Body(p, b).s \in Parser
  <2>1. p.got + n \in Nat
    BY <1>2
  <2> QED
    BY <1>4, <2>1 DEF Parser
<1> QED
  BY <1>1, <1>2, <1>4, <1>5 DEF BodyPart

\* The data before a position where there is more.
LEMMA DataAhead ==
    ASSUME NEW r, NEW h, NEW z, IsReply(r, h, z), NEW k \in Nat, NEW n \in Nat, k + n <= Len(r.units),
           AllData(r.units, k + 1, k + n)
    PROVE  /\ DataUpTo(r.units, k + n) = DataUpTo(r.units, k) + n
           /\ DataUpTo(r.units, k) + n <= r.body /\ DataUpTo(r.units, k) + n < Inf
           /\ DataUpTo(r.units, k) \in Nat
<1> DEFINE u == r.units
<1>1. Len(u) \in Nat /\ r.body = DataUpTo(u, Len(u)) /\ r.body < Inf /\ r.body \in Nat
      /\ Word \in Nat /\ Inf = Word - 1
  BY ReplyFacts
<1> HIDE DEF u
<1>2. PICK j \in Nat : j = k + n
  OBVIOUS
<1>3. AllData(u, k + 1, j) /\ k <= j /\ j <= Len(u)
  BY <1>2 DEF u
<1>4. DataUpTo(u, j) = DataUpTo(u, k) + (j - k)
  BY <1>3, DataRun
<1>5. DataUpTo(u, j) <= DataUpTo(u, Len(u))
  BY <1>1, <1>3, DataMore
<1>6. DataUpTo(u, k) \in Nat
  BY DataType
<1>7. j - k = n
  BY <1>2
<1>8. DataUpTo(u, k) + n = DataUpTo(u, k + n)
  BY <1>2, <1>4, <1>7
<1>9. DataUpTo(u, k) + n <= r.body
  BY <1>1, <1>4, <1>5, <1>7
<1>10. DataUpTo(u, k) + n < Inf
  <2> DEFINE D == DataUpTo(u, k) + n
  <2>1. D \in Nat /\ D <= r.body
    BY <1>6, <1>9
  <2> HIDE DEF D
  <2>2. D < Inf
    BY <1>1, <2>1
  <2> QED
    BY <2>2 DEF D
<1> QED
  BY <1>6, <1>8, <1>9, <1>10 DEF u

LEMMA DataTurn ==
    ASSUME NEW r, NEW h, NEW z, IsReply(r, h, z),
           NEW k, NEW p \in Parser, AtData(p, r, k, h),
           NEW b \in Seq(Unit), b # << >>, Follows(b, r.units, k),
           r.untilEof => k + Len(b) <= Len(r.units), NEW x
    PROVE  Turns(http_process_reply_bytes(p, b, x), r, k, h, z, b)
<1> DEFINE o == http_process_reply_bytes(p, b, x)
           u == r.units
<1>1. /\ u \in Seq(Unit) /\ Len(u) \in Nat /\ h \in Nat /\ h <= Len(u)
      /\ Word \in Nat /\ Inf = Word - 1 /\ r.body \in Nat /\ r.body < Inf
      /\ r.body = DataUpTo(u, Len(u))
  BY ReplyFacts
<1>2. /\ p.state = "S_REPLY_DATA" /\ p.line = << >>
      /\ k \in Nat /\ h <= k /\ k <= Len(u) /\ AllData(u, h + 1, Len(u))
      /\ p.got = DataUpTo(u, k)
      /\ ~ r.untilEof => k < Len(u)
      /\ p.content_length = IF r.untilEof THEN Inf ELSE r.body
  BY <1>1 DEF AtData
<1>3. o = parse_data(p, b)
  BY <1>2 DEF http_process_reply_bytes
<1>4. Len(b) \in Nat \ {0}
  OBVIOUS
<1>5. ASSUME NEW n \in Nat, k + n <= Len(u)
      PROVE  /\ DataUpTo(u, k + n) = p.got + n /\ p.got + n <= r.body /\ p.got \in Nat
             /\ p.got + n < Inf
  <2>1. AllData(u, k + 1, k + n)
    <3> SUFFICES ASSUME NEW j \in k + 1 .. k + n PROVE u[j][1] = "data"
      BY DEF AllData
    <3>1. j \in h + 1 .. Len(u)
      <4>1. h \in Nat /\ k \in Nat /\ h <= k /\ Len(u) \in Nat
        BY <1>1, <1>2
      <4> HIDE DEF u
      <4> QED
        BY <1>5, <4>1
    <3>2. AllData(u, h + 1, Len(u))
      BY <1>2
    <3> QED
      BY <3>1, <3>2 DEF AllData
  <2> QED
    BY <1>2, <1>5, <2>1, DataAhead
<1>5a. p.got \in Nat /\ p.got <= r.body
  <2>1. 0 \in Nat /\ k + 0 <= Len(u) /\ k + 0 = k
    BY <1>1, <1>2
  <2>2. p.got \in Nat /\ p.got + 0 <= r.body
    BY <1>5, <2>1
  <2> QED
    BY <2>2
<1> HIDE DEF u, o
<1>6. CASE r.untilEof
  <2>1. PICK d \in Nat \ {0} : d = Inf - p.got /\ p.got + d < Word
    <3>1. Inf - p.got \in Nat \ {0} /\ p.got + (Inf - p.got) < Word
      BY <1>1, <1>5a
    <3> QED
      BY <3>1
  <2>2. Needed(p) = d
    <3>1. p.content_length - p.got = d /\ d < Word /\ d \in Nat
      BY <1>1, <1>2, <1>5a, <1>6, <2>1
    <3>2. d % Word = d
      BY <1>1, <3>1, NoWrap
    <3> QED
      BY <3>1, <3>2 DEF Needed
  <2>3. k + Len(b) <= Len(u) /\ p.got + Len(b) < Inf /\ DataUpTo(u, k + Len(b)) = p.got + Len(b)
    <3>1. k + Len(b) <= Len(u)
      BY <1>6 DEF u
    <3>2. Len(b) \in Nat
      BY <1>4
    <3> QED
      BY <1>5, <3>1, <3>2
  <2>4. Len(b) < d
    BY <1>1, <1>4, <1>5a, <2>1, <2>3
  <2>5. PICK n \in 0 .. Len(b) :
          /\ n = IF Len(b) > d THEN d ELSE Len(b)
          /\ Body(p, b).s = [p EXCEPT !.got = p.got + n]
          /\ Body(p, b).s \in Parser
          /\ Body(p, b).rest = SubSeq(b, n + 1, Len(b))
    <3>1. BodyPart(p, b, d)
      BY <1>1, <2>1, <2>2, BodyTaken
    <3> QED
      BY <3>1 DEF BodyPart
  <2>6. n = Len(b)
    BY <1>4, <2>4, <2>5
  <2>7. o = Body(p, b)
    <3>1. ~ (Len(b) >= Needed(p))
      BY <1>4, <2>2, <2>4
    <3> QED
      BY <1>3, <3>1 DEF parse_data
  <2>8. /\ o.s.state = p.state /\ o.s.line = p.line /\ o.s.content_length = p.content_length
        /\ o.s.got = p.got + n /\ o.s \in Parser
    BY <2>5, <2>7 DEF Parser
  <2>9. AtData(o.s, r, k + n, h)
    <3>1. k + n \in h .. Len(u) /\ o.s.got = DataUpTo(u, k + n)
      BY <1>1, <1>2, <1>4, <2>3, <2>6, <2>8
    <3> QED
      BY <1>2, <1>6, <2>8, <3>1 DEF AtData, u
  <2>10. k + n <= Len(u)
    BY <2>3, <2>6
  <2> QED
    BY <2>5, <2>7, <2>8, <2>9, <2>10 DEF Turns, ParserAt, u, o
<1>7. CASE ~ r.untilEof
  <2>1. PICK d \in Nat \ {0} : d = Len(u) - k /\ k + d = Len(u)
    <3>1. Len(u) - k \in Nat \ {0} /\ k + (Len(u) - k) = Len(u)
      BY <1>1, <1>2, <1>7
    <3> QED
      BY <3>1
  <2>2. DataUpTo(u, k + d) = p.got + d /\ p.got + d <= r.body /\ p.got + d < Inf
    <3>1. d \in Nat /\ k + d <= Len(u)
      BY <1>1, <2>1
    <3> QED
      BY <1>5, <3>1
  <2>3. r.body = p.got + d
    BY <1>1, <2>1, <2>2
  <2>4. Needed(p) = d
    <3>1. p.content_length = p.got + d
      BY <1>2, <1>7, <2>3
    <3>2. p.content_length - p.got = d /\ d < Word /\ d \in Nat
      <4>1. p.content_length \in Nat
        BY DEF Parser
      <4>2. p.got + d < Inf
        BY <2>2
      <4> QED
        BY <1>1, <1>5a, <2>1, <3>1, <4>1, <4>2
    <3>3. d % Word = d
      BY <1>1, <3>2, NoWrap
    <3> QED
      BY <3>2, <3>3 DEF Needed
  <2>5. PICK n \in 0 .. Len(b) :
          /\ n = IF Len(b) > d THEN d ELSE Len(b)
          /\ Body(p, b).s = [p EXCEPT !.got = p.got + n]
          /\ Body(p, b).s \in Parser
          /\ Body(p, b).rest = SubSeq(b, n + 1, Len(b))
    <3>1. p.got + d < Word
      BY <1>1, <1>5a, <2>1, <2>2
    <3>2. BodyPart(p, b, d)
      BY <1>1, <2>4, <3>1, BodyTaken
    <3> QED
      BY <3>2 DEF BodyPart
  <2>6. n \in Nat /\ n <= d /\ k + n <= Len(u) /\ k + n \in Nat
    <3>1. n \in 0 .. Len(b) /\ n = IF Len(b) > d THEN d ELSE Len(b)
      BY <2>5
    <3>2. n \in Nat /\ n <= d
      BY <1>4, <3>1
    <3> QED
      BY <1>1, <1>2, <2>1, <3>2
  <2>7. DataUpTo(u, k + n) = p.got + n
    BY <1>5, <2>6
  <2> DEFINE q == Body(p, b).s
  <2>8. /\ q.state = p.state /\ q.line = p.line /\ q.content_length = p.content_length
        /\ q.got = p.got + n /\ q \in Parser
    BY <2>5 DEF Parser
  <2>9. CASE Len(b) >= d
    <3>1. n = d
      BY <1>4, <2>1, <2>5, <2>9
    <3>2. o = [Body(p, b) EXCEPT !.s.state = "S_REPLY_DONE"]
      BY <1>3, <2>4, <2>9 DEF parse_data
    <3>3. o.s = [q EXCEPT !.state = "S_REPLY_DONE"] /\ o.rest = Body(p, b).rest
      BY <3>2 DEF Body, Outcome
    <3> HIDE DEF q
    <3>4. o.s \in Parser /\ o.s.state = "S_REPLY_DONE" /\ o.s.got = q.got /\ o.s.line = q.line
      BY <2>8, <3>3 DEF Parser, ParserStates
    <3>5. AtEnd(o.s, r, k + n)
      BY <1>2, <2>1, <2>3, <2>8, <3>1, <3>4 DEF AtEnd, u
    <3> QED
      BY <2>5, <2>6, <3>3, <3>4, <3>5 DEF Turns, ParserAt, u, o
  <2>10. CASE ~ (Len(b) >= d)
    <3>1. n = Len(b) /\ n < d
      BY <1>4, <2>1, <2>5, <2>10
    <3>2. o = Body(p, b)
      BY <1>3, <2>4, <2>10 DEF parse_data
    <3>3. k + n \in h .. Len(u) /\ k + n < Len(u)
      <4>1. h \in Nat /\ k \in Nat /\ h <= k
        BY <1>1, <1>2
      <4>2. d \in Nat /\ k + d = Len(u) /\ n \in Nat /\ n < d
        BY <2>1, <2>6, <3>1
      <4> QED
        BY <4>1, <4>2
    <3>4. AtData(o.s, r, k + n, h)
      BY <1>2, <1>7, <2>7, <2>8, <3>2, <3>3 DEF AtData, u
    <3> QED
      BY <2>5, <2>6, <2>8, <3>2, <3>4 DEF Turns, ParserAt, u, o
  <2> QED
    BY <2>9, <2>10
<1> QED
  BY <1>6, <1>7

\* Inside a chunk: the parser stays there, or is before the line feed after it.
LEMMA ChunkData ==
    ASSUME NEW r, NEW h, NEW z, IsReply(r, h, z),
           NEW k, NEW p \in Parser, AtChunks(p, r.units, k, h, z), InChunk(p, r.units, k, z),
           NEW b \in Seq(Unit), b # << >>, Follows(b, r.units, k), NEW x
    PROVE  Turns(http_process_reply_bytes(p, b, x), r, k, h, z, b)
<1> DEFINE o == http_process_reply_bytes(p, b, x)
           u == r.units
<1>1. /\ u \in Seq(Unit) /\ Len(u) \in Nat /\ h \in Nat /\ z \in Nat /\ h <= z /\ z <= Len(u)
      /\ Word \in Nat /\ Inf = Word - 1
  BY ReplyFacts
<1>2. /\ p.state = "S_REPLY_CHUNKED" /\ ChunkedBody(u, h, z)
      /\ k \in Nat /\ h <= k /\ k < z /\ p.got = DataUpTo(u, k)
  BY <1>1 DEF AtChunks
<1>3. PICK d \in Nat \ {0} :
        /\ p.content_length = p.got + d /\ p.line = << >>
        /\ k + d + 2 < z /\ AllData(u, k + 1, k + d) /\ Line(u, k + d + 1, "blank", 0)
  BY DEF InChunk
<1>4. Len(b) \in Nat \ {0}
  OBVIOUS
<1>5. ASSUME NEW n \in Nat, n <= d
      PROVE  /\ k + n \in h .. z - 1 /\ k + n <= Len(u)
             /\ DataUpTo(u, k + n) = p.got + n /\ p.got \in Nat /\ p.got + n < Inf
  <2>1. k + n <= Len(u) /\ k + n \in h .. z - 1
    BY <1>1, <1>2, <1>3, <1>5
  <2>2. AllData(u, k + 1, k + n)
    BY <1>2, <1>3, <1>5 DEF AllData
  <2> QED
    BY <1>2, <2>1, <2>2, DataAhead
<1> HIDE DEF u, o
<1>6. p.got \in Nat /\ p.got + d < Inf
  BY <1>5
<1>7. Needed(p) = d /\ p.got < p.content_length /\ p.got + d < Word
  <2>1. p.content_length - p.got = d /\ p.got < p.content_length /\ d < Word /\ p.got + d < Word
    BY <1>1, <1>3, <1>6
  <2>2. d % Word = d
    BY <1>1, <2>1, NoWrap
  <2> QED
    BY <2>1, <2>2 DEF Needed
<1>8. o = Body(p, b)
  <2>1. o = xfer_chunked(p, b)
    BY <1>2 DEF http_process_reply_bytes, o
  <2>2. p.got < p.content_length /\ ~ (p.got >= p.content_length)
    <3>1. p.content_length \in Nat
      BY DEF Parser
    <3> QED
      BY <1>6, <1>7, <3>1
  <2> HIDE DEF o
  <2> QED
    BY <2>1, <2>2 DEF xfer_chunked
<1>9. PICK n \in 0 .. Len(b) :
        /\ n = IF Len(b) > d THEN d ELSE Len(b)
        /\ Body(p, b).s = [p EXCEPT !.got = p.got + n]
        /\ Body(p, b).s \in Parser
        /\ Body(p, b).rest = SubSeq(b, n + 1, Len(b))
  <2>1. BodyPart(p, b, d)
    BY <1>1, <1>7, BodyTaken
  <2> QED
    BY <2>1 DEF BodyPart
<1>10. n \in Nat /\ n <= d
  BY <1>4, <1>9
<1>11. /\ k + n \in h .. z - 1 /\ k + n <= Len(u) /\ k + n \in Nat
       /\ DataUpTo(u, k + n) = p.got + n
  BY <1>2, <1>5, <1>10
<1>12. /\ o.s.state = p.state /\ o.s.line = p.line /\ o.s.content_length = p.content_length
       /\ o.s.got = p.got + n /\ o.s \in Parser
  BY <1>8, <1>9 DEF Parser
<1>13. CASE n = d
  <2>1. o.s.content_length = o.s.got
    BY <1>3, <1>12, <1>13
  <2>2. o.s.line = SubSeq(u, (k + n) + 1, k + n)
    <3>1. SubSeq(u, (k + n) + 1, k + n) = << >>
      BY <1>1, <1>11
    <3> QED
      BY <1>3, <1>12, <3>1
  <2>3. Line(u, (k + n) + 1, "blank", 0)
    BY <1>3, <1>13
  <2>4. k + n \in h .. k + n /\ k + n \in {k + n, (k + n) + 1} /\ (k + n) + 2 <= z
    BY <1>1, <1>3, <1>11, <1>13
  <2>5. BetweenChunks(o.s, u, k + n, h, z)
    BY <2>1, <2>2, <2>3, <2>4 DEF BetweenChunks
  <2>6. AtChunks(o.s, u, k + n, h, z)
    BY <1>2, <1>11, <1>12, <2>5 DEF AtChunks
  <2> QED
    BY <1>8, <1>9, <1>11, <1>12, <2>6 DEF Turns, ParserAt, u, o
<1>14. CASE n < d
  <2>1. PICK e \in Nat \ {0} : n + e = d
    <3>1. d - n \in Nat \ {0} /\ n + (d - n) = d
      BY <1>10, <1>14
    <3> QED
      BY <3>1
  <2>2. o.s.content_length = o.s.got + e
    BY <1>3, <1>6, <1>10, <1>12, <2>1
  <2>3. (k + n) + e = k + d /\ (k + n) + e + 2 < z /\ (k + n) + e + 1 = k + d + 1
    BY <1>2, <1>3, <1>10, <2>1
  <2>4. AllData(u, (k + n) + 1, (k + n) + e)
    <3>1. (k + n) + 1 .. (k + n) + e \in SUBSET (k + 1 .. k + d)
      BY <1>2, <1>10, <2>3
    <3> QED
      BY <1>3, <3>1 DEF AllData
  <2>5. Line(u, (k + n) + e + 1, "blank", 0)
    BY <1>3, <2>3
  <2>6. InChunk(o.s, u, k + n, z)
    BY <1>3, <1>12, <2>2, <2>3, <2>4, <2>5 DEF InChunk
  <2>7. AtChunks(o.s, u, k + n, h, z)
    BY <1>2, <1>11, <1>12, <2>6 DEF AtChunks
  <2> QED
    BY <1>8, <1>9, <1>11, <1>12, <2>7 DEF Turns, ParserAt, u, o
<1> QED
  BY <1>10, <1>13, <1>14

\* No data in the footers: the body is what there is up to the last chunk.
LEMMA BodyBeforeFooters ==
    ASSUME NEW r, NEW h, NEW z, IsReply(r, h, z), ChunkedBody(r.units, h, z)
    PROVE  /\ z + 1 \in Nat \ {0} /\ Fields(r.units, z + 1, Len(r.units)) /\ z + 2 <= Len(r.units)
           /\ DataUpTo(r.units, z) = r.body
<1> DEFINE u == r.units
<1>1. /\ u \in Seq(Unit) /\ Len(u) \in Nat /\ z \in Nat /\ z <= Len(u)
      /\ r.body = DataUpTo(u, Len(u))
  BY ReplyFacts
<1>2. Fields(u, z + 1, Len(u))
  BY DEF ChunkedBody
<1> HIDE DEF u
<1>3. PICK a \in Nat \ {0} : a = z + 1
  BY <1>1
<1>4. /\ Len(u) > a /\ u[Len(u) - 1] = << "blank", 0, 1 >> /\ u[Len(u)] = << "blank", 0, 2 >>
      /\ \A k \in a .. Len(u) - 2 : u[k][1] \in {"length", "chunked", "other"}
  BY <1>1, <1>2, <1>3, LastOfFields
<1>5. NoData(u, z + 1, Len(u))
  <2> SUFFICES ASSUME NEW j \in z + 1 .. Len(u) PROVE u[j][1] # "data"
    BY DEF NoData
  <2>1. j \in a .. Len(u) - 2 \/ j = Len(u) - 1 \/ j = Len(u)
    BY <1>1, <1>3
  <2> QED
    BY <1>4, <2>1
<1>6. DataUpTo(u, Len(u)) = DataUpTo(u, z)
  BY <1>1, <1>5, DataNone
<1> QED
  BY <1>1, <1>2, <1>3, <1>4, <1>6 DEF u

\* The end of a line that says a size: the last one, or one before a chunk.
SizeSaid(u, z, q, v) ==
    /\ q + 2 = z => v = 0
    /\ q + 2 # z => /\ q + 2 <= z - 2 /\ v \in Nat \ {0} /\ (q + 2) + v + 2 < z
                    /\ AllData(u, (q + 2) + 1, (q + 2) + v)
                    /\ Line(u, (q + 2) + v + 1, "blank", 0)

LEMMA ChunkSize ==
    ASSUME NEW u \in Seq(Unit), NEW h \in Nat, NEW z \in Nat, ChunkedBody(u, h, z), z <= Len(u),
           NEW q \in Nat, h <= q, q + 2 <= z, NEW v, Line(u, q + 1, "size", v)
    PROVE  SizeSaid(u, z, q, v)
<1> DEFINE j == q + 2
<1>1. u[j] = << "size", v, 2 >>
  <2>1. (q + 1) + 1 = q + 2
    OBVIOUS
  <2> QED
    BY <2>1 DEF Line
<1>2. u[z - 1] = << "size", 0, 1 >> /\ u[z] = << "size", 0, 2 >>
  <2>1. (z - 1) + 1 = z
    OBVIOUS
  <2> QED
    BY <2>1 DEF ChunkedBody, Line
<1>3. j \in Nat /\ h + 1 < j /\ j <= z /\ j - 1 = q + 1 /\ Len(u) \in Nat
  OBVIOUS
<1>4. v \in Nat
  <2>1. u[j] \in Unit
    BY <1>3
  <2> QED
    BY <1>1, <2>1 DEF Unit
<1> HIDE DEF j
<1>5. CASE j = z
  BY <1>1, <1>2, <1>5 DEF j, SizeSaid
<1>6. CASE j # z
  <2>1. j # z - 1
    BY <1>1, <1>2
  <2>2. j <= z - 2 /\ j \in h + 1 .. z - 2
    BY <1>3, <1>6, <2>1
  <2>3. Chunks(u, h + 1, z - 2)
    BY DEF ChunkedBody
  <2>4. \/ Line(u, j, "blank", 0)
        \/ Line(u, j - 1, "blank", 0)
        \/ Line(u, j, "size", u[j][2])
        \/ LET n == u[j][2]
           IN  /\ n # 0 /\ j + n + 1 < z - 2
               /\ AllData(u, j + 1, j + n) /\ Line(u, j + n + 1, "blank", 0)
        \/ u[j][1] = "data"
    BY <2>2, <2>3 DEF Chunks
  <2>5. ~ Line(u, j, "blank", 0) /\ ~ Line(u, j, "size", u[j][2]) /\ u[j][1] # "data"
    BY <1>1 DEF Line
  <2>6. ~ Line(u, j - 1, "blank", 0)
    <3>1. u[j - 1] = << "size", v, 1 >>
      BY <1>3 DEF Line
    <3> QED
      BY <3>1 DEF Line
  <2>7. u[j][2] = v
    BY <1>1
  <2>8. v # 0 /\ j + v + 1 < z - 2 /\ AllData(u, j + 1, j + v) /\ Line(u, j + v + 1, "blank", 0)
    BY <2>4, <2>5, <2>6, <2>7
  <2>9. j + v + 2 < z
    BY <1>3, <1>4, <2>8
  <2> QED
    BY <1>4, <1>6, <2>2, <2>8, <2>9 DEF j, SizeSaid
<1> QED
  BY <1>5, <1>6

\* Between chunks: the line goes on, or it is over and there is another line,
\* a chunk, or, after the last chunk, the footers.
LEMMA ChunkLine ==
    ASSUME NEW r, NEW h, NEW z, IsReply(r, h, z),
           NEW k, NEW p \in Parser, AtChunks(p, r.units, k, h, z), BetweenChunks(p, r.units, k, h, z),
           NEW b \in Seq(Unit), b # << >>, Follows(b, r.units, k), NEW x
    PROVE  Turns(http_process_reply_bytes(p, b, x), r, k, h, z, b)
<1> DEFINE o == http_process_reply_bytes(p, b, x)
           u == r.units
           l == get_line(p, b)
           next == [p EXCEPT !.line = << >>]
<1>1. /\ u \in Seq(Unit) /\ Len(u) \in Nat /\ h \in Nat /\ z \in Nat /\ h >= 4 /\ h <= z /\ z <= Len(u)
      /\ Word \in Nat /\ Inf = Word - 1
  BY ReplyFacts
<1>2. /\ p.state = "S_REPLY_CHUNKED" /\ ChunkedBody(u, h, z)
      /\ k \in Nat /\ h <= k /\ k < z /\ p.got = DataUpTo(u, k)
  BY <1>1 DEF AtChunks
<1>3. PICK q \in h .. k :
        /\ k \in {q, q + 1} /\ q + 2 <= z /\ p.line = SubSeq(u, q + 1, k)
        /\ Line(u, q + 1, "blank", 0) \/ Line(u, q + 1, "size", u[q + 1][2])
  BY DEF BetweenChunks
<1>4. PICK c, v : Line(u, q + 1, c, v) /\ ((c = "blank" /\ v = 0) \/ c = "size")
  BY <1>3
<1>5. /\ q \in Nat /\ h <= q /\ q + 2 <= Len(u) /\ k <= q + 1
      /\ u[q + 1] = << c, v, 1 >> /\ u[q + 2] = << c, v, 2 >>
  <2>1. (q + 1) + 1 = q + 2
    BY <1>1
  <2> QED
    BY <1>1, <1>3, <1>4, <2>1 DEF Line
<1>6. p.content_length = p.got /\ p.got \in Nat
  BY DEF BetweenChunks, Parser
<1>7. PICK t \in 1 .. Len(b) :
        /\ l.rest = SubSeq(b, t + 1, Len(b))
        /\ \/ k + t = q + 1 /\ ~ l.complete /\ l.line = SubSeq(u, q + 1, k + t)
           \/ k + t = q + 2 /\ l.complete /\ Meaning(l.line) = << c, v >>
  <2>1. KnownTurn(u, q, k, c, v, b, get_line(p, b))
    BY <1>1, <1>3, <1>4, <1>5, KnownLine
  <2> HIDE DEF l
  <2> QED
    BY <2>1 DEF KnownTurn, l
<1>8. /\ next \in Parser /\ next.line = << >> /\ next.state = p.state /\ next.got = p.got
      /\ next.content_length = p.content_length
  <2>1. << >> \in Seq(Unit)
    OBVIOUS
  <2> QED
    BY <2>1 DEF Parser
<1> HIDE DEF u, l, o, next
<1>9. o = xfer_chunked(p, b)
  BY <1>2 DEF http_process_reply_bytes, o
<1>10. ~ (p.got < p.content_length) /\ p.got >= p.content_length
  BY <1>6
<1>11. t \in 0 .. Len(b) /\ t \in Nat /\ t >= 1
  OBVIOUS
<1>12. CASE k + t = q + 1 /\ ~ l.complete /\ l.line = SubSeq(u, q + 1, k + t)
  <2>1. o.s = [p EXCEPT !.line = l.line] /\ o.rest = l.rest
    BY <1>9, <1>10, <1>12 DEF xfer_chunked, Incomplete, Outcome, l
  <2>2. l.line \in Seq(Unit)
    <3>1. q + 1 <= Len(u) /\ q + 1 \in Nat
      BY <1>1, <1>5
    <3>2. SubSeq(u, q + 1, q + 1) \in Seq(Unit)
      BY <1>1, <3>1
    <3> QED
      BY <1>12, <3>2
  <2>3. /\ o.s \in Parser /\ o.s.state = p.state /\ o.s.got = p.got /\ o.s.line = l.line
        /\ o.s.content_length = p.content_length
    BY <2>1, <2>2 DEF Parser
  <2>4. DataUpTo(u, k + t) = p.got
    <3>1. k \in Nat /\ q + 1 \in Nat /\ k <= q + 1
      BY <1>2, <1>5
    <3>2. NoData(u, k + 1, q + 1)
      <4> SUFFICES ASSUME NEW j \in k + 1 .. q + 1 PROVE u[j][1] # "data"
        BY DEF NoData
      <4>1. j = q + 1
        BY <1>3, <3>1
      <4> QED
        BY <1>4, <1>5, <4>1
    <3> QED
      BY <1>2, <1>12, <3>1, <3>2, DataNone
  <2>5. k + t \in h .. z - 1 /\ k + t <= Len(u) /\ q \in h .. k + t /\ k + t \in {q, q + 1}
    BY <1>1, <1>3, <1>5, <1>12
  <2>6. BetweenChunks(o.s, u, k + t, h, z)
    BY <1>3, <1>6, <1>12, <2>3, <2>5 DEF BetweenChunks
  <2>7. AtChunks(o.s, u, k + t, h, z)
    BY <1>2, <2>3, <2>4, <2>5, <2>6 DEF AtChunks
  <2> QED
    BY <1>7, <1>11, <2>1, <2>3, <2>5, <2>7 DEF Turns, ParserAt, u, o
<1>13. CASE k + t = q + 2 /\ l.complete /\ Meaning(l.line) = << c, v >>
  <2> DEFINE m == q + 2
  <2>1. m \in Nat /\ m = k + t /\ k <= m /\ h <= m /\ m <= z /\ m <= Len(u) /\ h + 2 <= m
    BY <1>1, <1>2, <1>3, <1>5, <1>13
  <2>2. DataUpTo(u, m) = p.got
    <3>1. NoData(u, k + 1, m)
      <4> SUFFICES ASSUME NEW j \in k + 1 .. m PROVE u[j][1] # "data"
        BY DEF NoData
      <4>1. j = q + 1 \/ j = q + 2
        BY <1>2, <1>3, <1>5
      <4> QED
        BY <1>4, <1>5, <4>1
    <3> HIDE DEF m
    <3> QED
      BY <1>2, <2>1, <3>1, DataNone
  <2>3. u[z - 1] = << "size", 0, 1 >> /\ u[z] = << "size", 0, 2 >>
    <3>1. (z - 1) + 1 = z
      BY <1>1
    <3> QED
      BY <1>2, <3>1 DEF ChunkedBody, Line
  <2>4. o.rest = l.rest /\ (v = 0 /\ c = "size" => o.s = [next EXCEPT !.state = "S_REPLY_FOOTER"])
        /\ (c = "blank" => o.s = next)
        /\ (c = "size" /\ v # 0 => o.s = [next EXCEPT !.content_length = (@ + v) % Word])
    <3>1. Meaning(l.line)[1] = c /\ Meaning(l.line)[2] = v
      BY <1>13
    <3>2. CASE c = "blank"
      BY <1>9, <1>10, <1>13, <3>1, <3>2 DEF xfer_chunked, Outcome, l, next
    <3>3. CASE c = "size" /\ v = 0
      BY <1>9, <1>10, <1>13, <3>1, <3>3 DEF xfer_chunked, Outcome, l, next
    <3>4. CASE c = "size" /\ v # 0
      BY <1>9, <1>10, <1>13, <3>1, <3>4 DEF xfer_chunked, Outcome, l, next
    <3> QED
      BY <1>4, <3>2, <3>3, <3>4
  <2>5. CASE c = "blank"
    <3>1. o.s = next /\ v = 0
      BY <1>4, <2>4, <2>5
    <3>2. m \in h .. z - 2 /\ u[m] = << "blank", 0, 2 >>
      <4>1. u[m] = << "blank", 0, 2 >>
        BY <1>5, <2>5, <3>1
      <4> HIDE DEF m
      <4>2. m # z /\ m # z - 1
        BY <2>3, <4>1
      <4> QED
        BY <1>1, <2>1, <4>1, <4>2
    <3> HIDE DEF m
    <3>3. Line(u, m + 1, "blank", 0) \/ Line(u, m + 1, "size", u[m + 1][2])
      BY <1>1, <1>2, <3>2, ChunkNext
    <3>4. SubSeq(u, m + 1, m) = << >>
      BY <1>1, <2>1
    <3>5. m \in h .. m /\ m \in {m, m + 1} /\ m + 2 <= z /\ m \in h .. z - 1
      BY <1>1, <2>1, <3>2
    <3>6. BetweenChunks(next, u, m, h, z)
      BY <1>6, <1>8, <3>3, <3>4, <3>5 DEF BetweenChunks
    <3>7. AtChunks(next, u, m, h, z)
      BY <1>2, <1>8, <2>2, <3>5, <3>6 DEF AtChunks
    <3> QED
      BY <1>7, <1>8, <1>11, <2>1, <2>4, <3>1, <3>7 DEF Turns, ParserAt, u, o
  <2>6. CASE c = "size" /\ m = z
    <3>1. v = 0 /\ o.s = [next EXCEPT !.state = "S_REPLY_FOOTER"]
      <4>1. v = 0
        BY <1>5, <2>3, <2>6
      <4> QED
        BY <2>4, <2>6, <4>1
    <3>2. o.s \in Parser /\ o.s.state = "S_REPLY_FOOTER" /\ o.s.line = << >> /\ o.s.got = p.got
      BY <1>8, <3>1 DEF Parser, ParserStates
    <3>3. /\ z + 1 \in Nat \ {0} /\ Fields(u, z + 1, Len(u)) /\ z + 2 <= Len(u)
          /\ DataUpTo(u, z) = r.body
      BY <1>2, BodyBeforeFooters DEF u
    <3>4. LineAt(u, z + 1, z, << >>)
      <4>1. Opens(u, (z + 1) - 1) /\ (z + 1) - 1 = z
        BY <1>1, <3>3, FirstOpens
      <4>2. z <= Len(u) /\ (z + 1) - 1 <= z /\ Opens(u, z)
        BY <1>1, <4>1
      <4> QED
        BY <1>1, <3>3, <4>2, EmptyLine
    <3>5. z \in z .. Len(u) - 1 /\ o.s.got = r.body
      BY <1>1, <2>2, <2>6, <3>2, <3>3
    <3>6. AtFooters(o.s, r, z, h, z)
      BY <1>2, <3>2, <3>4, <3>5 DEF AtFooters, u
    <3>7. z = k + t
      BY <2>1, <2>6
    <3> HIDE DEF m
    <3>8. AtFooters(o.s, r, k + t, h, z) /\ k + t <= Len(r.units)
      BY <1>1, <3>6, <3>7 DEF u
    <3>9. o.rest = SubSeq(b, t + 1, Len(b))
      BY <1>7, <2>4
    <3>10. ParserAt(o.s, r, k + t, h, z)
      BY <3>8 DEF ParserAt
    <3>11. Turns(o, r, k, h, z, b)
      BY <1>11, <3>2, <3>8, <3>9, <3>10 DEF Turns
    <3> QED
      BY <3>11 DEF o
  <2>7. CASE c = "size" /\ m # z
    <3>1. /\ v \in Nat \ {0} /\ m + v + 2 < z /\ m <= z - 2
          /\ AllData(u, m + 1, m + v) /\ Line(u, m + v + 1, "blank", 0)
      <4>1. SizeSaid(u, z, q, v)
        <5>1. q + 2 <= z /\ Line(u, q + 1, "size", v)
          BY <1>3, <1>4, <2>7
        <5> HIDE DEF m
        <5> QED
          BY <1>1, <1>2, <1>5, <5>1, ChunkSize
      <4> QED
        BY <2>7, <4>1 DEF SizeSaid
    <3>2. o.s = [next EXCEPT !.content_length = (@ + v) % Word]
      BY <2>4, <2>7, <3>1
    <3> HIDE DEF m
    <3>3. p.got + v < Inf
      <4>1. m + v <= Len(u) /\ v \in Nat
        BY <1>1, <2>1, <3>1
      <4> QED
        BY <2>1, <2>2, <3>1, <4>1, DataAhead DEF u
    <3>4. (p.got + v) % Word = p.got + v /\ p.got + v \in Nat
      <4>1. p.got + v \in Nat /\ p.got + v < Word
        BY <1>1, <1>6, <3>1, <3>3
      <4> QED
        BY <1>1, <4>1, NoWrap
    <3>5. o.s = [next EXCEPT !.content_length = p.got + v]
      <4>1. (next.content_length + v) % Word = p.got + v
        BY <1>6, <1>8, <3>4
      <4> QED
        BY <3>2, <4>1
    <3>6. /\ o.s \in Parser /\ o.s.state = p.state /\ o.s.line = << >> /\ o.s.got = p.got
          /\ o.s.content_length = p.got + v
      BY <1>8, <3>4, <3>5 DEF Parser
    <3>7. InChunk(o.s, u, m, z)
      BY <3>1, <3>6 DEF InChunk
    <3>8. m \in h .. z - 1
      BY <1>1, <2>1, <3>1
    <3>9. AtChunks(o.s, u, m, h, z)
      BY <1>2, <2>2, <3>6, <3>7, <3>8 DEF AtChunks
    <3> QED
      BY <1>7, <1>11, <2>1, <2>4, <3>6, <3>9 DEF Turns, ParserAt, u, o
  <2> QED
    BY <1>4, <2>5, <2>6, <2>7
<1> QED
  BY <1>7, <1>12, <1>13

LEMMA ChunksTurn ==
    ASSUME NEW r, NEW h, NEW z, IsReply(r, h, z),
           NEW k, NEW p \in Parser, AtChunks(p, r.units, k, h, z),
           NEW b \in Seq(Unit), b # << >>, Follows(b, r.units, k), NEW x
    PROVE  Turns(http_process_reply_bytes(p, b, x), r, k, h, z, b)
<1>1. InChunk(p, r.units, k, z) \/ BetweenChunks(p, r.units, k, h, z)
  BY DEF AtChunks
<1>2. CASE InChunk(p, r.units, k, z)
  BY <1>2, ChunkData
<1>3. CASE BetweenChunks(p, r.units, k, h, z)
  BY <1>3, ChunkLine
<1> QED
  BY <1>1, <1>2, <1>3

-----------------------------------------------------------------------------
(***************************************************************************)
(* The footers, and all turns.                                             *)
(***************************************************************************)
LEMMA FootersTurn ==
    ASSUME NEW r, NEW h, NEW z, IsReply(r, h, z),
           NEW k, NEW p \in Parser, AtFooters(p, r, k, h, z),
           NEW b \in Seq(Unit), b # << >>, Follows(b, r.units, k), NEW x
    PROVE  Turns(http_process_reply_bytes(p, b, x), r, k, h, z, b)
<1> DEFINE o == http_process_reply_bytes(p, b, x)
           l == get_line(p, b)
           u == r.units
           e == Len(u)
           next == [p EXCEPT !.line = << >>]
<1>1. u \in Seq(Unit) /\ e \in Nat /\ z \in Nat /\ z <= e
  BY ReplyFacts
<1>2. /\ p.state = "S_REPLY_FOOTER" /\ ChunkedBody(u, h, z) /\ p.got = r.body
      /\ k \in Nat /\ z <= k /\ k < e /\ LineAt(u, z + 1, k, p.line)
  BY <1>1 DEF AtFooters
<1>3. o = parse_footers(p, b)
  BY <1>2 DEF http_process_reply_bytes
<1>4. PICK a \in Nat \ {0} : a = z + 1 /\ a - 1 = z
  BY <1>1
<1>5. Fields(u, a, e) /\ LineAt(u, a, k, p.line) /\ a - 1 <= k
  BY <1>2, <1>4 DEF ChunkedBody
<1>6. PICK t \in 1 .. Len(b) :
        /\ k + t <= e /\ l.rest = SubSeq(b, t + 1, Len(b))
        /\ Unfinished(u, a, e, k, t, l) \/ Other(u, e, k, t, l) \/ Known(u, e, k, t, l)
  <2>1. Follows(b, u, k)
    OBVIOUS
  <2> HIDE DEF u, l, e, next, o
  <2>2. e <= Len(u)
    BY <1>1 DEF e
  <2> QED
    BY <1>1, <1>2, <1>5, <2>1, <2>2, FieldLine DEF l
<1>7. /\ next \in Parser /\ next.state = p.state /\ next.got = p.got /\ next.line = << >>
  <2>1. << >> \in Seq(Unit)
    OBVIOUS
  <2> QED
    BY <2>1 DEF Parser
<1>8. t \in 0 .. Len(b) /\ t \in Nat /\ t >= 1
  OBVIOUS
<1> HIDE DEF u, l, o, next, e
<1>9. k + t <= Len(u) /\ k + t \in Nat /\ e = Len(u) /\ z <= k + t
  BY <1>1, <1>2, <1>6, <1>8 DEF e
<1>10. /\ u[e - 1] = << "blank", 0, 1 >> /\ u[e] = << "blank", 0, 2 >> /\ ~ Ended(u[e - 1])
       /\ \A j \in a .. e - 2 : u[j][1] \in {"length", "chunked", "other"}
  BY <1>1, <1>5, <1>9, LastOfFields
<1>11. ASSUME o.s \in Parser, o.s.state = p.state, o.s.got = p.got, o.rest = l.rest,
              k + t < e, LineAt(u, a, k + t, o.s.line)
       PROVE  Turns(o, r, k, h, z, b)
  <2>1. k + t \in z .. Len(u) - 1
    BY <1>1, <1>9, <1>11
  <2>2. AtFooters(o.s, r, k + t, h, z)
    BY <1>2, <1>4, <1>11, <2>1 DEF AtFooters, u
  <2> QED
    BY <1>6, <1>8, <1>9, <1>11, <2>2 DEF Turns, ParserAt, u
<1>12. ASSUME k + t < e, Opens(u, k + t)
       PROVE  LineAt(u, a, k + t, << >>)
  <2>1. a - 1 <= k + t
    BY <1>4, <1>9
  <2> QED
    BY <1>1, <1>9, <1>12, <2>1, EmptyLine
<1>13. CASE Unfinished(u, a, e, k, t, l)
  <2>1. ~ l.complete /\ k + t < e /\ LineAt(u, a, k + t, l.line)
    BY <1>13 DEF Unfinished
  <2>2. o.s = [p EXCEPT !.line = l.line] /\ o.rest = l.rest
    BY <1>3, <2>1 DEF parse_footers, Incomplete, Outcome, l
  <2>3. l.line \in Seq(Unit)
    BY <1>1, <1>4, <1>9, <2>1 DEF LineAt
  <2>4. o.s \in Parser /\ o.s.state = p.state /\ o.s.got = p.got /\ o.s.line = l.line
    BY <2>2, <2>3 DEF Parser
  <2> QED
    BY <1>11, <2>1, <2>2, <2>4 DEF o
<1>14. CASE Other(u, e, k, t, l)
  <2>1. l.complete /\ k + t < e /\ Opens(u, k + t) /\ Meaning(l.line)[1] # "blank"
    BY <1>14 DEF Other
  <2>2. o.s = next /\ o.rest = l.rest
    BY <1>3, <2>1 DEF parse_footers, Outcome, l, next
  <2> QED
    BY <1>7, <1>11, <1>12, <2>1, <2>2 DEF o
<1>15. CASE Known(u, e, k, t, l)
  <2>0. PICK m \in Nat : m = k + t
    BY <1>9
  <2>1. /\ l.complete /\ u[m][1] # "other" /\ Ended(u[m]) /\ Meaning(l.line)[1] = u[m][1]
        /\ m < e => Opens(u, m)
    BY <1>15, <2>0 DEF Known
  <2>2. CASE m = e
    <3>1. Meaning(l.line)[1] = "blank"
      BY <1>10, <2>1, <2>2
    <3>2. o.s = [next EXCEPT !.state = "S_REPLY_DONE"] /\ o.rest = l.rest
      BY <1>3, <2>1, <3>1 DEF parse_footers, Outcome, l, next
    <3>3. o.s \in Parser /\ o.s.state = "S_REPLY_DONE" /\ o.s.got = p.got /\ o.s.line = << >>
      BY <1>7, <3>2 DEF Parser, ParserStates
    <3>4. AtEnd(o.s, r, k + t)
      BY <1>2, <1>9, <2>0, <2>2, <3>3 DEF AtEnd, u
    <3> QED
      BY <1>6, <1>8, <1>9, <3>2, <3>3, <3>4 DEF Turns, ParserAt, u, o
  <2>3. CASE m # e
    <3>1. m < e
      BY <1>1, <1>6, <2>0, <2>3
    <3>2. m # e - 1
      BY <1>10, <2>1
    <3>3. a <= m /\ m \in a .. e - 2
      BY <1>1, <1>2, <1>4, <1>8, <2>0, <3>1, <3>2
    <3>4. Meaning(l.line)[1] # "blank"
      BY <1>10, <2>1, <3>3
    <3>5. o.s = next /\ o.rest = l.rest
      BY <1>3, <2>1, <3>4 DEF parse_footers, Outcome, l, next
    <3>6. k + t < e /\ Opens(u, k + t)
      BY <2>0, <2>1, <3>1
    <3> QED
      BY <1>7, <1>11, <1>12, <3>5, <3>6 DEF o
  <2> QED
    BY <2>2, <2>3
<1> QED
  BY <1>6, <1>13, <1>14, <1>15

\* Whatever part of the stream the buffer holds, one turn takes the parser to
\* where the units it has taken end.
LEMMA ParserTurn ==
    ASSUME NEW r, NEW h, NEW z, IsReply(r, h, z),
           NEW k, NEW p \in Parser, ParserAt(p, r, k, h, z), p.state # "S_REPLY_DONE",
           NEW b \in Seq(Unit), b # << >>, Follows(b, r.units, k),
           r.untilEof => k + Len(b) <= Len(r.units), NEW x
    PROVE  Turns(http_process_reply_bytes(p, b, x), r, k, h, z, b)
<1>1. CASE AtStatus(p, r.units, k)
  BY <1>1, StatusTurn
<1>2. CASE AtHeaders(p, r.units, k, h)
  BY <1>2, HeadersTurn
<1>3. CASE AtData(p, r, k, h)
  BY <1>3, DataTurn
<1>4. CASE AtChunks(p, r.units, k, h, z)
  BY <1>4, ChunksTurn
<1>5. CASE AtFooters(p, r, k, h, z)
  BY <1>5, FootersTurn
<1>6. ~ AtEnd(p, r, k)
  BY DEF AtEnd
<1> QED
  BY <1>1, <1>2, <1>3, <1>4, <1>5, <1>6 DEF ParserAt

-----------------------------------------------------------------------------
(***************************************************************************)
(* The inductive invariant: nothing has failed, the calls that are done    *)
(* are as they were sent, buffer and wire hold the rest of the stream, and *)
(* the parser is somewhere in the reply of the first pending call.         *)
(***************************************************************************)
Total == Len(AllUnits(sent))
Done == Len(answered)

Within(p, r, k) == k \in Nat /\ \E h, z : IsReply(r, h, z) /\ ParserAt(p, r, k, h, z)

SentInv ==
    /\ sent \in Seq(Replies) /\ Len(sent) = Pipelined
    /\ \A i \in 1 .. Pipelined - 1 : ~ sent[i].untilEof

StreamInv ==
    /\ wire \in Seq(Unit) /\ buf \in Seq(Unit) /\ Consumed \in Nat
    /\ \A j \in 1 .. Len(buf) : buf[j] = AllUnits(sent)[Consumed + j]
    /\ \A j \in 1 .. Len(wire) : wire[j] = AllUnits(sent)[Consumed + Len(buf) + j]

CallsInv ==
    /\ answered \in Seq([body : Nat, read : Nat]) /\ Done <= Pipelined
    /\ FramedAsSent

PlaceInv ==
    /\ failed = "no" /\ s \in Parser
    /\ Pending => Within(s, sent[Done + 1], Consumed - Len(UpTo(sent, Done)))
    /\ ~ Pending => s.state = "S_REPLY_STATUS" /\ Consumed = Total

IInv == SentInv /\ StreamInv /\ CallsInv /\ PlaceInv

LEMMA AreReplies ==
    ASSUME NEW rs \in Seq(Replies)
    PROVE  /\ Sequences(Unit, rs)
           /\ \A i \in 1 .. Len(rs) : \E h, z : IsReply(rs[i], h, z)
<1>1. \A r \in Replies : \E h, z : IsReply(r, h, z)
  BY RepliesAssumption
<1>2. \A i \in 1 .. Len(rs) : \E h, z : IsReply(rs[i], h, z)
  BY <1>1
<1>3. \A i \in 1 .. Len(rs) : rs[i].units \in Seq(Unit)
  BY <1>2 DEF IsReply
<1> QED
  BY <1>2, <1>3 DEF Sequences

LEMMA AllUnitsType ==
    ASSUME NEW rs \in Seq(Replies)
    PROVE  AllUnits(rs) \in Seq(Unit) /\ Len(AllUnits(rs)) \in Nat
<1>1. Sequences(Unit, rs)
  BY AreReplies
<1>2. UpTo(rs, Len(rs)) = AllUnits(rs) /\ Len(rs) \in 0 .. Len(rs)
  BY UpToAll
<1>3. UpTo(rs, Len(rs)) \in Seq(Unit)
  BY <1>1, <1>2, UpToType
<1> QED
  BY <1>2, <1>3

\* The first units of no reply are none.
LEMMA Begins ==
    ASSUME NEW rs \in Seq(Replies), NEW i \in Nat, i < Len(rs),
           NEW p \in Parser, p.state = "S_REPLY_STATUS", p.got = 0, p.line = << >>
    PROVE  Within(p, rs[i + 1], 0)
<1>1. i + 1 \in 1 .. Len(rs)
  OBVIOUS
<1>2. PICK h, z : IsReply(rs[i + 1], h, z)
  BY <1>1, AreReplies
<1>3. SubSeq(rs[i + 1].units, 1, 0) = << >>
  OBVIOUS
<1>4. AtStatus(p, rs[i + 1].units, 0)
  BY <1>3 DEF AtStatus
<1> QED
  BY <1>2, <1>4 DEF Within, ParserAt

LEMMA InitIInv == Init => IInv
<1> SUFFICES ASSUME Init PROVE IInv
  OBVIOUS
<1>1. Pipelined \in Nat \ {0}
  BY ReplyStreamAssumption
<1>2. SentInv
  <2>1. sent \in [1 .. Pipelined -> Replies] /\ \A i \in 1 .. Pipelined - 1 : ~ sent[i].untilEof
    BY DEF Init
  <2>2. sent \in Seq(Replies) /\ Len(sent) = Pipelined
    BY <1>1, <2>1
  <2> QED
    BY <2>1, <2>2 DEF SentInv
<1>3. AllUnits(sent) \in Seq(Unit) /\ Total \in Nat
  BY <1>2, AllUnitsType DEF SentInv, Total
<1>4. wire = AllUnits(sent) /\ buf = << >> /\ answered = << >> /\ failed = "no"
  BY DEF Init
<1>5. Consumed = 0
  <2>1. Len(wire) = Total /\ Len(buf) = 0 /\ Consumed = Total - Len(wire) - Len(buf)
    BY <1>4 DEF Consumed, Total
  <2> QED
    BY <1>3, <2>1
<1>6. StreamInv
  <2>1. buf \in Seq(Unit) /\ Len(buf) = 0
    BY <1>4
  <2> QED
    BY <1>3, <1>4, <1>5, <2>1 DEF StreamInv
<1>7. CallsInv /\ Done = 0
  BY <1>1, <1>4 DEF CallsInv, FramedAsSent, Done
<1>8. s \in Parser /\ s.state = "S_REPLY_STATUS" /\ s.got = 0 /\ s.line = << >>
  <2>1. << >> \in Seq(Unit)
    OBVIOUS
  <2> QED
    BY <2>1 DEF Init, Parser, ParserStates
<1>9. PlaceInv
  <2>1. Len(UpTo(sent, 0)) = 0
    BY <1>2, UpToNone DEF SentInv
  <2>2. 0 - 0 = 0 /\ 0 + 1 = 1 /\ 0 < Len(sent) /\ sent \in Seq(Replies)
    BY <1>1, <1>2 DEF SentInv
  <2>3. Within(s, sent[0 + 1], 0)
    BY <1>8, <2>2, Begins
  <2>4. Pending
    BY <1>1, <1>7 DEF Pending, Done
  <2> QED
    BY <1>4, <1>5, <1>7, <1>8, <2>1, <2>2, <2>3, <2>4 DEF PlaceInv
<1> QED
  BY <1>2, <1>6, <1>7, <1>9 DEF IInv

\* The reply of the first pending call, and where it is in the stream.
LEMMA Here ==
    ASSUME IInv
    PROVE  /\ Done \in Nat /\ Pipelined \in Nat \ {0} /\ Len(sent) = Pipelined /\ Total \in Nat
           /\ Consumed \in Nat /\ Len(buf) \in Nat /\ Len(wire) \in Nat
           /\ Consumed + Len(buf) + Len(wire) = Total
           /\ Pending => /\ Done < Len(sent) /\ Len(UpTo(sent, Done)) \in Nat
                         /\ Len(sent[Done + 1].units) \in Nat
                         /\ Len(UpTo(sent, Done + 1)) = Len(UpTo(sent, Done)) + Len(sent[Done + 1].units)
                         /\ Len(UpTo(sent, Done + 1)) <= Total
                         /\ Done + 1 = Len(sent) => Len(UpTo(sent, Done + 1)) = Total
                         /\ \A j \in 1 .. Len(sent[Done + 1].units) :
                               AllUnits(sent)[Len(UpTo(sent, Done)) + j] = sent[Done + 1].units[j]
                         /\ sent[Done + 1].untilEof => Done + 1 = Len(sent)
<1>1. /\ Done \in Nat /\ Pipelined \in Nat \ {0} /\ Len(sent) = Pipelined /\ sent \in Seq(Replies)
  BY ReplyStreamAssumption DEF IInv, SentInv, CallsInv, Done
<1>2. Total \in Nat /\ Consumed \in Nat /\ Len(buf) \in Nat /\ Len(wire) \in Nat
  BY <1>1, AllUnitsType DEF IInv, StreamInv, Total
<1>3. Consumed + Len(buf) + Len(wire) = Total
  <2>1. Consumed = Total - Len(wire) - Len(buf)
    BY DEF Consumed, Total
  <2> QED
    BY <1>2, <2>1
<1>4. ASSUME Pending
      PROVE  /\ Done < Len(sent) /\ Len(UpTo(sent, Done)) \in Nat
             /\ Len(sent[Done + 1].units) \in Nat
             /\ Len(UpTo(sent, Done + 1)) = Len(UpTo(sent, Done)) + Len(sent[Done + 1].units)
             /\ Len(UpTo(sent, Done + 1)) <= Total
             /\ Done + 1 = Len(sent) => Len(UpTo(sent, Done + 1)) = Total
             /\ \A j \in 1 .. Len(sent[Done + 1].units) :
                   AllUnits(sent)[Len(UpTo(sent, Done)) + j] = sent[Done + 1].units[j]
             /\ sent[Done + 1].untilEof => Done + 1 = Len(sent)
  <2>1. Done < Len(sent)
    BY <1>1, <1>4 DEF Pending, Done
  <2>2. Sequences(Unit, sent)
    BY <1>1, AreReplies
  <2> HIDE DEF Done
  <2>3. /\ UpTo(sent, Done) \in Seq(Unit)
        /\ Len(UpTo(sent, Done + 1)) = Len(UpTo(sent, Done)) + Len(sent[Done + 1].units)
        /\ Len(UpTo(sent, Done + 1)) <= Len(AllUnits(sent))
        /\ Done + 1 = Len(sent) => Len(UpTo(sent, Done + 1)) = Len(AllUnits(sent))
        /\ \A j \in 1 .. Len(sent[Done + 1].units) :
              AllUnits(sent)[Len(UpTo(sent, Done)) + j] = sent[Done + 1].units[j]
    <3>1. PICK i \in Nat : i = Done
      BY <1>1
    <3>2. i < Len(sent) /\ sent \in Seq(Replies)
      BY <1>1, <2>1, <3>1
    <3>3. /\ UpTo(sent, i) \in Seq(Unit) /\ UpTo(sent, i + 1) \in Seq(Unit)
          /\ AllUnits(sent) \in Seq(Unit)
          /\ Len(UpTo(sent, i + 1)) = Len(UpTo(sent, i)) + Len(sent[i + 1].units)
          /\ Len(UpTo(sent, i + 1)) <= Len(AllUnits(sent))
          /\ i + 1 = Len(sent) => Len(UpTo(sent, i + 1)) = Len(AllUnits(sent))
          /\ \A k \in 1 .. Len(sent[i + 1].units) :
                AllUnits(sent)[Len(UpTo(sent, i)) + k] = sent[i + 1].units[k]
      BY <2>2, <3>2, ReplyInStream
    <3> QED
      BY <3>1, <3>3
  <2>4. Len(UpTo(sent, Done)) \in Nat
    BY <2>3
  <2>5. sent[Done + 1].units \in Seq(Unit)
    <3>1. Done + 1 \in 1 .. Len(sent)
      BY <1>1, <2>1
    <3> QED
      BY <2>2, <3>1 DEF Sequences
  <2>6. Len(sent[Done + 1].units) \in Nat
    BY <2>5
  <2>7. ASSUME sent[Done + 1].untilEof PROVE Done + 1 = Len(sent)
    <3> SUFFICES ASSUME Done + 1 # Len(sent) PROVE FALSE
      OBVIOUS
    <3>1. Done + 1 \in 1 .. Pipelined - 1
      BY <1>1, <2>1
    <3> QED
      BY <2>7, <3>1 DEF IInv, SentInv
  <2> QED
    BY <2>1, <2>3, <2>4, <2>6, <2>7 DEF Total
<1> QED
  BY <1>1, <1>2, <1>3, <1>4

LEMMA ReadKeeps ==
    ASSUME IInv, NEW n \in 1 .. Len(wire), Read(n)
    PROVE  IInv'
<1>1. /\ Pending /\ buf = << >> /\ buf' = SubSeq(wire, 1, n)
      /\ wire' = SubSeq(wire, n + 1, Len(wire))
      /\ sent' = sent /\ s' = s /\ answered' = answered /\ failed' = failed
  BY DEF Read
<1>2. wire \in Seq(Unit) /\ Len(wire) \in Nat /\ n \in Nat /\ n <= Len(wire)
  BY DEF IInv, StreamInv
<1>3. /\ buf' \in Seq(Unit) /\ Len(buf') = n /\ \A j \in 1 .. n : buf'[j] = wire[j]
      /\ wire' \in Seq(Unit) /\ Len(wire') = Len(wire) - n
      /\ \A j \in 1 .. Len(wire) - n : wire'[j] = wire[n + j]
  BY <1>1, <1>2
<1>4. Total' = Total /\ Done' = Done /\ (Pending' <=> Pending)
  BY <1>1 DEF Total, Done, Pending
<1>5. Consumed' = Consumed /\ Consumed \in Nat /\ Len(buf) = 0
  <2>1. Consumed' = Total - Len(wire') - Len(buf') /\ Consumed = Total - Len(wire) - Len(buf)
    BY <1>1 DEF Consumed, Total
  <2>2. Len(buf) = 0
    BY <1>1
  <2> QED
    BY <1>2, <1>3, <2>1, <2>2, Here
<1>6. SentInv' /\ CallsInv'
  <2>1. SentInv /\ CallsInv
    BY DEF IInv
  <2> QED
    BY <1>1, <2>1 DEF SentInv, CallsInv, FramedAsSent, Done
<1>7. StreamInv'
  <2>1. \A j \in 1 .. Len(wire) : wire[j] = AllUnits(sent)[Consumed + j]
    BY <1>2, <1>5 DEF IInv, StreamInv
  <2>2. AllUnits(sent)' = AllUnits(sent)
    BY <1>1
  <2>3. ASSUME NEW j \in 1 .. n PROVE buf'[j] = AllUnits(sent)[Consumed + j]
    BY <1>2, <1>3, <2>1
  <2>4. ASSUME NEW j \in 1 .. Len(wire) - n PROVE wire'[j] = AllUnits(sent)[Consumed + n + j]
    <3>1. n + j \in 1 .. Len(wire) /\ Consumed + (n + j) = Consumed + n + j
      BY <1>2, <1>5
    <3> QED
      BY <1>3, <2>1, <3>1
  <2> QED
    BY <1>3, <1>5, <2>2, <2>3, <2>4 DEF StreamInv
<1>8. PlaceInv'
  <2>1. PlaceInv
    BY DEF IInv
  <2> QED
    BY <1>1, <1>4, <1>5, <2>1 DEF PlaceInv
<1> QED
  BY <1>6, <1>7, <1>8 DEF IInv

\* At the end of a reply that is not over, the reply is one that only the end
\* of the stream ends.
LEMMA EndOfStream ==
    ASSUME NEW r, NEW h, NEW z, IsReply(r, h, z), NEW p \in Parser, ParserAt(p, r, Len(r.units), h, z)
    PROVE  /\ p.state \in {"S_REPLY_DATA", "S_REPLY_DONE"}
           /\ p.line = << >> /\ p.got = r.body
<1>1. /\ Len(r.units) \in Nat /\ h \in Nat /\ h >= 4 /\ h <= Len(r.units)
      /\ z \in Nat /\ z <= Len(r.units) /\ r.body = DataUpTo(r.units, Len(r.units))
  BY ReplyFacts
<1>2. ~ AtStatus(p, r.units, Len(r.units))
  BY <1>1 DEF AtStatus
<1>3. ~ AtHeaders(p, r.units, Len(r.units), h)
  BY <1>1 DEF AtHeaders
<1>4. ~ AtChunks(p, r.units, Len(r.units), h, z)
  BY <1>1 DEF AtChunks
<1>5. ~ AtFooters(p, r, Len(r.units), h, z)
  BY <1>1 DEF AtFooters
<1>6. CASE AtData(p, r, Len(r.units), h)
  BY <1>1, <1>6 DEF AtData
<1>7. CASE AtEnd(p, r, Len(r.units))
  BY <1>7 DEF AtEnd
<1> QED
  BY <1>2, <1>3, <1>4, <1>5, <1>6, <1>7 DEF ParserAt

LEMMA ReadEofKeeps ==
    ASSUME IInv, ReadEof
    PROVE  IInv'
<1> DEFINE r == sent[Done + 1]
           k == Consumed - Len(UpTo(sent, Done))
<1>1. /\ Pending /\ buf = << >> /\ wire = << >> /\ s.state # "S_REPLY_DONE"
      /\ sent' = sent /\ wire' = wire /\ buf' = buf /\ answered' = answered
  BY DEF ReadEof
<1>2. Within(s, r, k) /\ s \in Parser /\ failed = "no"
  BY <1>1 DEF IInv, PlaceInv
<1>3. PICK h, z : IsReply(r, h, z) /\ ParserAt(s, r, k, h, z)
  BY <1>2 DEF Within
<1>4. k = Len(r.units)
  <2>1. Len(buf) = 0 /\ Len(wire) = 0
    BY <1>1
  <2>2. Consumed = Total /\ Total \in Nat
    BY <2>1, Here
  <2>3. /\ Len(UpTo(sent, Done)) \in Nat /\ Len(r.units) \in Nat
        /\ Len(UpTo(sent, Done)) + Len(r.units) <= Total
    BY <1>1, Here
  <2>4. k \in Nat /\ k <= Len(r.units)
    <3> HIDE DEF r, k
    <3>1. Len(r.units) \in Nat /\ h \in Nat /\ z \in Nat /\ h <= Len(r.units) /\ z <= Len(r.units) /\ h >= 4
      BY <1>3, ReplyFacts
    <3>2. k \in Nat
      BY <1>2 DEF Within
    <3>3. ~ (k > Len(r.units))
      BY <1>3, <3>1, <3>2 DEF ParserAt, AtStatus, AtHeaders, AtData, AtChunks, AtFooters, AtEnd
    <3> QED
      BY <3>1, <3>2, <3>3
  <2>5. k = Total - Len(UpTo(sent, Done))
    BY <2>2
  <2> HIDE DEF r, k
  <2> QED
    BY <2>2, <2>3, <2>4, <2>5
<1>5. s.state = "S_REPLY_DATA" /\ s.line = << >> /\ s.got = r.body
  <2> HIDE DEF r, k
  <2>1. ParserAt(s, r, Len(r.units), h, z)
    BY <1>3, <1>4
  <2> QED
    BY <1>1, <1>2, <1>3, <2>1, EndOfStream
<1>6. s' = [s EXCEPT !.state = "S_REPLY_DONE"] /\ failed' = failed
  BY <1>5 DEF ReadEof
<1>7. /\ s' \in Parser /\ s'.state = "S_REPLY_DONE" /\ s'.line = << >> /\ s'.got = r.body
  BY <1>2, <1>5, <1>6 DEF Parser, ParserStates
<1>8. Within(s', r, k)
  <2> HIDE DEF r, k
  <2>1. AtEnd(s', r, k)
    BY <1>4, <1>7 DEF AtEnd
  <2>2. k \in Nat
    BY <1>2 DEF Within
  <2> QED
    BY <1>3, <2>1, <2>2 DEF Within, ParserAt
<1>9. SentInv' /\ StreamInv' /\ CallsInv'
  <2>1. SentInv /\ StreamInv /\ CallsInv
    BY DEF IInv
  <2> QED
    BY <1>1, <2>1 DEF SentInv, StreamInv, CallsInv, FramedAsSent, Done, Consumed
<1>10. PlaceInv'
  <2>1. (Pending' <=> Pending) /\ Done' = Done /\ Consumed' = Consumed /\ sent' = sent
    BY <1>1 DEF Pending, Done, Consumed
  <2> QED
    BY <1>1, <1>2, <1>6, <1>7, <1>8, <2>1 DEF PlaceInv
<1> QED
  BY <1>9, <1>10 DEF IInv

LEMMA ProcessKeeps ==
    ASSUME IInv, Process
    PROVE  IInv'
<1> DEFINE r == sent[Done + 1]
           base == Len(UpTo(sent, Done))
           k == Consumed - base
           n == Len(buf)
<1>1. /\ buf # << >> /\ s.state # "S_REPLY_DONE"
      /\ sent' = sent /\ wire' = wire /\ answered' = answered
  BY DEF Process
<1>2. /\ buf \in Seq(Unit) /\ n \in Nat \ {0} /\ Consumed \in Nat
      /\ \A j \in 1 .. n : buf[j] = AllUnits(sent)[Consumed + j]
  BY <1>1 DEF IInv, StreamInv
<1>3. Pending
  <2> SUFFICES ASSUME ~ Pending PROVE FALSE
    OBVIOUS
  <2>1. Consumed = Total
    BY DEF IInv, PlaceInv
  <2>2. n \in Nat /\ Consumed + n + Len(wire) = Total /\ Total \in Nat /\ Len(wire) \in Nat
    BY Here
  <2> HIDE DEF n
  <2> QED
    BY <1>2, <2>1, <2>2
<1>4. Within(s, r, k) /\ s \in Parser /\ failed = "no"
  BY <1>3 DEF IInv, PlaceInv
<1>5. PICK h, z : IsReply(r, h, z) /\ ParserAt(s, r, k, h, z)
  BY <1>4 DEF Within
<1>6. PICK x : /\ s' = http_process_reply_bytes(s, buf, x).s
               /\ buf' = http_process_reply_bytes(s, buf, x).rest
               /\ failed' = failed
  BY <1>3 DEF Process
<1>7. /\ base \in Nat /\ Len(r.units) \in Nat /\ Total \in Nat /\ Len(wire) \in Nat
      /\ Consumed + n + Len(wire) = Total
      /\ \A j \in 1 .. Len(r.units) : AllUnits(sent)[base + j] = r.units[j]
      /\ r.untilEof => base + Len(r.units) = Total
  BY <1>3, Here
<1>8. k \in Nat /\ Consumed = base + k
  <2>1. k \in Nat
    BY <1>4 DEF Within
  <2> QED
    BY <1>2, <1>7, <2>1
<1> HIDE DEF r, base, k
<1>9. Follows(buf, r.units, k)
  <2> SUFFICES ASSUME NEW j \in 1 .. Len(buf), k + j <= Len(r.units) PROVE buf[j] = r.units[k + j]
    BY DEF Follows
  <2>1. k + j \in 1 .. Len(r.units) /\ Consumed + j = base + (k + j)
    BY <1>7, <1>8
  <2> QED
    BY <1>2, <1>7, <2>1
<1>10. ASSUME r.untilEof PROVE k + Len(buf) <= Len(r.units)
  BY <1>2, <1>7, <1>8, <1>10
<1>11. Turns(http_process_reply_bytes(s, buf, x), r, k, h, z, buf)
  BY <1>1, <1>2, <1>4, <1>5, <1>9, <1>10, ParserTurn
<1>12. PICK t \in 0 .. n :
         /\ buf' = SubSeq(buf, t + 1, n) /\ s' \in Parser /\ ParserAt(s', r, k + t, h, z)
  BY <1>6, <1>11 DEF Turns
<1>13. t \in Nat /\ t <= n
  BY <1>2
<1>14. buf' \in Seq(Unit) /\ Len(buf') = n - t /\ \A j \in 1 .. n - t : buf'[j] = buf[t + j]
  BY <1>2, <1>12, <1>13
<1> HIDE DEF n
<1>15. Consumed' = Consumed + t /\ Consumed + t \in Nat
  <2>1. Consumed' = Total - Len(wire) - Len(buf') /\ Consumed = Total - Len(wire) - n
    BY <1>1 DEF Consumed, Total, n
  <2>2. Len(buf') = n - t /\ n \in Nat /\ t \in Nat /\ Consumed \in Nat
        /\ Total \in Nat /\ Len(wire) \in Nat
    BY <1>2, <1>7, <1>13, <1>14
  <2> QED
    BY <2>1, <2>2
<1>16. SentInv' /\ CallsInv'
  <2>1. SentInv /\ CallsInv
    BY DEF IInv
  <2> QED
    BY <1>1, <2>1 DEF SentInv, CallsInv, FramedAsSent, Done
<1>17. StreamInv'
  <2>1. wire \in Seq(Unit) /\ \A j \in 1 .. Len(wire) : wire[j] = AllUnits(sent)[Consumed + n + j]
    BY DEF IInv, StreamInv, n
  <2>2. AllUnits(sent)' = AllUnits(sent)
    BY <1>1
  <2>3. ASSUME NEW j \in 1 .. n - t PROVE buf'[j] = AllUnits(sent)[Consumed + t + j]
    <3>1. t + j \in 1 .. n /\ Consumed + (t + j) = Consumed + t + j
      BY <1>2, <1>13
    <3> QED
      BY <1>2, <1>14, <3>1
  <2>4. (Consumed + t) + (n - t) = Consumed + n
    BY <1>2, <1>13
  <2> QED
    BY <1>1, <1>14, <1>15, <2>1, <2>2, <2>3, <2>4 DEF StreamInv
<1>18. PlaceInv'
  <2>1. (Pending' <=> Pending) /\ Done' = Done
    BY <1>1 DEF Pending, Done
  <2>2. Within(s', r, k + t)
    <3>1. k + t \in Nat
      BY <1>8, <1>13
    <3> QED
      BY <1>5, <1>12, <3>1 DEF Within
  <2>3. Consumed' - Len(UpTo(sent, Done)) = k + t
    <3>1. Consumed' = (base + k) + t
      BY <1>8, <1>15
    <3>2. ((base + k) + t) - base = k + t
      BY <1>7, <1>8, <1>13
    <3>3. Len(UpTo(sent, Done)) = base
      BY DEF base
    <3> QED
      BY <3>1, <3>2, <3>3
  <2> QED
    BY <1>1, <1>3, <1>4, <1>6, <1>12, <2>1, <2>2, <2>3 DEF PlaceInv, r
<1> QED
  BY <1>16, <1>17, <1>18 DEF IInv

LEMMA recv_doneKeeps ==
    ASSUME IInv, recv_done
    PROVE  IInv'
<1> DEFINE i == Done
           r == sent[i + 1]
           base == Len(UpTo(sent, i))
           k == Consumed - base
           entry == [body |-> s.got, read |-> Consumed]
<1>1. /\ s.state = "S_REPLY_DONE" /\ Pending /\ answered' = Append(answered, entry)
      /\ s' = [s EXCEPT !.state = "S_REPLY_STATUS", !.got = 0, !.status = 0]
      /\ sent' = sent /\ wire' = wire /\ buf' = buf /\ failed' = failed
  BY DEF recv_done
<1>2. /\ i \in Nat /\ i < Len(sent) /\ Len(sent) = Pipelined /\ sent \in Seq(Replies)
      /\ answered \in Seq([body : Nat, read : Nat]) /\ Len(answered) = i
      /\ failed = "no" /\ s \in Parser
  BY <1>1, Here DEF IInv, SentInv, CallsInv, PlaceInv, Done
<1>3. Within(s, r, k)
  BY <1>1 DEF IInv, PlaceInv
<1>4. PICK h, z : IsReply(r, h, z) /\ ParserAt(s, r, k, h, z)
  BY <1>3 DEF Within
<1>5. /\ base \in Nat /\ Len(r.units) \in Nat /\ Consumed \in Nat
      /\ Len(UpTo(sent, i + 1)) = base + Len(r.units)
      /\ i + 1 = Len(sent) => Len(UpTo(sent, i + 1)) = Total
  BY <1>1, Here
<1> HIDE DEF i, r, base, k, entry
<1>6. s.got = r.body /\ s.line = << >> /\ k = Len(r.units)
  BY <1>1, <1>4 DEF ParserAt, AtStatus, AtHeaders, AtData, AtChunks, AtFooters, AtEnd
<1>7. Consumed = Len(UpTo(sent, i + 1))
  BY <1>5, <1>6 DEF k
<1>8. /\ s' \in Parser /\ s'.state = "S_REPLY_STATUS" /\ s'.got = 0 /\ s'.line = << >>
  BY <1>1, <1>2, <1>6 DEF Parser, ParserStates
<1>9. entry \in [body : Nat, read : Nat] /\ entry.body = r.body /\ entry.read = Consumed
  <2>1. s.got \in Nat
    BY <1>2 DEF Parser
  <2> QED
    BY <1>5, <1>6, <2>1 DEF entry
<1>10. /\ answered' \in Seq([body : Nat, read : Nat]) /\ Len(answered') = i + 1
       /\ answered'[i + 1] = entry /\ \A j \in 1 .. i : answered'[j] = answered[j]
  BY <1>1, <1>2, <1>9
<1>11. Consumed' = Consumed /\ Total' = Total /\ Done' = i + 1
       /\ (Pending' <=> i + 1 < Pipelined)
  BY <1>1, <1>10 DEF Consumed, Total, Done, Pending
<1>12. SentInv' /\ StreamInv'
  <2>1. SentInv /\ StreamInv
    BY DEF IInv
  <2> QED
    BY <1>1, <1>11, <2>1 DEF SentInv, StreamInv
<1>13. CallsInv'
  <2>1. Done' <= Pipelined
    BY <1>2, <1>11
  <2>2. FramedAsSent'
    <3> SUFFICES ASSUME NEW j \in 1 .. i + 1
                 PROVE  /\ answered'[j].body = sent[j].body
                        /\ answered'[j].read = Len(UpTo(sent, j))
      BY <1>1, <1>10 DEF FramedAsSent, UpTo
    <3>1. CASE j = i + 1
      BY <1>7, <1>9, <1>10, <3>1 DEF r
    <3>2. CASE j # i + 1
      <4>1. j \in 1 .. i /\ j \in DOMAIN answered
        BY <1>2, <3>2
      <4>2. answered[j].body = sent[j].body /\ answered[j].read = Len(UpTo(sent, j))
        BY <4>1 DEF IInv, CallsInv, FramedAsSent, UpTo
      <4> QED
        BY <1>10, <4>1, <4>2
    <3> QED
      BY <3>1, <3>2
  <2> QED
    BY <1>10, <2>1, <2>2 DEF CallsInv
<1>14. PlaceInv'
  <2>1. CASE i + 1 < Pipelined
    <3>1. Within(s', sent[(i + 1) + 1], 0)
      BY <1>2, <1>8, <2>1, Begins
    <3>2. Consumed - Len(UpTo(sent, i + 1)) = 0
      BY <1>5, <1>7
    <3> QED
      BY <1>1, <1>2, <1>8, <1>11, <2>1, <3>1, <3>2 DEF PlaceInv
  <2>2. CASE ~ (i + 1 < Pipelined)
    <3>1. i + 1 = Len(sent)
      BY <1>2, <2>2
    <3>2. Consumed = Total
      BY <1>5, <1>7, <3>1
    <3> QED
      BY <1>1, <1>2, <1>8, <1>11, <2>2, <3>2 DEF PlaceInv
  <2> QED
    BY <2>1, <2>2
<1> QED
  BY <1>12, <1>13, <1>14 DEF IInv

LEMMA NextKeepsIInv == IInv /\ [do_recv]_vars => IInv'
<1> SUFFICES ASSUME IInv, [do_recv]_vars PROVE IInv'
  OBVIOUS
<1>1. ASSUME NEW n \in 1 .. Len(wire), Read(n) PROVE IInv'
  BY <1>1, ReadKeeps
<1>2. CASE ReadEof
  BY <1>2, ReadEofKeeps
<1>3. CASE Process
  BY <1>3, ProcessKeeps
<1>4. CASE recv_done
  BY <1>4, recv_doneKeeps
<1>5. CASE UNCHANGED vars
  BY <1>5 DEF vars, IInv, SentInv, StreamInv, CallsInv, PlaceInv, FramedAsSent, Pending, Consumed,
              Total, Done
<1> QED
  BY <1>1, <1>2, <1>3, <1>4, <1>5 DEF do_recv

\* The inductive invariant is one.
THEOREM ReplyStreamIInv == Spec => []IInv
<1>1. Init => IInv
  BY InitIInv
<1>2. IInv /\ [do_recv]_vars => IInv'
  BY NextKeepsIInv
<1> QED
  BY <1>1, <1>2, PTL DEF Spec

\* Whatever the servers send that keeps to HTTP/1.1 in lines that fit into
\* line_buf, however many requests are pending and wherever the reads cut the
\* stream: http.c gives each call the body of its own reply, and recv_done is
\* reached when every unit up to the end of that reply has been taken and none
\* after it.
THEOREM RepliesFramedAsSent == Spec => []FramedAsSent
<1>1. IInv => FramedAsSent
  BY DEF IInv, CallsInv
<1> QED
  BY <1>1, ReplyStreamIInv, PTL

\* The assertion of do_recv holds for the same replies: there is a pending call
\* for what is left in the buffer, as a reply takes no byte of the next and leaves
\* none of its own.
THEOREM RepliesHaveACall == Spec => []BytesHaveACall
<1>1. IInv => BytesHaveACall
  BY DEF IInv, PlaceInv, BytesHaveACall
<1> QED
  BY <1>1, ReplyStreamIInv, PTL
=============================================================================
