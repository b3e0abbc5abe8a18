---------------------------- MODULE PaperProofs ----------------------------
(***************************************************************************)
(* What is printed fits the paper, and what is drawn its card, whatever    *)
(* rows, orders and notes there are: not only those the runs go through.   *)
(***************************************************************************)
EXTENDS MCDesk, ReportsProofs

-----------------------------------------------------------------------------
(* What is built step by step.                                             *)

(* g[i] is what there is after step i.                                     *)
Steps(g, n, base, D) == g[0] = base /\ \A i \in 1 .. n : g[i] = D[i][g[i - 1]]

LEMMA StepsExist ==
    ASSUME NEW n \in Nat, NEW T, NEW base \in T, NEW D,
           \A i \in 1 .. n, v \in T : D[i][v] \in T
    PROVE  \E g \in [0 .. n -> T] : Steps(g, n, base, D)
<1> DEFINE P == {m \in Nat : m <= n => \E g \in [0 .. m -> T] : Steps(g, m, base, D)}
<1>1. 0 \in P
  <2> DEFINE g == [i \in 0 .. 0 |-> base]
  <2>1. g \in [0 .. 0 -> T] /\ Steps(g, 0, base, D)
    BY DEF Steps
  <2> QED
    BY <2>1
<1>2. ASSUME NEW m \in P
      PROVE  m + 1 \in P
  <2>0. m \in Nat /\ m + 1 \in Nat
    OBVIOUS
  <2>1. SUFFICES ASSUME m + 1 <= n
                 PROVE  \E g \in [0 .. m + 1 -> T] : Steps(g, m + 1, base, D)
    BY <2>0
  <2>2. PICK g \in [0 .. m -> T] : Steps(g, m, base, D)
    BY <2>0, <2>1
  <2> DEFINE h == [i \in 0 .. m + 1 |-> IF i <= m THEN g[i] ELSE D[i][g[m]]]
  <2>3. g[m] \in T /\ m + 1 \in 1 .. n
    BY <2>0, <2>1
  <2>4. D[m + 1][g[m]] \in T
    BY <2>3
  <2>5. h \in [0 .. m + 1 -> T]
    BY <2>0, <2>4
  <2>6. ASSUME NEW i \in 1 .. m + 1
        PROVE  h[i] = D[i][h[i - 1]]
    <3>1. i \in 0 .. m + 1 /\ i - 1 \in 0 .. m + 1 /\ i - 1 <= m /\ i - 1 \in 0 .. m
      BY <2>0
    <3>2. h[i - 1] = g[i - 1]
      BY <3>1
    <3>3. CASE i <= m
      <4>1. i \in 1 .. m /\ h[i] = g[i]
        BY <2>0, <3>1, <3>3
      <4> QED
        BY <2>2, <3>2, <4>1 DEF Steps
    <3>4. CASE ~(i <= m)
      <4>1. i = m + 1 /\ i - 1 = m
        BY <2>0, <3>4
      <4> QED
        BY <3>1, <3>2, <3>4, <4>1
    <3> QED
      BY <3>3, <3>4
  <2>7. h[0] = base
    BY <2>0, <2>2 DEF Steps
  <2> HIDE DEF h
  <2> QED
    BY <2>5, <2>6, <2>7 DEF Steps
<1>3. P = Nat
  <2>1. P \in SUBSET Nat
    OBVIOUS
  <2> HIDE DEF P
  <2> QED
    BY <1>1, <1>2, <2>1, Induct
<1> QED
  BY <1>3

\* What holds of the first stage, and of the next one of each it holds of,
\* holds of all of them.
LEMMA StagesInduct ==
    ASSUME NEW n \in Nat, NEW G, 0 \in G, \A i \in 1 .. n : i - 1 \in G => i \in G
    PROVE  0 .. n \subseteq G
<1> DEFINE P == {m \in Nat : m <= n => m \in G}
<1>1. 0 \in P
  OBVIOUS
<1>2. ASSUME NEW m \in P
      PROVE  m + 1 \in P
  <2>1. m \in Nat /\ m + 1 \in Nat /\ (m + 1) - 1 = m
    OBVIOUS
  <2>2. m + 1 <= n => m + 1 \in 1 .. n /\ m \in G
    BY <2>1
  <2> QED
    BY <2>1, <2>2
<1>3. P = Nat
  <2>1. P \in SUBSET Nat
    OBVIOUS
  <2> HIDE DEF P
  <2> QED
    BY <1>1, <1>2, <2>1, Induct
<1> QED
  BY <1>3

LEMMA Appended ==
    ASSUME NEW T, NEW s \in Seq(T), NEW x \in T
    PROVE  /\ Append(s, x) \in Seq(T) /\ Len(Append(s, x)) = Len(s) + 1
           /\ Append(s, x)[Len(s) + 1] = x
           /\ \A j \in 1 .. Len(s) : Append(s, x)[j] = s[j]
OBVIOUS

LEMMA LastPut ==
    ASSUME NEW T, NEW s \in Seq(T), NEW x \in T, Len(s) > 0, NEW r,
           r = [s EXCEPT ![Len(s)] = x]
    PROVE  /\ r \in Seq(T) /\ Len(r) = Len(s)
           /\ r[Len(s)] = x
           /\ \A j \in 1 .. Len(s) - 1 : r[j] = s[j]
OBVIOUS

-----------------------------------------------------------------------------
(* Notes.                                                                  *)

Upto(lines, k) == UNION {lines[j] : j \in 1 .. k}

(* The first i words, in lines that follow each other.                     *)
Wrapped(lines, i, lens) ==
    /\ lines \in Seq(SUBSET Nat)
    /\ \A k \in 1 .. Len(lines) :
          \/ Length(lines[k], lens, 1) <= 76
          \/ Cardinality(lines[k]) = 1
    /\ \A k \in 0 .. Len(lines) : \E e \in 0 .. i : Upto(lines, k) = 1 .. e
    /\ Upto(lines, Len(lines)) = 1 .. i

LEMMA LongerLine ==
    ASSUME NEW lens \in Seq(Nat), NEW i \in 1 .. Len(lens),
           NEW line \in SUBSET (1 .. i - 1)
    PROVE  Length(line \cup {i}, lens, 1) = Length(line, lens, 1) + 1 + lens[i]
<1> DEFINE A == line \cup {i}
           S == 1 .. i
<1>1. i \in Nat /\ IsFiniteSet(S) /\ A \in SUBSET S /\ i \in A /\ i \notin line /\ A \ {i} = line
  <2>1. i \in Nat /\ i \notin line
    OBVIOUS
  <2>2. IsFiniteSet(S)
    BY <2>1, FS_Interval
  <2> QED
    BY <2>1, <2>2
<1>2. Ints(lens, S)
  BY <1>1 DEF Ints
<1>3. Total(lens, A) = lens[i] + Total(lens, line) /\ Total(lens, line) \in Int
  <2>1. line \in SUBSET S
    BY <1>1
  <2>2. Ints(lens, A)
    BY <1>1, <1>2, IntsInside
  <2> HIDE DEF A, S
  <2>3. Total(lens, A) = lens[i] + Total(lens, A \ {i})
    BY <1>1, <2>2, TotalIs
  <2> QED
    BY <1>1, <1>2, <2>1, <2>3, TotalStep
<1>4. IsFiniteSet(line) /\ Cardinality(line) \in Nat /\ Cardinality(A) = Cardinality(line) + 1
  <2>1. IsFiniteSet(line)
    BY <1>1, FS_Subset
  <2> QED
    BY <1>1, <2>1, FS_AddElement, FS_CardinalityType
<1>5. lens[i] \in Nat
  OBVIOUS
<1> HIDE DEF A
<1>6. Total(lens, A) + 1 * (Cardinality(A) - 1)
        = Total(lens, line) + 1 * (Cardinality(line) - 1) + 1 + lens[i]
  BY <1>3, <1>4, <1>5
<1> QED
  BY <1>6 DEF Length, Total, A

LEMMA WrapsOne ==
    ASSUME NEW lens \in Seq(Nat), NEW i \in 1 .. Len(lens), NEW lines,
           Wrapped(lines, i - 1, lens)
    PROVE  Wrapped(AddTo(lines, i, lens, 1, 76), i, lens)
<1> DEFINE k == Len(lines)
           more == AddTo(lines, i, lens, 1, 76)
<1>0. i \in Nat /\ i - 1 \in Nat /\ k \in Nat /\ lines \in Seq(SUBSET Nat) /\ i \in 1 .. i
      /\ 1 .. i = (1 .. i - 1) \cup {i}
  BY DEF Wrapped
<1>1. CASE k > 0 /\ Length(lines[k], lens, 1) + 1 + lens[i] <= 76
  <2>1. more = [lines EXCEPT ![k] = lines[k] \cup {i}]
    BY <1>1 DEF AddTo
  <2>2. k \in 1 .. Len(lines) /\ lines[k] \in SUBSET Nat
    BY <1>0, <1>1
  <2>3. more \in Seq(SUBSET Nat) /\ Len(more) = k /\ more[k] = lines[k] \cup {i}
        /\ \A j \in 1 .. k - 1 : more[j] = lines[j]
    <3> DEFINE T == SUBSET Nat
               x == lines[k] \cup {i}
    <3>1. x \in T /\ lines \in Seq(T) /\ Len(lines) > 0
      BY <1>0, <1>1, <2>2
    <3>2. more = [lines EXCEPT ![Len(lines)] = x]
      BY <2>1
    <3> HIDE DEF T, x, more
    <3>3. more \in Seq(T) /\ Len(more) = Len(lines) /\ more[Len(lines)] = x
          /\ \A j \in 1 .. Len(lines) - 1 : more[j] = lines[j]
      BY <3>1, <3>2, LastPut
    <3> QED
      BY <3>3 DEF T, x
  <2>4. lines[k] \in SUBSET (1 .. i - 1)
    BY <2>2 DEF Wrapped, Upto
  <2>5. Length(more[k], lens, 1) <= 76
    BY <1>1, <2>3, <2>4, LongerLine
  <2>6. \A j \in 1 .. Len(more) : Length(more[j], lens, 1) <= 76 \/ Cardinality(more[j]) = 1
    <3>1. \A j \in 1 .. k : Length(lines[j], lens, 1) <= 76 \/ Cardinality(lines[j]) = 1
      BY DEF Wrapped
    <3> SUFFICES ASSUME NEW j \in 1 .. Len(more)
                 PROVE  Length(more[j], lens, 1) <= 76 \/ Cardinality(more[j]) = 1
      OBVIOUS
    <3> HIDE DEF more, k
    <3>2. j = k \/ (j \in 1 .. k - 1 /\ j \in 1 .. k)
      BY <1>0, <2>3
    <3> QED
      BY <2>3, <2>5, <3>1, <3>2
  <2>7. Upto(more, k) = Upto(lines, k) \cup {i}
    <3>1. 1 .. k = (1 .. k - 1) \cup {k}
      BY <1>0, <2>2
    <3>2. {more[j] : j \in 1 .. k} = {lines[j] : j \in 1 .. k - 1} \cup {lines[k] \cup {i}}
      <4> HIDE DEF more
      <4> QED
        BY <2>3, <3>1
    <3>3. {lines[j] : j \in 1 .. k} = {lines[j] : j \in 1 .. k - 1} \cup {lines[k]}
      BY <3>1
    <3>4. \A X, a : UNION (X \cup {a \cup {i}}) = (UNION (X \cup {a})) \cup {i}
      OBVIOUS
    <3> DEFINE X == {lines[j] : j \in 1 .. k - 1}
               N == {more[j] : j \in 1 .. k}
               O == {lines[j] : j \in 1 .. k}
    <3>5. N = X \cup {lines[k] \cup {i}} /\ O = X \cup {lines[k]}
      BY <3>2, <3>3
    <3> HIDE DEF X, N, O
    <3>6. UNION N = (UNION O) \cup {i}
      BY <3>4, <3>5, Zenon
    <3> QED
      BY <3>6 DEF Upto, N, O
  <2>8. Upto(more, k) = 1 .. i
    BY <1>0, <2>7 DEF Wrapped
  <2>9. ASSUME NEW j \in 0 .. k
        PROVE  \E e \in 0 .. i : Upto(more, j) = 1 .. e
    <3>1. CASE j = k
      BY <1>0, <2>8, <3>1
    <3>2. CASE j # k
      <4>1. \A h \in 1 .. j : more[h] = lines[h]
        BY <1>0, <2>3, <3>2
      <4>2. Upto(more, j) = Upto(lines, j)
        BY <4>1 DEF Upto
      <4>3. PICK e \in 0 .. i - 1 : Upto(lines, j) = 1 .. e
        BY DEF Wrapped
      <4>4. e \in 0 .. i
        BY <1>0
      <4> QED
        BY <4>2, <4>3, <4>4
    <3> QED
      BY <3>1, <3>2
  <2>10. Wrapped(more, i, lens)
    <3> HIDE DEF more
    <3> QED
      BY <2>3, <2>6, <2>8, <2>9 DEF Wrapped
  <2> QED
    BY <2>10
<1>2. CASE ~(k > 0 /\ Length(lines[k], lens, 1) + 1 + lens[i] <= 76)
  <2>1. more = Append(lines, {i})
    BY <1>2 DEF AddTo
  <2>2. {i} \in SUBSET Nat
    BY <1>0
  <2>3. more \in Seq(SUBSET Nat) /\ Len(more) = k + 1 /\ more[k + 1] = {i}
        /\ \A j \in 1 .. k : more[j] = lines[j]
    <3> DEFINE T == SUBSET Nat
               x == {i}
    <3>1. x \in T /\ lines \in Seq(T)
      BY <1>0, <2>2
    <3>2. more = Append(lines, x)
      BY <2>1
    <3> HIDE DEF T, x, more
    <3>3. more \in Seq(T) /\ Len(more) = Len(lines) + 1 /\ more[Len(lines) + 1] = x
          /\ \A j \in 1 .. Len(lines) : more[j] = lines[j]
      BY <3>1, <3>2, Appended
    <3> QED
      BY <3>3 DEF T, x
  <2>4. Cardinality(more[k + 1]) = 1
    BY <2>3, FS_Singleton
  <2>5. \A j \in 1 .. Len(more) : Length(more[j], lens, 1) <= 76 \/ Cardinality(more[j]) = 1
    <3> SUFFICES ASSUME NEW j \in 1 .. Len(more)
                 PROVE  Length(more[j], lens, 1) <= 76 \/ Cardinality(more[j]) = 1
      OBVIOUS
    <3>1. j = k + 1 \/ (j \in 1 .. k /\ more[j] = lines[j])
      BY <1>0, <2>3
    <3> HIDE DEF more
    <3> QED
      BY <2>4, <3>1 DEF Wrapped
  <2>6. Upto(more, k + 1) = Upto(lines, k) \cup {i}
    <3>1. 1 .. k + 1 = (1 .. k) \cup {k + 1}
      BY <1>0
    <3>2. {more[j] : j \in 1 .. k + 1} = {lines[j] : j \in 1 .. k} \cup {{i}}
      <4> HIDE DEF more, k
      <4> QED
        BY <2>3, <3>1
    <3> QED
      BY <3>2 DEF Upto
  <2>7. Upto(more, k + 1) = 1 .. i
    BY <1>0, <2>6 DEF Wrapped
  <2>8. ASSUME NEW j \in 0 .. k + 1
        PROVE  \E e \in 0 .. i : Upto(more, j) = 1 .. e
    <3>1. CASE j = k + 1
      BY <1>0, <2>7, <3>1
    <3>2. CASE j # k + 1
      <4>1. j \in 0 .. k /\ \A h \in 1 .. j : more[h] = lines[h]
        BY <1>0, <2>3, <3>2
      <4>2. Upto(more, j) = Upto(lines, j)
        BY <4>1 DEF Upto
      <4>3. PICK e \in 0 .. i - 1 : Upto(lines, j) = 1 .. e
        BY <4>1 DEF Wrapped
      <4>4. e \in 0 .. i
        BY <1>0
      <4> QED
        BY <4>2, <4>3, <4>4
    <3> QED
      BY <3>1, <3>2
  <2>9. Wrapped(more, i, lens)
    <3> HIDE DEF more
    <3> QED
      BY <2>3, <2>5, <2>7, <2>8 DEF Wrapped
  <2> QED
    BY <2>9
<1> QED
  BY <1>1, <1>2

LEMMA AddToTyped ==
    ASSUME NEW lens \in Seq(Nat), NEW i \in 1 .. Len(lens), NEW lines \in Seq(SUBSET Nat)
    PROVE  AddTo(lines, i, lens, 1, 76) \in Seq(SUBSET Nat)
<1> DEFINE T == SUBSET Nat
           more == AddTo(lines, i, lens, 1, 76)
<1>1. {i} \in T /\ lines \in Seq(T)
  OBVIOUS
<1>2. CASE Len(lines) > 0 /\ Length(lines[Len(lines)], lens, 1) + 1 + lens[i] <= 76
  <2> DEFINE x == lines[Len(lines)] \cup {i}
  <2>1. more = [lines EXCEPT ![Len(lines)] = x]
    BY <1>2 DEF AddTo
  <2>2. x \in T
    <3>1. Len(lines) \in 1 .. Len(lines)
      BY <1>2
    <3> QED
      BY <3>1
  <2> HIDE DEF T, x, more
  <2>3. more \in Seq(T)
    BY <1>1, <1>2, <2>1, <2>2, LastPut
  <2> QED
    BY <2>3 DEF T, more
<1>3. CASE ~(Len(lines) > 0 /\ Length(lines[Len(lines)], lens, 1) + 1 + lens[i] <= 76)
  <2>1. more = Append(lines, {i})
    BY <1>3 DEF AddTo
  <2> HIDE DEF T, more
  <2>2. more \in Seq(T)
    BY <1>1, <2>1, Appended
  <2> QED
    BY <2>2 DEF T, more
<1> QED
  BY <1>2, <1>3

LEMMA WrapIs ==
    ASSUME NEW lens \in Seq(Nat)
    PROVE  Wrapped(Wrap(lens, 1, 76), Len(lens), lens)
<1> DEFINE n == Len(lens)
           T == Seq(SUBSET Nat)
           Made(f) == f = [i \in 0 .. n |->
                             IF i = 0 THEN <<>> ELSE AddTo(f[i - 1], i, lens, 1, 76)]
           upTo == CHOOSE f : Made(f)
           D == [i \in 1 .. n |-> [v \in T |-> AddTo(v, i, lens, 1, 76)]]
<1>0. n \in Nat
  OBVIOUS
<1>1. Wrap(lens, 1, 76) = upTo[n]
  BY DEF Wrap
<1>2. \E f : Made(f)
  <2>1. \A i \in 1 .. n, v \in T : D[i][v] \in T
    BY AddToTyped
  <2>2. <<>> \in T
    OBVIOUS
  <2>3. PICK g \in [0 .. n -> T] : Steps(g, n, <<>>, D)
    <3> HIDE DEF n, T, D
    <3> QED
      BY <1>0, <2>1, <2>2, StepsExist
  <2>4. \A i \in 1 .. n : i - 1 \in 0 .. n /\ i # 0
    BY <1>0
  <2>5. \A i \in 1 .. n : g[i] = AddTo(g[i - 1], i, lens, 1, 76)
    <3> HIDE DEF T
    <3> QED
      BY <2>3, <2>4 DEF Steps
  <2>6. \A i \in 0 .. n : g[i] = IF i = 0 THEN <<>> ELSE AddTo(g[i - 1], i, lens, 1, 76)
    <3>1. \A i \in 0 .. n : i = 0 \/ i \in 1 .. n
      BY <1>0
    <3> HIDE DEF n, T
    <3> QED
      BY <2>3, <2>4, <2>5, <3>1 DEF Steps
  <2>7. Made(g)
    <3> HIDE DEF n, T
    <3> QED
      BY <2>6
  <2> QED
    BY <2>7
<1>3. Made(upTo)
  <2> HIDE DEF Made
  <2> QED
    BY <1>2
<1> HIDE DEF upTo
<1>4. upTo[0] = <<>> /\ \A i \in 1 .. n : upTo[i] = AddTo(upTo[i - 1], i, lens, 1, 76)
  <2>1. 0 \in 0 .. n /\ \A i \in 1 .. n : i \in 0 .. n /\ i # 0
    BY <1>0
  <2> HIDE DEF n
  <2> QED
    BY <1>3, <2>1
<1> DEFINE G == {i \in 0 .. n : Wrapped(upTo[i], i, lens)}
<1>5. 0 \in G
  <2>1. Upto(<<>>, 0) = {} /\ 1 .. 0 = {} /\ Len(<<>>) = 0 /\ <<>> \in Seq(SUBSET Nat)
    BY DEF Upto
  <2>2. Wrapped(<<>>, 0, lens)
    BY <2>1 DEF Wrapped
  <2> QED
    BY <1>0, <1>4, <2>2
<1>6. \A i \in 1 .. n : i - 1 \in G => i \in G
  <2> SUFFICES ASSUME NEW i \in 1 .. n, Wrapped(upTo[i - 1], i - 1, lens)
               PROVE  i \in G
    OBVIOUS
  <2>1. Wrapped(AddTo(upTo[i - 1], i, lens, 1, 76), i, lens)
    BY WrapsOne
  <2>2. i \in 0 .. n
    BY <1>0
  <2> QED
    BY <1>4, <2>1, <2>2
<1>7. n \in G
  <2> HIDE DEF G, n
  <2>1. 0 .. n \subseteq G
    BY <1>0, <1>5, <1>6, StagesInduct
  <2> QED
    BY <1>0, <2>1
<1> QED
  BY <1>1, <1>7

LEMMA NoteLinesAre ==
    ASSUME NEW words \in Seq(Nat)
    PROVE  LET all == Wrap(words, 1, 76)
           IN  /\ Len(all) \in Nat
               /\ Len(NoteLines(words)) = Least(Len(all), 4)
               /\ \A k \in 1 .. Least(Len(all), 4) : NoteLines(words)[k] = all[k]
               /\ DOMAIN NoteLines(words) = 1 .. Least(Len(all), 4)
<1> DEFINE all == Wrap(words, 1, 76)
           m == Least(Len(all), 4)
<1>1. all \in Seq(SUBSET Nat)
  BY WrapIs DEF Wrapped
<1>2. NoteLines(words) = SubSeq(all, 1, m)
  BY DEF NoteLines
<1> HIDE DEF all
<1>3. Len(all) \in Nat /\ m \in 0 .. Len(all)
  BY <1>1 DEF Least
<1> HIDE DEF m
<1>4. /\ Len(SubSeq(all, 1, m)) = m /\ DOMAIN SubSeq(all, 1, m) = 1 .. m
      /\ \A k \in 1 .. m : SubSeq(all, 1, m)[k] = all[k]
  BY <1>1, <1>3
<1> QED
  BY <1>2, <1>3, <1>4 DEF all, m

\* A note is shown from its beginning, as much of it as its lines hold, and
\* the last of its lines is above what follows it, whatever its words.
THEOREM NotesFit == ASSUME NEW words \in Seq(Nat) PROVE NoteFits(words)
<1> DEFINE all == Wrap(words, 1, 76)
           m == Least(Len(all), 4)
           lines == NoteLines(words)
           shown == UNION {lines[k] : k \in DOMAIN lines}
<1>1. Wrapped(all, Len(words), words)
  BY WrapIs
<1>2. /\ Len(all) \in Nat /\ Len(lines) = m /\ DOMAIN lines = 1 .. m
      /\ \A k \in 1 .. m : lines[k] = all[k]
  BY NoteLinesAre
<1> HIDE DEF all
<1>3. m \in 0 .. Len(all) /\ m \in Nat /\ (m = 4 \/ m = Len(all))
  BY <1>2 DEF Least
<1>4. shown = Upto(all, m)
  <2> HIDE DEF m, lines
  <2> QED
    BY <1>2 DEF Upto
<1>5. PICK e \in 0 .. Len(words) : shown = 1 .. e
  <2> HIDE DEF m, shown
  <2> QED
    BY <1>1, <1>3, <1>4 DEF Wrapped
<1>6. e \in Nat /\ Cardinality(1 .. e) = e
  <2>1. 1 \in Int /\ e \in Int /\ e \in Nat
    OBVIOUS
  <2>2. Cardinality(1 .. e) = IF 1 > e THEN 0 ELSE e - 1 + 1
    BY <2>1, FS_Interval
  <2> QED
    BY <2>1, <2>2
<1> HIDE DEF shown
<1>7. shown = 1 .. Cardinality(shown) /\ Cardinality(shown) = e
  BY <1>5, <1>6
<1>8. \A k \in DOMAIN lines : Length(lines[k], words, 1) <= 76 \/ Cardinality(lines[k]) = 1
  <2>1. \A k \in 1 .. m : k \in 1 .. Len(all) /\ lines[k] = all[k]
    BY <1>2, <1>3
  <2> HIDE DEF m, lines
  <2> QED
    BY <1>1, <1>2, <2>1 DEF Wrapped
<1>9. words # <<>> => 20 + 26 * (Len(lines) - 1) < NoteHeight(words)
  <2> HIDE DEF m
  <2> QED
    BY <1>2, <1>3 DEF NoteHeight, Most, lines
<1>10. Cardinality(shown) < Len(words) => Len(lines) = 4
  <2>1. m = Len(all) => 1 .. e = 1 .. Len(words)
    BY <1>1, <1>4, <1>5 DEF Wrapped
  <2>2. Len(words) \in Nat /\ Cardinality(1 .. Len(words)) = Len(words)
    <3>1. 1 \in Int /\ Len(words) \in Int /\ Len(words) \in Nat
      OBVIOUS
    <3>2. Cardinality(1 .. Len(words)) = IF 1 > Len(words) THEN 0 ELSE Len(words) - 1 + 1
      BY <3>1, FS_Interval
    <3> QED
      BY <3>1, <3>2
  <2> HIDE DEF m
  <2>3. m = Len(all) => e = Len(words)
    BY <1>6, <2>1, <2>2
  <2> QED
    BY <1>2, <1>3, <1>7, <2>2, <2>3
<1> QED
  BY <1>7, <1>8, <1>9, <1>10 DEF NoteFits, shown

-----------------------------------------------------------------------------
(* Cards.                                                                  *)

\* What is eight more for each is as many times eight more in all.
LEMMA TotalRoom ==
    ASSUME NEW f, NEW h, NEW S, Ints(f, S), Ints(h, S), \A x \in S : f[x] + 8 <= h[x]
    PROVE  Total(f, S) + 8 * Cardinality(S) <= Total(h, S)
<1> DEFINE F == {A \in SUBSET S : Total(f, A) + 8 * Cardinality(A) <= Total(h, A)}
<1>0. IsFiniteSet(S) /\ S \in SUBSET S
  BY DEF Ints
<1>1. {} \in F
  <2>1. Total(f, {}) = 0 /\ Total(h, {}) = 0 /\ Cardinality({}) = 0
    BY <1>0, TotalStep, FS_EmptySet
  <2> QED
    BY <2>1
<1>2. ASSUME NEW A \in SUBSET S, A # {}, \A x \in A : A \ {x} \in F
      PROVE  A \in F
  <2>1. PICK x \in A : TRUE
    BY <1>2
  <2> DEFINE a == Total(f, A \ {x})
             b == Total(h, A \ {x})
             n == Cardinality(A \ {x})
  <2>2. Total(f, A) = f[x] + a /\ Total(h, A) = h[x] + b
    BY TotalStep
  <2>3. f[x] \in Int /\ h[x] \in Int /\ a \in Int /\ b \in Int
    BY TotalStep
  <2>4. a + 8 * n <= b /\ f[x] + 8 <= h[x]
    BY <1>2
  <2>5. IsFiniteSet(A) /\ IsFiniteSet(A \ {x}) /\ Cardinality(A) \in Nat /\ n \in Nat
    BY <1>0, FS_Subset, FS_CardinalityType
  <2>6. n = Cardinality(A) - 1
    BY <2>5, FS_RemoveElement
  <2> HIDE DEF a, b, n
  <2>7. Total(f, A) + 8 * Cardinality(A) <= Total(h, A)
    BY <2>2, <2>3, <2>4, <2>5, <2>6
  <2> QED
    BY <2>7
<1> HIDE DEF F
<1>3. SUBSET S \subseteq F
  BY <1>0, <1>1, <1>2, InductSets
<1> QED
  BY <1>0, <1>3 DEF F

Cards == [words : Seq(Nat), items : Nat, reason : BOOLEAN]

LEMMA EachFits ==
    ASSUME NEW o \in Cards
    PROVE  /\ InstantDrawn(o) \in Int /\ InstantRoom(o) \in Int
           /\ InstantDrawn(o) + 8 <= InstantRoom(o)
           /\ CancelDrawn(o) \in Int /\ CancelRoom(o) \in Int
           /\ CancelDrawn(o) + 8 <= CancelRoom(o)
<1>1. o.words \in Seq(Nat) /\ o.items \in Nat /\ o.reason \in BOOLEAN
  BY DEF Cards
<1>2. NoteHeight(o.words) \in Int
  <2>1. Len(NoteLines(o.words)) \in Int
    BY <1>1, NoteLinesAre DEF Least
  <2> QED
    BY <2>1 DEF NoteHeight, Most
<1>3. ItemHeight * o.items \in Int
  BY <1>1 DEF ItemHeight
<1>4. /\ InstantDrawn(o) \in Int /\ InstantRoom(o) \in Int
      /\ InstantDrawn(o) + 8 <= InstantRoom(o)
  BY <1>2, <1>3 DEF InstantDrawn, InstantRoom
<1>5. /\ CancelDrawn(o) \in Int /\ CancelRoom(o) \in Int
      /\ CancelDrawn(o) + 8 <= CancelRoom(o)
  BY <1>1, <1>3 DEF CancelDrawn, CancelRoom
<1> QED
  BY <1>4, <1>5

LEMMA BoxHolds ==
    ASSUME NEW orders \in Seq(Cards), NEW f, NEW h,
           DOMAIN f = DOMAIN orders, DOMAIN h = DOMAIN orders,
           \A i \in DOMAIN orders : f[i] \in Int /\ h[i] \in Int /\ f[i] + 8 <= h[i]
    PROVE  InkOf(SumSeq(f), orders) <= BoxOf(SumSeq(h))
<1> DEFINE S == DOMAIN orders
           n == Len(orders)
<1>1. n \in Nat /\ S = 1 .. n
  OBVIOUS
<1>2. IsFiniteSet(S) /\ Cardinality(S) = n
  <2>1. 1 \in Int /\ n \in Int
    BY <1>1
  <2>2. IsFiniteSet(1 .. n) /\ Cardinality(1 .. n) = IF 1 > n THEN 0 ELSE n - 1 + 1
    BY <2>1, FS_Interval
  <2> QED
    BY <1>1, <2>2
<1>3. Ints(f, S) /\ Ints(h, S)
  BY <1>2 DEF Ints
<1>4. SumSeq(f) = Total(f, S) /\ SumSeq(h) = Total(h, S)
  BY DEF SumSeq, Total
<1>5. Total(f, S) + 8 * Cardinality(S) <= Total(h, S)
  <2>1. \A i \in S : f[i] + 8 <= h[i]
    OBVIOUS
  <2> HIDE DEF S
  <2> QED
    BY <1>3, <2>1, TotalRoom
<1>6. Total(f, S) \in Int /\ Total(h, S) \in Int
  <2> HIDE DEF S
  <2> QED
    BY <1>3, TotalIs
<1> HIDE DEF S
<1> QED
  BY <1>1, <1>2, <1>4, <1>5, <1>6 DEF InkOf, BoxOf, Pad, Most

\* A card is at least as tall as what is drawn on it, whatever orders it has.
THEOREM EveryCardFits == ASSUME NEW orders \in Seq(Cards) PROVE CardFits(orders)
<1>1. \A i \in DOMAIN orders : orders[i] \in Cards
  OBVIOUS
<1> DEFINE id == [i \in DOMAIN orders |-> InstantDrawn(orders[i])]
           ir == [i \in DOMAIN orders |-> InstantRoom(orders[i])]
           cd == [i \in DOMAIN orders |-> CancelDrawn(orders[i])]
           cr == [i \in DOMAIN orders |-> CancelRoom(orders[i])]
<1>2. InkOf(SumSeq(id), orders) <= BoxOf(SumSeq(ir))
  <2>1. \A i \in DOMAIN orders : id[i] \in Int /\ ir[i] \in Int /\ id[i] + 8 <= ir[i]
    BY <1>1, EachFits
  <2>2. DOMAIN id = DOMAIN orders /\ DOMAIN ir = DOMAIN orders
    OBVIOUS
  <2> HIDE DEF id, ir
  <2> QED
    BY <2>1, <2>2, BoxHolds
<1>3. InkOf(SumSeq(cd), orders) <= BoxOf(SumSeq(cr))
  <2>1. \A i \in DOMAIN orders : cd[i] \in Int /\ cr[i] \in Int /\ cd[i] + 8 <= cr[i]
    BY <1>1, EachFits
  <2>2. DOMAIN cd = DOMAIN orders /\ DOMAIN cr = DOMAIN orders
    OBVIOUS
  <2> HIDE DEF cd, cr
  <2> QED
    BY <2>1, <2>2, BoxHolds
<1> QED
  BY <1>2, <1>3 DEF CardFits

\* The list of the rekap ends above its footer, however many groups it has.
LEMMA EveryRekapFits == ASSUME NEW skus \in Nat PROVE RekapFits(skus)
BY DEF RekapFits, RekapInk, RekapFooter, RekapHeight, Shown, Least

LEMMA WordsAre ==
    ASSUME NEW m \in 0 .. MaxWords, NEW w \in [1 .. m -> Lengths]
    PROVE  w \in Seq(Nat)
<1>1. MaxWords \in Nat /\ Lengths \subseteq Nat
  BY PaperAssumption
<1>2. m \in Nat
  BY <1>1
<1>3. w \in [1 .. m -> Nat]
  BY <1>1
<1> QED
  BY <1>2, <1>3

\* No card, note or list of a card is taller than the room reckoned for it.
THEOREM CardsAlwaysFit == Spec => []CardsFit
<1>1. CardsFit
  <2>1. ASSUME NEW n \in 1 .. MaxOrders, NEW orders \in [1 .. n -> OnCard]
        PROVE  CardFits(orders)
    <3>1. \A o \in OnCard : o \in Cards
      <4>1. \A w \in Notes : w \in Seq(Nat)
        <5> SUFFICES ASSUME NEW m \in 0 .. MaxWords, NEW w \in [1 .. m -> Lengths]
                     PROVE  w \in Seq(Nat)
          BY DEF Notes
        <5> QED
          BY WordsAre
      <4>2. Lines \subseteq Nat
        BY PaperAssumption
      <4> QED
        BY <4>1, <4>2 DEF OnCard, Cards
    <3>2. n \in Nat /\ orders \in [1 .. n -> Cards]
      BY <3>1, PaperAssumption
    <3>3. orders \in Seq(Cards)
      BY <3>2
    <3> QED
      BY <3>3, EveryCardFits
  <2>2. ASSUME NEW words \in Notes
        PROVE  NoteFits(words)
    <3>1. PICK m \in 0 .. MaxWords : words \in [1 .. m -> Lengths]
      BY DEF Notes
    <3>2. words \in Seq(Nat)
      BY <3>1, WordsAre
    <3> QED
      BY <3>2, NotesFit
  <2>3. \A skus \in 0 .. 200 : RekapFits(skus)
    BY EveryRekapFits
  <2>4. CarrierTotal + 72 <= CarrierBox
    BY DEF CarrierTotal, CarrierBox, Pad
  <2>5. \A k \in 0 .. 4 : CourierRow(k) < EstimateBox
    BY DEF CourierRow, EstimateBox
  <2>6. \A k \in 0 .. 7 : TopRows(k) < EstimateBox
    BY DEF TopRows, EstimateBox, Least
  <2> QED
    BY <2>1, <2>2, <2>3, <2>4, <2>5, <2>6 DEF CardsFit
<1> QED
  BY <1>1, PTL

-----------------------------------------------------------------------------
(* The sheets of the Summary List.                                         *)

Drawn == [lines : Nat, end : Int]
Sheets == [sheet : Nat, col : {0, 1}, rows : Seq(Drawn)]
Sheaf == [pages : {s \in Seq(Sheets) : Len(s) > 0}, y : Int]

LEMMA RoomsAre ==
    ASSUME NEW n \in Nat, NEW y \in Int
    PROVE  /\ RoomOf(n) \in Int /\ RoomOf(n) >= 211
           /\ Divider(y, n) \in Int /\ Divider(y, n) >= y - RoomOf(n) + 10
<1>1. RoomOf(n) = IF 32 * n + 86 < 185 THEN 211 ELSE 32 * n + 112
  BY DEF RoomOf, Most, Thumb
<1>2. Divider(y, n) >= y - (IF 32 * n + 81 < 201 THEN 201 ELSE 32 * n + 81)
      /\ Divider(y, n) \in Int
  BY DEF Divider, Least, Thumb
<1> QED
  BY <1>1, <1>2

LEMMA NextPageIs ==
    ASSUME NEW p \in Sheets, NEW twoUp \in BOOLEAN
    PROVE  /\ NextPage(p, twoUp) \in Sheets /\ NextPage(p, twoUp).rows = <<>>
           /\ NextPage(p, twoUp).sheet = p.sheet \/ NextPage(p, twoUp).sheet = p.sheet + 1
<1>1. p.sheet \in Nat /\ p.sheet + 1 \in Nat /\ <<>> \in Seq(Drawn)
  BY DEF Sheets
<1> QED
  BY <1>1 DEF NextPage, Sheets

LEMMA DrawsNext ==
    ASSUME NEW acc \in Sheaf, NEW n \in Nat, NEW twoUp \in BOOLEAN,
           acc.y - RoomOf(n) < ContentBottom
    PROVE  LET next == NextPage(acc.pages[Len(acc.pages)], twoUp)
               end == Divider(FirstRow, n)
               drawn == [sheet |-> next.sheet, col |-> next.col,
                         rows |-> <<[lines |-> n, end |-> end]>>]
           IN  /\ drawn \in Sheets /\ end \in Int
               /\ Draw(acc, n, twoUp) = [pages |-> Append(acc.pages, drawn), y |-> end - 26]
<1> DEFINE here == acc.pages[Len(acc.pages)]
           next == NextPage(here, twoUp)
           end == Divider(FirstRow, n)
           r == [lines |-> n, end |-> end]
           drawn == [sheet |-> next.sheet, col |-> next.col, rows |-> <<r>>]
<1>1. here \in Sheets
  BY DEF Sheaf
<1>2. next \in Sheets /\ next.rows = <<>>
  BY <1>1, NextPageIs
<1>3. FirstRow \in Int
  BY DEF FirstRow, PageTop
<1>4. end \in Int
  BY <1>3, RoomsAre
<1>5. r \in Drawn
  BY <1>4 DEF Drawn
<1>6. Draw(acc, n, twoUp)
        = [pages |-> Append(acc.pages, [next EXCEPT !.rows = Append(next.rows, r)]),
           y |-> end - 26]
  BY DEF Draw
<1> HIDE DEF r, end, next
<1>7. Append(next.rows, r) = <<r>>
  BY <1>2
<1>8. <<r>> \in Seq(Drawn)
  BY <1>5
<1>9. [next EXCEPT !.rows = <<r>>] = drawn
  BY <1>2 DEF Sheets
<1>10. drawn \in Sheets
  BY <1>2, <1>8 DEF Sheets
<1> QED
  BY <1>4, <1>6, <1>7, <1>9, <1>10 DEF r, end, next

LEMMA DrawsHere ==
    ASSUME NEW acc \in Sheaf, NEW n \in Nat, NEW twoUp \in BOOLEAN,
           ~(acc.y - RoomOf(n) < ContentBottom)
    PROVE  LET here == acc.pages[Len(acc.pages)]
               end == Divider(acc.y, n)
               drawn == [sheet |-> here.sheet, col |-> here.col,
                         rows |-> Append(here.rows, [lines |-> n, end |-> end])]
           IN  /\ drawn \in Sheets /\ end \in Int
               /\ Draw(acc, n, twoUp)
                    = [pages |-> [acc.pages EXCEPT ![Len(acc.pages)] = drawn], y |-> end - 26]
<1> DEFINE here == acc.pages[Len(acc.pages)]
           end == Divider(acc.y, n)
           r == [lines |-> n, end |-> end]
           drawn == [sheet |-> here.sheet, col |-> here.col, rows |-> Append(here.rows, r)]
<1>1. here \in Sheets /\ acc.y \in Int
  BY DEF Sheaf
<1>2. end \in Int
  BY <1>1, RoomsAre
<1>3. r \in Drawn
  BY <1>2 DEF Drawn
<1>4. Draw(acc, n, twoUp)
        = [pages |-> [acc.pages EXCEPT ![Len(acc.pages)] =
                        [here EXCEPT !.rows = Append(here.rows, r)]],
           y |-> end - 26]
  BY DEF Draw
<1> HIDE DEF r, end, here
<1>5. [here EXCEPT !.rows = Append(here.rows, r)] = drawn
  <2> DEFINE longer == Append(here.rows, r)
  <2> HIDE DEF longer
  <2>1. [here EXCEPT !.rows = longer] = [sheet |-> here.sheet, col |-> here.col, rows |-> longer]
    BY <1>1 DEF Sheets
  <2> QED
    BY <2>1 DEF longer
<1>6. Append(here.rows, r) \in Seq(Drawn)
  BY <1>1, <1>3 DEF Sheets
<1>7. drawn \in Sheets
  BY <1>1, <1>6 DEF Sheets
<1> QED
  BY <1>2, <1>4, <1>5, <1>7 DEF r, end, here

LEMMA DrawTyped ==
    ASSUME NEW acc \in Sheaf, NEW n \in Nat, NEW twoUp \in BOOLEAN
    PROVE  Draw(acc, n, twoUp) \in Sheaf
<1>1. acc.pages \in Seq(Sheets) /\ Len(acc.pages) > 0
  BY DEF Sheaf
<1>2. CASE acc.y - RoomOf(n) < ContentBottom
  <2>1. PICK drawn \in Sheets, end \in Int :
          Draw(acc, n, twoUp) = [pages |-> Append(acc.pages, drawn), y |-> end - 26]
    BY <1>2, DrawsNext
  <2>2. Append(acc.pages, drawn) \in Seq(Sheets) /\ Len(Append(acc.pages, drawn)) > 0
    BY <1>1
  <2> QED
    BY <2>1, <2>2 DEF Sheaf
<1>3. CASE ~(acc.y - RoomOf(n) < ContentBottom)
  <2>1. PICK drawn \in Sheets, end \in Int :
          Draw(acc, n, twoUp)
            = [pages |-> [acc.pages EXCEPT ![Len(acc.pages)] = drawn], y |-> end - 26]
    BY <1>3, DrawsHere
  <2> DEFINE more == [acc.pages EXCEPT ![Len(acc.pages)] = drawn]
  <2>2. more \in Seq(Sheets) /\ Len(more) > 0
    BY <1>1
  <2> HIDE DEF more
  <2>3. Draw(acc, n, twoUp) = [pages |-> more, y |-> end - 26]
    BY <2>1 DEF more
  <2> QED
    BY <2>2, <2>3 DEF Sheaf
<1> QED
  BY <1>2, <1>3

EndsWell(on) ==
    \A k \in 1 .. Len(on) :
        on[k].end >= ContentBottom \/ (TooTall(on[k].lines) /\ k = 1 /\ Len(on) = 1)

(* The first i rows, on m pages that follow each other: y, where the next  *)
(* one begins, is below the last one drawn.                                *)
LaidOn(pages, m, y, i, rows) ==
    /\ pages[1].sheet = 1
    /\ \A p \in 1 .. m - 1 :
          pages[p + 1].sheet = pages[p].sheet \/ pages[p + 1].sheet = pages[p].sheet + 1
    /\ \A p \in 1 .. m : EndsWell(pages[p].rows)
    /\ \A p \in 1 .. m : pages[p].rows = <<>> => p = 1 /\ (i = 0 \/ TooTall(rows[1]))
    /\ i = 0 => m = 1 /\ pages[m].rows = <<>> /\ y = FirstRow
    /\ i > 0 => pages[m].rows # <<>> /\ y = pages[m].rows[Len(pages[m].rows)].end - 26
Laid(acc, i, rows) ==
    acc \in Sheaf /\ LaidOn(acc.pages, Len(acc.pages), acc.y, i, rows)

LEMMA NothingLaid == ASSUME NEW rows PROVE Laid(NoRows, 0, rows)
<1> DEFINE page == [sheet |-> 1, col |-> 0, rows |-> <<>>]
           pages == <<page>>
<1>1. NoRows = [pages |-> pages, y |-> FirstRow] /\ FirstRow \in Int
  BY DEF NoRows, FirstRow, PageTop
<1>2. page \in Sheets
  <2>1. <<>> \in Seq(Drawn)
    OBVIOUS
  <2> QED
    BY <2>1 DEF Sheets
<1>3. page.sheet = 1 /\ page.rows = <<>>
  OBVIOUS
<1> HIDE DEF page
<1>4. pages \in Seq(Sheets) /\ Len(pages) = 1 /\ pages[1] = page
  BY <1>2
<1> HIDE DEF pages
<1>5. pages \in {s \in Seq(Sheets) : Len(s) > 0}
  BY <1>4
<1>6. NoRows.pages = pages /\ NoRows.y = FirstRow
  BY <1>1, Zenon
<1>7. NoRows \in Sheaf
  BY <1>1, <1>5 DEF Sheaf
<1>8. EndsWell(<<>>)
  BY DEF EndsWell
<1>9. \A p \in 1 .. 1 : p = 1
  OBVIOUS
<1>10. \A p \in 1 .. 1 - 1 : FALSE
  OBVIOUS
<1>11. LaidOn(pages, 1, FirstRow, 0, rows)
  BY <1>3, <1>4, <1>8, <1>9, <1>10 DEF LaidOn
<1> QED
  BY <1>4, <1>6, <1>7, <1>11 DEF Laid

LEMMA RowEndsWell ==
    ASSUME NEW n \in Nat, NEW end \in Int, end >= ContentBottom \/ TooTall(n)
    PROVE  LET on == <<[lines |-> n, end |-> end]>>
           IN  EndsWell(on) /\ on # <<>> /\ Len(on) = 1 /\ on[1].end = end
<1> DEFINE r == [lines |-> n, end |-> end]
<1>1. r.end = end /\ r.lines = n
  OBVIOUS
<1> HIDE DEF r
<1>2. <<r>> # <<>> /\ Len(<<r>>) = 1 /\ <<r>>[1] = r /\ \A k \in 1 .. 1 : k = 1
  OBVIOUS
<1>3. EndsWell(<<r>>)
  BY <1>1, <1>2 DEF EndsWell
<1> QED
  BY <1>1, <1>2, <1>3 DEF r

LEMMA LaysNext ==
    ASSUME NEW rows \in Seq(Nat), NEW i \in 1 .. Len(rows), NEW acc, NEW twoUp \in BOOLEAN,
           Laid(acc, i - 1, rows), acc.y - RoomOf(rows[i]) < ContentBottom
    PROVE  Laid(Draw(acc, rows[i], twoUp), i, rows)
<1> DEFINE n == rows[i]
           pages == acc.pages
           m == Len(pages)
           next == NextPage(pages[m], twoUp)
           end == Divider(FirstRow, n)
           on == <<[lines |-> n, end |-> end]>>
           drawn == [sheet |-> next.sheet, col |-> next.col, rows |-> on]
           more == Append(pages, drawn)
           new == Draw(acc, n, twoUp)
<1>1. /\ n \in Nat /\ acc \in Sheaf /\ pages \in Seq(Sheets) /\ m \in Nat /\ m > 0
      /\ pages[m] \in Sheets /\ i \in Nat /\ i > 0
  BY DEF Laid, Sheaf
<1>2. drawn \in Sheets /\ end \in Int /\ new = [pages |-> more, y |-> end - 26]
  BY <1>1, DrawsNext
<1>3. next.sheet = pages[m].sheet \/ next.sheet = pages[m].sheet + 1
  BY <1>1, NextPageIs
<1>4. EndsWell(on) /\ on # <<>> /\ Len(on) = 1 /\ on[1].end = end
  <2>1. FirstRow \in Int
    BY DEF FirstRow, PageTop
  <2>2. end >= FirstRow - RoomOf(n) + 10 /\ RoomOf(n) \in Int
    BY <1>1, <2>1, RoomsAre
  <2>3. end \in Int /\ n \in Nat
    BY <1>1, <1>2
  <2> HIDE DEF end, n
  <2>4. end >= ContentBottom \/ TooTall(n)
    BY <2>1, <2>2, <2>3 DEF TooTall, ContentBottom
  <2> QED
    BY <2>3, <2>4, RowEndsWell
<1>5. i - 1 = 0 => TooTall(rows[1])
  <2>1. i - 1 = 0 => i = 1 /\ acc.y = FirstRow
    BY <1>1 DEF Laid, LaidOn
  <2> QED
    BY <2>1 DEF TooTall
<1>6. drawn.rows = on /\ drawn.sheet = next.sheet
  OBVIOUS
<1>7. LaidOn(pages, m, acc.y, i - 1, rows)
  BY DEF Laid
<1> HIDE DEF drawn, on, next, end, pages
<1>8. more \in Seq(Sheets) /\ Len(more) = m + 1 /\ more[m + 1] = drawn
      /\ \A p \in 1 .. m : more[p] = pages[p]
  BY <1>1, <1>2
<1> HIDE DEF more, m
<1>9. more \in {s \in Seq(Sheets) : Len(s) > 0}
  BY <1>1, <1>8
<1>10. new \in Sheaf /\ new.pages = more /\ new.y = end - 26
  BY <1>2, <1>9 DEF Sheaf
<1>11. more[1].sheet = 1
  <2>1. 1 \in 1 .. m
    BY <1>1
  <2> QED
    BY <1>7, <1>8, <2>1 DEF LaidOn
<1>12. ASSUME NEW p \in 1 .. (m + 1) - 1
       PROVE  more[p + 1].sheet = more[p].sheet \/ more[p + 1].sheet = more[p].sheet + 1
  <2>1. CASE p = m
    <3>1. m \in 1 .. m
      BY <1>1
    <3> QED
      BY <1>3, <1>6, <1>8, <2>1, <3>1
  <2>2. CASE p # m
    <3>1. p \in 1 .. m - 1 /\ p + 1 \in 1 .. m /\ p \in 1 .. m
      BY <1>1, <2>2
    <3> QED
      BY <1>7, <1>8, <3>1 DEF LaidOn
  <2> QED
    BY <2>1, <2>2
<1>13. ASSUME NEW p \in 1 .. m + 1
       PROVE  /\ EndsWell(more[p].rows)
              /\ more[p].rows = <<>> => p = 1 /\ TooTall(rows[1])
  <2>1. CASE p = m + 1
    BY <1>4, <1>6, <1>8, <2>1
  <2>2. CASE p # m + 1
    <3>1. p \in 1 .. m
      BY <1>1, <2>2
    <3> QED
      BY <1>5, <1>7, <1>8, <3>1 DEF LaidOn
  <2> QED
    BY <2>1, <2>2
<1>14. more[m + 1].rows = on /\ i # 0
  BY <1>1, <1>6, <1>8
<1>15. LaidOn(more, m + 1, end - 26, i, rows)
  BY <1>4, <1>11, <1>12, <1>13, <1>14 DEF LaidOn
<1> HIDE DEF new
<1>16. Laid(new, i, rows)
  BY <1>8, <1>10, <1>15 DEF Laid
<1> QED
  BY <1>16 DEF new

LEMMA LaysHere ==
    ASSUME NEW rows \in Seq(Nat), NEW i \in 1 .. Len(rows), NEW acc, NEW twoUp \in BOOLEAN,
           Laid(acc, i - 1, rows), ~(acc.y - RoomOf(rows[i]) < ContentBottom)
    PROVE  Laid(Draw(acc, rows[i], twoUp), i, rows)
<1> DEFINE n == rows[i]
           pages == acc.pages
           y == acc.y
           m == Len(pages)
           end == Divider(y, n)
           r == [lines |-> n, end |-> end]
           on == pages[m].rows
           longer == Append(on, r)
           drawn == [sheet |-> pages[m].sheet, col |-> pages[m].col, rows |-> longer]
           more == [pages EXCEPT ![m] = drawn]
           new == Draw(acc, n, twoUp)
<1>1. /\ n \in Nat /\ acc \in Sheaf /\ pages \in Seq(Sheets) /\ m \in Nat /\ m > 0
      /\ pages[m] \in Sheets /\ i \in Nat /\ i > 0 /\ y \in Int
  BY DEF Laid, Sheaf
<1>2. drawn \in Sheets /\ end \in Int /\ new = [pages |-> more, y |-> end - 26]
  BY <1>1, DrawsHere
<1>3. drawn.rows = longer /\ drawn.sheet = pages[m].sheet /\ r.end = end
  OBVIOUS
<1>4. LaidOn(pages, m, y, i - 1, rows)
  BY DEF Laid
<1>5. end >= ContentBottom /\ y >= ContentBottom + 211
  <2>1. end >= y - RoomOf(n) + 10 /\ RoomOf(n) \in Int /\ RoomOf(n) >= 211
    BY <1>1, RoomsAre
  <2>2. ~(y - RoomOf(n) < ContentBottom)
    OBVIOUS
  <2>3. end \in Int /\ y \in Int
    BY <1>1, <1>2
  <2> HIDE DEF end, y, n
  <2> QED
    BY <2>1, <2>2, <2>3 DEF ContentBottom
<1>6. on \in Seq(Drawn)
  BY <1>1 DEF Sheets
<1>7. r \in Drawn
  BY <1>1, <1>2 DEF Drawn
<1> HIDE DEF drawn, r, end, on
<1>8. /\ longer \in Seq(Drawn) /\ Len(longer) = Len(on) + 1 /\ longer[Len(on) + 1] = r
      /\ \A k \in 1 .. Len(on) : longer[k] = on[k]
  BY <1>6, <1>7, Appended
<1> HIDE DEF longer
<1>9. longer # <<>> /\ longer[Len(longer)].end = end
  BY <1>3, <1>6, <1>8
<1>10. EndsWell(longer)
  <2> SUFFICES ASSUME NEW k \in 1 .. Len(longer)
               PROVE  longer[k].end >= ContentBottom
    BY DEF EndsWell
  <2>1. CASE k = Len(on) + 1
    BY <1>3, <1>5, <1>8, <2>1
  <2>2. CASE k # Len(on) + 1
    <3>1. Len(on) \in Nat /\ k \in 1 .. Len(on) /\ on # <<>>
      BY <1>6, <1>8, <2>2
    <3>2. EndsWell(on)
      <4>1. m \in 1 .. m
        BY <1>1
      <4> QED
        BY <1>4, <4>1 DEF LaidOn, on
    <3>3. Len(on) = 1 => on[1].end >= ContentBottom
      <4>1. i - 1 > 0
        BY <1>1, <1>4, <3>1 DEF LaidOn, on
      <4>2. y = on[Len(on)].end - 26
        BY <1>4, <4>1 DEF LaidOn, on
      <4>3. on[Len(on)].end \in Int
        <5>1. Len(on) \in 1 .. Len(on)
          BY <3>1
        <5>2. on[Len(on)] \in Drawn
          BY <1>6, <5>1
        <5> QED
          BY <5>2 DEF Drawn
      <4> DEFINE e == on[Len(on)].end
      <4>4. e \in Int /\ y = e - 26 /\ y >= ContentBottom + 211
        BY <1>5, <4>2, <4>3
      <4> HIDE DEF y, e
      <4>5. e >= ContentBottom
        BY <4>4 DEF ContentBottom
      <4> QED
        BY <4>5 DEF e
    <3>4. on[k].end >= ContentBottom
      BY <3>1, <3>2, <3>3 DEF EndsWell
    <3> QED
      BY <1>8, <3>1, <3>4
  <2> QED
    BY <2>1, <2>2
<1> HIDE DEF y, n
<1>11. more \in Seq(Sheets) /\ Len(more) = m /\ more[m] = drawn
       /\ \A p \in 1 .. m - 1 : more[p] = pages[p]
  <2> HIDE DEF pages
  <2> QED
    BY <1>1, <1>2, LastPut
<1> HIDE DEF pages, m, more
<1>12. more \in {s \in Seq(Sheets) : Len(s) > 0}
  BY <1>1, <1>11
<1>13. new \in Sheaf /\ new.pages = more /\ new.y = end - 26
  BY <1>2, <1>12 DEF Sheaf
<1>14. \A p \in 1 .. m : more[p].sheet = pages[p].sheet
  <2>1. \A p \in 1 .. m : p = m \/ p \in 1 .. m - 1
    BY <1>1
  <2> QED
    BY <1>3, <1>11, <2>1
<1>15. more[1].sheet = 1
  <2>1. 1 \in 1 .. m
    BY <1>1
  <2> QED
    BY <1>4, <1>14, <2>1 DEF LaidOn
<1>16. ASSUME NEW p \in 1 .. m - 1
       PROVE  more[p + 1].sheet = more[p].sheet \/ more[p + 1].sheet = more[p].sheet + 1
  <2>1. p \in 1 .. m /\ p + 1 \in 1 .. m
    BY <1>1
  <2> QED
    BY <1>4, <1>14, <2>1 DEF LaidOn
<1>17. ASSUME NEW p \in 1 .. m
       PROVE  /\ EndsWell(more[p].rows)
              /\ more[p].rows = <<>> => p = 1 /\ TooTall(rows[1])
  <2>1. CASE p = m
    BY <1>3, <1>9, <1>10, <1>11, <2>1
  <2>2. CASE p # m
    <3>1. p \in 1 .. m /\ p \in 1 .. m - 1
      BY <1>1, <2>2
    <3>2. pages[p].rows = <<>> => p = 1 /\ (i - 1 = 0 \/ TooTall(rows[1]))
      BY <1>4, <3>1 DEF LaidOn
    <3>3. more[p] = pages[p] /\ EndsWell(pages[p].rows)
      BY <1>4, <1>11, <3>1 DEF LaidOn
    <3>4. i - 1 # 0
      BY <1>1, <1>4, <2>2, <3>1 DEF LaidOn
    <3> QED
      BY <3>2, <3>3, <3>4
  <2> QED
    BY <2>1, <2>2
<1>18. more[m].rows = longer /\ i # 0
  BY <1>1, <1>3, <1>11
<1>19. LaidOn(more, m, end - 26, i, rows)
  BY <1>9, <1>15, <1>16, <1>17, <1>18 DEF LaidOn
<1> HIDE DEF new
<1>20. Laid(new, i, rows)
  BY <1>11, <1>13, <1>19 DEF Laid
<1> QED
  BY <1>20 DEF new, n

LEMMA PagesAre ==
    ASSUME NEW rows \in Seq(Nat), NEW twoUp \in BOOLEAN
    PROVE  \E acc : Laid(acc, Len(rows), rows) /\ Pages(rows, twoUp) = acc.pages
<1> DEFINE n == Len(rows)
           Made(f) == f = [i \in 0 .. n |->
                             IF i = 0 THEN NoRows ELSE Draw(f[i - 1], rows[i], twoUp)]
           upTo == CHOOSE f : Made(f)
           D == [i \in 1 .. n |-> [v \in Sheaf |-> Draw(v, rows[i], twoUp)]]
<1>0. n \in Nat
  OBVIOUS
<1>1. Pages(rows, twoUp) = upTo[n].pages
  BY DEF Pages
<1>2. \E f : Made(f)
  <2>1. \A i \in 1 .. n, v \in Sheaf : D[i][v] \in Sheaf
    <3>1. \A i \in 1 .. n : rows[i] \in Nat
      OBVIOUS
    <3> QED
      BY <3>1, DrawTyped
  <2>2. NoRows \in Sheaf
    BY NothingLaid DEF Laid
  <2>3. PICK g \in [0 .. n -> Sheaf] : Steps(g, n, NoRows, D)
    <3> HIDE DEF n, D
    <3> QED
      BY <1>0, <2>1, <2>2, StepsExist
  <2>4. \A i \in 1 .. n : i - 1 \in 0 .. n /\ i # 0
    BY <1>0
  <2>5. \A i \in 1 .. n : g[i] = Draw(g[i - 1], rows[i], twoUp)
    BY <2>3, <2>4 DEF Steps
  <2>6. \A i \in 0 .. n : g[i] = IF i = 0 THEN NoRows ELSE Draw(g[i - 1], rows[i], twoUp)
    <3>1. \A i \in 0 .. n : i = 0 \/ i \in 1 .. n
      BY <1>0
    <3> HIDE DEF n
    <3> QED
      BY <2>3, <2>4, <2>5, <3>1 DEF Steps
  <2>7. Made(g)
    <3> HIDE DEF n
    <3> QED
      BY <2>6
  <2> QED
    BY <2>7
<1>3. Made(upTo)
  <2> HIDE DEF Made
  <2> QED
    BY <1>2
<1> HIDE DEF upTo
<1>4. upTo[0] = NoRows /\ \A i \in 1 .. n : upTo[i] = Draw(upTo[i - 1], rows[i], twoUp)
  <2>1. 0 \in 0 .. n /\ \A i \in 1 .. n : i \in 0 .. n /\ i # 0
    BY <1>0
  <2> HIDE DEF n
  <2> QED
    BY <1>3, <2>1
<1> DEFINE G == {i \in 0 .. n : Laid(upTo[i], i, rows)}
<1>5. 0 \in G
  BY <1>0, <1>4, NothingLaid
<1>6. \A i \in 1 .. n : i - 1 \in G => i \in G
  <2> SUFFICES ASSUME NEW i \in 1 .. n, Laid(upTo[i - 1], i - 1, rows)
               PROVE  i \in G
    OBVIOUS
  <2>1. Laid(Draw(upTo[i - 1], rows[i], twoUp), i, rows)
    BY LaysNext, LaysHere
  <2>2. i \in 0 .. n
    BY <1>0
  <2> QED
    BY <1>4, <2>1, <2>2
<1>7. n \in G
  <2> HIDE DEF G, n
  <2>1. 0 .. n \subseteq G
    BY <1>0, <1>5, <1>6, StagesInduct
  <2> QED
    BY <1>0, <2>1
<1> QED
  BY <1>1, <1>7

\* Whatever is to be picked, each row ends above the foot of its page, but for
\* one that no page has room for, which a page of its own begins with; only
\* before such a row the first page has a header and nothing else. For rows of
\* any number and of any height.
THEOREM EveryListFits ==
    ASSUME NEW rows \in Seq(Nat), NEW twoUp \in BOOLEAN
    PROVE  RowsFit(rows, twoUp)
<1> DEFINE pages == Pages(rows, twoUp)
           m == Len(pages)
<1>1. PICK acc : Laid(acc, Len(rows), rows) /\ pages = acc.pages
  BY PagesAre
<1>2. /\ pages \in Seq(Sheets) /\ m > 0 /\ m \in Nat
      /\ LaidOn(pages, m, acc.y, Len(rows), rows)
  BY <1>1 DEF Laid, Sheaf
<1> HIDE DEF pages
<1>3. DOMAIN pages = 1 .. m /\ m = Len(pages)
  BY <1>2
<1>4. ASSUME NEW i \in DOMAIN pages
      PROVE  /\ \A k \in DOMAIN pages[i].rows :
                  LET r == pages[i].rows[k]
                  IN  r.end >= ContentBottom
                        \/ (TooTall(r.lines) /\ k = 1 /\ Len(pages[i].rows) = 1)
             /\ pages[i].rows = <<>> => i = 1 /\ (rows = <<>> \/ TooTall(rows[1]))
  <2>1. EndsWell(pages[i].rows)
        /\ (pages[i].rows = <<>> => i = 1 /\ (Len(rows) = 0 \/ TooTall(rows[1])))
    BY <1>2, <1>3 DEF LaidOn
  <2>2. DOMAIN pages[i].rows = 1 .. Len(pages[i].rows)
    <3>1. pages[i] \in Sheets
      BY <1>2
    <3>2. pages[i].rows \in Seq(Drawn)
      BY <3>1 DEF Sheets
    <3> QED
      BY <3>2
  <2>3. Len(rows) = 0 => rows = <<>>
    OBVIOUS
  <2> QED
    BY <2>1, <2>2, <2>3 DEF EndsWell
<1> QED
  BY <1>4 DEF RowsFit, pages

\* The rows of every Summary List fit its sheets, in all reachable states.
THEOREM SheetsAlwaysFit == Spec => []SheetsFit
<1>1. SheetsFit
  <2> SUFFICES ASSUME NEW n \in 0 .. MaxRows, NEW rows \in [1 .. n -> RowLines]
               PROVE  RowsFit(rows, TRUE) /\ RowsFit(rows, FALSE)
    BY DEF SheetsFit
  <2>1. MaxRows \in Nat /\ RowLines \subseteq Nat
    BY PaperAssumption
  <2>2. n \in Nat
    BY <2>1
  <2>3. rows \in [1 .. n -> Nat]
    BY <2>1
  <2>4. rows \in Seq(Nat)
    BY <2>2, <2>3
  <2> QED
    BY <2>4, EveryListFits
<1> QED
  BY <1>1, PTL
=============================================================================
