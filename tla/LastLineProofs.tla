--------------------------- MODULE LastLineProofs ---------------------------
(***************************************************************************)
(* The memory bound and the result of lastLine, for every alphabet, every  *)
(* limit and every way an output may be cut into chunks.                   *)
(*                                                                         *)
(* The bound needs no more than types.  The result rests on Parsed: buf    *)
(* and long tell the line under way, last the result of the lines before   *)
(* it.  Two facts about the definitions on the whole output carry it from  *)
(* step to step: what is written later changes no line that has ended      *)
(* (SameBefore), and a line that ends changes the result as EndLine does   *)
(* (OneLineMore).                                                          *)
(***************************************************************************)
EXTENDS LastLine, NatLemmas, SequenceTheorems, TLAPS

Types ==
    /\ buf \in Seq(Bytes)
    /\ last \in Seq(Bytes)
    /\ rest \in Seq(Bytes)
    /\ out \in Seq(Bytes)

IInv == Types /\ MemoryBounded
-----------------------------------------------------------------------------
\* Trimming a line does not make it longer.
LEMMA TrimSpaceOK ==
    ASSUME NEW s \in Seq(Bytes)
    PROVE  TrimSpace(s) \in Seq(Bytes) /\ Len(TrimSpace(s)) <= Len(s)
<1> DEFINE solid == {i \in DOMAIN s : s[i] \notin Blanks}
           first == CHOOSE i \in solid : \A j \in solid : i <= j
           final == CHOOSE i \in solid : \A j \in solid : i >= j
<1>1. CASE solid = {}
  <2>1. TrimSpace(s) = <<>>
    BY <1>1 DEF TrimSpace
  <2> QED
    BY <2>1
<1>2. CASE solid # {}
  <2>1. solid \in SUBSET (1 .. Len(s)) /\ solid \in SUBSET Nat /\ Len(s) \in Nat
    OBVIOUS
  <2>2. first \in solid
    BY <1>2, <2>1, Least
  <2>3. final \in solid
    BY <1>2, <2>1, Greatest
  <2>4. first \in 1 .. Len(s) /\ final \in 1 .. Len(s)
    BY <2>1, <2>2, <2>3
  <2>5. TrimSpace(s) = SubSeq(s, first, final)
    BY <1>2 DEF TrimSpace
  <2> HIDE DEF first, final
  <2>6. \A i \in first .. final : s[i] \in Bytes
    BY <2>4
  <2>7. /\ SubSeq(s, first, final) \in Seq(Bytes)
        /\ Len(SubSeq(s, first, final)) = IF first <= final THEN final - first + 1 ELSE 0
    BY <2>4, <2>6, SubSeqProperties
  <2> QED
    BY <2>1, <2>4, <2>5, <2>7
<1> QED
  BY <1>1, <1>2

\* A part of a sequence depends on nothing outside it.
LEMMA SameSubSeq ==
    ASSUME NEW s, NEW t, NEW m \in Int, NEW n \in Int,
           \A k \in m .. n : s[k] = t[k] /\ s[k] \in Bytes
    PROVE  SubSeq(s, m, n) = SubSeq(t, m, n)
<1> DEFINE a == SubSeq(s, m, n)
           z == SubSeq(t, m, n)
<1>1. /\ a \in Seq(Bytes) /\ z \in Seq(Bytes) /\ Len(a) = Len(z)
      /\ Len(a) = IF m <= n THEN n - m + 1 ELSE 0
      /\ \A i \in 1 .. n - m + 1 : a[i] = s[m + i - 1] /\ z[i] = t[m + i - 1]
  BY SubSeqProperties
<1> HIDE DEF a, z
<1>2. ASSUME NEW i \in 1 .. Len(a) PROVE a[i] = z[i]
  <2>1. i \in 1 .. n - m + 1
    BY <1>1
  <2>2. m + i - 1 \in m .. n
    BY <2>1
  <2> QED
    BY <1>1, <2>1, <2>2
<1>3. a = z
  BY <1>1, <1>2, SeqEqual
<1> QED
  BY <1>3 DEF a, z
-----------------------------------------------------------------------------
(***************************************************************************)
(* The lines of an output.                                                 *)
(***************************************************************************)
\* The line of s that starts at i ends before e.
EndsAt(s, i, e) ==
    /\ e \in i .. Len(s) + 1
    /\ e = Len(s) + 1 \/ s[e] = Newline
    /\ \A k \in i .. e - 1 : s[k] # Newline

\* What endLine makes of the lines before c of s: a line counts if it is too long
\* or not blank, and the last one that counts decides.
Counts(l) == Len(l) > MaxResult \/ TrimSpace(l) # <<>>

Counting(s, c) == {i \in Starts(s) : i < c /\ Counts(LineFrom(s, i))}

Top(T) == CHOOSE i \in T : \A j \in T : i >= j

Picked(s, T) ==
    LET final == LineFrom(s, Top(T))
    IN  IF T = {} \/ Len(final) > MaxResult THEN <<>> ELSE TrimSpace(final)

Before(s, c) == Picked(s, Counting(s, c))

\* There is one greatest number.
LEMMA TopIs ==
    ASSUME NEW T, T \subseteq Int, NEW x \in T, \A y \in T : x >= y
    PROVE  Top(T) = x
<1>1. PICK z : z = Top(T)
  OBVIOUS
<1>2. z \in T /\ \A y \in T : z >= y
  BY <1>1 DEF Top
<1>3. z \in Int /\ x \in Int /\ z >= x /\ x >= z
  BY <1>2
<1> QED
  BY <1>1, <1>3

\* A line starts at the front or after a newline.
LEMMA StartIs ==
    ASSUME NEW s \in Seq(Bytes), NEW i
    PROVE  /\ i \in Starts(s) <=> i = 1 \/ (i - 1 \in 1 .. Len(s) /\ s[i - 1] = Newline /\ i \in Int)
           /\ i \in Starts(s) => i \in 1 .. Len(s) + 1
<1>1. DOMAIN s = 1 .. Len(s) /\ Len(s) \in Nat
  OBVIOUS
<1>2. ASSUME i \in Starts(s), i # 1
      PROVE  i - 1 \in 1 .. Len(s) /\ s[i - 1] = Newline /\ i \in Int
  <2>1. PICK j \in DOMAIN s : s[j] = Newline /\ i = j + 1
    BY <1>2 DEF Starts
  <2>2. i - 1 = j /\ i \in Int
    BY <1>1, <2>1
  <2> QED
    BY <1>1, <2>1, <2>2
<1>3. ASSUME i - 1 \in 1 .. Len(s), s[i - 1] = Newline, i \in Int
      PROVE  i \in Starts(s)
  <2>1. i - 1 \in DOMAIN s /\ i = (i - 1) + 1
    BY <1>1, <1>3
  <2> QED
    BY <1>3, <2>1 DEF Starts
<1>4. 1 \in Starts(s)
  BY DEF Starts
<1>5. i \in Starts(s) => i \in 1 .. Len(s) + 1
  BY <1>1, <1>2
<1> QED
  BY <1>2, <1>3, <1>4, <1>5

\* Every line ends.
LEMMA LineEnds ==
    ASSUME NEW s \in Seq(Bytes), NEW i \in 1 .. Len(s) + 1
    PROVE  \E e : EndsAt(s, i, e)
<1> DEFINE T == {j \in i .. Len(s) + 1 : j = Len(s) + 1 \/ s[j] = Newline}
<1>1. Len(s) \in Nat
  OBVIOUS
<1>2. T \in SUBSET Nat /\ Len(s) + 1 \in T
  BY <1>1
<1>3. PICK e \in T : \A j \in T : e <= j
  BY <1>2, Least
<1>4. ASSUME NEW k \in i .. e - 1 PROVE s[k] # Newline
  <2>1. k \in i .. Len(s) + 1 /\ ~(e <= k)
    BY <1>1, <1>3
  <2>2. k \notin T
    BY <1>3, <2>1
  <2> QED
    BY <2>1, <2>2
<1> QED
  BY <1>3, <1>4 DEF EndsAt

\* It ends at one place only.
LEMMA OneEnd ==
    ASSUME NEW s \in Seq(Bytes), NEW i \in Nat, NEW e, NEW f, EndsAt(s, i, e), EndsAt(s, i, f)
    PROVE  e = f
<1>1. Len(s) \in Nat
  OBVIOUS
<1>2. ASSUME NEW a, NEW z, EndsAt(s, i, a), EndsAt(s, i, z)
      PROVE  ~(a < z)
  <2> SUFFICES ASSUME a < z PROVE FALSE
    OBVIOUS
  <2>1. a \in i .. Len(s) + 1 /\ z \in i .. Len(s) + 1
    BY <1>2 DEF EndsAt
  <2>2. a # Len(s) + 1 /\ a \in i .. z - 1
    BY <1>1, <2>1
  <2> QED
    BY <1>2, <2>2 DEF EndsAt
<1>3. e \in Int /\ f \in Int
  BY <1>1 DEF EndsAt
<1>4. ~(e < f) /\ ~(f < e)
  BY <1>2
<1> QED
  BY <1>3, <1>4

\* LineFrom goes up to that place.
LEMMA LineFromIs ==
    ASSUME NEW s \in Seq(Bytes), NEW i \in Nat, NEW e, EndsAt(s, i, e)
    PROVE  LineFrom(s, i) = SubSeq(s, i, e - 1)
<1> DEFINE end == CHOOSE j \in i .. Len(s) + 1 :
                     /\ j = Len(s) + 1 \/ s[j] = Newline
                     /\ \A k \in i .. j - 1 : s[k] # Newline
<1>1. /\ e \in i .. Len(s) + 1
      /\ e = Len(s) + 1 \/ s[e] = Newline
      /\ \A k \in i .. e - 1 : s[k] # Newline
  BY DEF EndsAt
<1>2. /\ end \in i .. Len(s) + 1
      /\ end = Len(s) + 1 \/ s[end] = Newline
      /\ \A k \in i .. end - 1 : s[k] # Newline
  BY <1>1
<1>3. LineFrom(s, i) = SubSeq(s, i, end - 1)
  BY DEF LineFrom
<1> HIDE DEF end
<1>4. EndsAt(s, i, end)
  BY <1>2 DEF EndsAt
<1>5. end = e
  BY <1>4, OneEnd
<1> QED
  BY <1>3, <1>5

\* The lines before c are the same in every output that has the same bytes
\* there.
LEMMA SameBefore ==
    ASSUME NEW s \in Seq(Bytes), NEW t \in Seq(Bytes), NEW c \in Nat \ {0},
           c - 1 <= Len(s), c - 1 <= Len(t), \A k \in 1 .. c - 1 : s[k] = t[k],
           c = 1 \/ s[c - 1] = Newline
    PROVE  Before(s, c) = Before(t, c)
<1>1. Len(s) \in Nat /\ Len(t) \in Nat
  OBVIOUS
<1>2. ASSUME NEW i \in Starts(s), i < c
      PROVE  i \in Starts(t) /\ LineFrom(s, i) = LineFrom(t, i)
  <2>1. i \in 1 .. Len(s) + 1 /\ c # 1 /\ i \in Nat
    BY <1>1, <1>2, StartIs
  <2>2. i \in Starts(t)
    <3>1. CASE i = 1
      BY <3>1, StartIs
    <3>2. CASE i # 1
      <4>1. i - 1 \in 1 .. Len(s) /\ s[i - 1] = Newline
        BY <3>2, StartIs
      <4>2. i - 1 \in 1 .. c - 1 /\ i - 1 \in 1 .. Len(t) /\ i \in Int
        BY <1>1, <1>2, <2>1, <4>1
      <4>3. t[i - 1] = Newline
        BY <4>1, <4>2
      <4> QED
        BY <4>2, <4>3, StartIs
    <3> QED
      BY <3>1, <3>2
  <2>3. PICK e : EndsAt(s, i, e)
    BY <2>1, LineEnds
  <2>4. e \in i .. Len(s) + 1
    BY <2>3 DEF EndsAt
  <2>5. e <= c - 1
    <3> SUFFICES ASSUME ~(e <= c - 1) PROVE FALSE
      OBVIOUS
    <3>1. c - 1 \in i .. e - 1
      BY <1>1, <1>2, <2>1, <2>4
    <3> QED
      BY <2>1, <2>3, <3>1 DEF EndsAt
  <2>6. s[e] = Newline /\ t[e] = Newline /\ e \in i .. Len(t) + 1
    BY <1>1, <2>1, <2>3, <2>4, <2>5 DEF EndsAt
  <2>7. \A k \in i .. e - 1 : s[k] = t[k] /\ s[k] \in Bytes
    BY <1>1, <2>1, <2>4, <2>5
  <2>8. EndsAt(t, i, e)
    BY <2>3, <2>6, <2>7 DEF EndsAt
  <2>9. LineFrom(s, i) = SubSeq(s, i, e - 1) /\ LineFrom(t, i) = SubSeq(t, i, e - 1)
    BY <2>1, <2>3, <2>8, LineFromIs
  <2>10. SubSeq(s, i, e - 1) = SubSeq(t, i, e - 1)
    BY <2>1, <2>4, <2>7, SameSubSeq
  <2> QED
    BY <2>2, <2>9, <2>10
<1>3. ASSUME NEW i \in Starts(t), i < c
      PROVE  i \in Starts(s)
  <2>1. CASE i = 1
    BY <2>1, StartIs
  <2>2. CASE i # 1
    <3>1. i - 1 \in 1 .. Len(t) /\ t[i - 1] = Newline /\ i \in Int
      BY <2>2, StartIs
    <3>2. i - 1 \in 1 .. c - 1 /\ i - 1 \in 1 .. Len(s)
      BY <1>1, <1>3, <3>1
    <3>3. s[i - 1] = Newline
      BY <3>1, <3>2
    <3> QED
      BY <3>1, <3>2, <3>3, StartIs
  <2> QED
    BY <2>1, <2>2
<1>4. Counting(s, c) = Counting(t, c)
  BY <1>2, <1>3 DEF Counting
<1> DEFINE T == Counting(s, c)
<1>5. CASE T = {}
  BY <1>4, <1>5 DEF Before, Picked
<1>6. CASE T # {}
  <2>1. T \in SUBSET (1 .. Len(s) + 1)
    BY StartIs DEF Counting
  <2>2. Top(T) \in T
    <3> HIDE DEF T
    <3>1. Len(s) + 1 \in Nat
      BY <1>1
    <3>2. PICK x \in T : \A y \in T : x >= y
      BY <1>6, <2>1, <3>1, Greatest
    <3> QED
      BY <3>2 DEF Top
  <2>3. LineFrom(s, Top(T)) = LineFrom(t, Top(T))
    BY <1>2, <2>2 DEF Counting
  <2> HIDE DEF T
  <2>4. Picked(s, T) = Picked(t, T)
    BY <2>3 DEF Picked
  <2> QED
    BY <1>4, <2>4 DEF Before, T
<1> QED
  BY <1>5, <1>6

\* A line more: the result is that line's if it counts, and else that of the
\* lines before it.
LEMMA OneLineMore ==
    ASSUME NEW s \in Seq(Bytes), NEW c \in Starts(s), NEW e, EndsAt(s, c, e)
    PROVE  LET l == SubSeq(s, c, e - 1)
           IN  Before(s, e + 1) =
                 IF Len(l) > MaxResult THEN <<>>
                 ELSE IF TrimSpace(l) # <<>> THEN TrimSpace(l) ELSE Before(s, c)
<1> DEFINE l == SubSeq(s, c, e - 1)
           S == Counting(s, c)
           T == Counting(s, e + 1)
<1>1. Len(s) \in Nat /\ c \in 1 .. Len(s) + 1 /\ c \in Nat /\ e \in c .. Len(s) + 1
  BY StartIs DEF EndsAt
<1>2. LineFrom(s, c) = l
  BY <1>1, LineFromIs
<1>3. ASSUME NEW i \in Starts(s), i < e + 1
      PROVE  i < c \/ i = c
  <2> SUFFICES ASSUME i > c PROVE FALSE
    BY <1>1, StartIs
  <2>1. i - 1 \in 1 .. Len(s) /\ s[i - 1] = Newline
    BY <1>1, StartIs
  <2>2. i - 1 \in c .. e - 1
    BY <1>1, <1>3, <2>1, StartIs
  <2> QED
    BY <2>1, <2>2 DEF EndsAt
<1>4. T = IF Counts(l) THEN S \cup {c} ELSE S
  <2>1. c < e + 1 /\ \A i \in Starts(s) : i < c => i < e + 1
    BY <1>1, StartIs
  <2>2. ~(c < c)
    BY <1>1
  <2> HIDE DEF l
  <2> QED
    BY <1>2, <1>3, <2>1, <2>2 DEF Counting
<1> HIDE DEF l
<1>5. CASE ~Counts(l)
  <2>1. Before(s, e + 1) = Before(s, c)
    BY <1>4, <1>5 DEF Before
  <2> QED
    BY <1>5, <2>1 DEF Counts, l
<1>6. CASE Counts(l)
  <2>1. \A j \in S : c >= j
    BY <1>1, StartIs DEF Counting
  <2>2. c \in T /\ \A j \in T : c >= j
    BY <1>1, <1>4, <1>6, <2>1
  <2>3. \A i \in T : i \in Int
    BY <1>1, StartIs DEF Counting
  <2> HIDE DEF T
  <2>4. Top(T) = c
    <3>1. Top(T) \in T /\ \A j \in T : Top(T) >= j
      BY <2>2 DEF Top
    <3> QED
      BY <2>2, <2>3, <3>1
  <2>5. Before(s, e + 1) = IF Len(l) > MaxResult THEN <<>> ELSE TrimSpace(l)
    <3>1. Picked(s, T) = IF Len(l) > MaxResult THEN <<>> ELSE TrimSpace(l)
      BY <1>2, <2>2, <2>4 DEF Picked
    <3> QED
      BY <3>1 DEF Before, T
  <2> QED
    BY <1>6, <2>5 DEF Counts, l
<1> QED
  BY <1>5, <1>6

\* For the whole output that is its result, unless the last line that counts is
\* blank and too long.
LEMMA ResultIs ==
    ASSUME NEW s \in Seq(Bytes)
    PROVE  Before(s, Len(s) + 2) = IF Invalidated(s) THEN <<>> ELSE Result(s)
<1> DEFINE T == {i \in Starts(s) : Counts(LineFrom(s, i))}
           S == Solid(s)
           L == LongBlank(s)
<1>1. \A i \in Starts(s) : i < Len(s) + 2 /\ i \in 1 .. Len(s) + 1
  BY StartIs
<1>2. Counting(s, Len(s) + 2) = T
  BY <1>1, Zenon DEF Counting
<1>3. Before(s, Len(s) + 2) = Picked(s, T) /\ Result(s) = Picked(s, S)
  <2>1. Before(s, Len(s) + 2) = Picked(s, T)
    BY <1>2, Zenon DEF Before
  <2>2. Result(s) = Picked(s, S)
    BY Zenon DEF Result, Picked, Top
  <2> QED
    BY <2>1, <2>2
<1>4. T = S \cup L /\ S \cap L = {} /\ \A i \in L : Len(LineFrom(s, i)) > MaxResult
  BY Zenon DEF Counts, Solid, LongBlank
<1>5. T \in SUBSET (1 .. Len(s) + 1) /\ S \in SUBSET (1 .. Len(s) + 1) /\ Len(s) + 1 \in Nat
  BY <1>1 DEF Solid
<1>6. Invalidated(s) <=> \E i \in L : \A j \in S : j < i
  BY Zenon DEF Invalidated
<1> HIDE DEF T, S, L
<1>7. CASE T = {}
  <2>1. S = {} /\ ~Invalidated(s)
    BY <1>4, <1>6, <1>7
  <2> QED
    BY <1>3, <1>7, <2>1 DEF Picked
<1>8. CASE T # {}
  <2>1. PICK x \in T : \A y \in T : x >= y
    BY <1>5, <1>8, Greatest
  <2>2. x \in Int /\ T \subseteq Int /\ S \subseteq Int
    BY <1>5
  <2>3. Top(T) = x
    BY <2>1, <2>2, TopIs
  <2>4. CASE Invalidated(s)
    <3>1. PICK i \in L : \A j \in S : j < i
      BY <1>6, <2>4
    <3>2. x >= i /\ i \in Int /\ ~(x < i)
      BY <1>4, <2>1, <2>2
    <3>3. Len(LineFrom(s, x)) > MaxResult
      BY <1>4, <2>1, <3>1, <3>2
    <3> QED
      BY <1>3, <1>8, <2>3, <2>4, <3>3 DEF Picked
  <2>5. CASE ~Invalidated(s)
    <3>1. x \in S
      <4> SUFFICES ASSUME x \in L PROVE FALSE
        BY <1>4, <2>1
      <4>1. PICK j \in S : ~(j < x)
        BY <1>6, <2>5
      <4>2. j = x
        BY <1>4, <2>1, <2>2, <4>1
      <4> QED
        BY <1>4, <4>1, <4>2
    <3>2. \A y \in S : x >= y
      BY <1>4, <2>1
    <3>3. Top(S) = x
      BY <2>2, <3>1, <3>2, TopIs
    <3>4. Picked(s, T) = Picked(s, S)
      BY <1>8, <2>3, <3>1, <3>3 DEF Picked
    <3> QED
      BY <1>3, <2>5, <3>4
  <2> QED
    BY <2>4, <2>5
<1> QED
  BY <1>7, <1>8
-----------------------------------------------------------------------------
\* take holds no more than MaxResult bytes.
LEMMA TakenOK ==
    ASSUME IInv, NEW b \in Seq(Bytes)
    PROVE  Taken(b) \in Seq(Bytes) /\ Len(Taken(b)) <= MaxResult
<1>1. CASE TooLong(b)
  BY <1>1, LastLineBound DEF Taken
<1>2. CASE ~TooLong(b)
  <2>1. Taken(b) = buf \o b /\ Len(buf) + Len(b) <= MaxResult
    BY <1>2, LastLineBound DEF Taken, TooLong, IInv, Types
  <2>2. buf \o b \in Seq(Bytes) /\ Len(buf \o b) = Len(buf) + Len(b)
    BY DEF IInv, Types
  <2> QED
    BY <2>1, <2>2
<1> QED
  BY <1>1, <1>2

\* endLine keeps no longer line.
LEMMA EndLineOK ==
    ASSUME IInv, NEW b \in Seq(Bytes), Len(b) <= MaxResult, NEW l
    PROVE  EndLine(b, l) \in Seq(Bytes) /\ Len(EndLine(b, l)) <= MaxResult
<1>1. TrimSpace(b) \in Seq(Bytes) /\ Len(TrimSpace(b)) <= MaxResult
  BY TrimSpaceOK, LastLineBound
<1>2. <<>> \in Seq(Bytes) /\ Len(<<>>) <= MaxResult
  BY LastLineBound
<1>3. EndLine(b, l) \in {<<>>, TrimSpace(b), last}
  BY Zenon DEF EndLine
<1> QED
  BY <1>1, <1>2, <1>3 DEF IInv, Types, MemoryBounded

\* Write finds the first newline of the chunk, if there is one.
LEMMA NextNewlineOK ==
    ASSUME IInv
    PROVE  /\ NextNewline > 0 => /\ NextNewline \in 1 .. Len(rest)
                                 /\ rest[NextNewline] = Newline
                                 /\ \A j \in 1 .. NextNewline - 1 : rest[j] # Newline
           /\ NextNewline = 0 => \A j \in 1 .. Len(rest) : rest[j] # Newline
<1> DEFINE T == {i \in DOMAIN rest : rest[i] = Newline}
<1>1. T \in SUBSET Nat /\ DOMAIN rest = 1 .. Len(rest) /\ Len(rest) \in Nat
  BY DEF IInv, Types
<1>2. CASE T = {}
  <2>1. NextNewline = 0
    BY <1>2 DEF NextNewline
  <2> QED
    BY <1>1, <1>2, <2>1
<1>3. CASE T # {}
  <2>1. PICK i \in T : \A j \in T : i <= j
    BY <1>1, <1>3, Least
  <2>2. rest[i] = Newline /\ \A j \in 1 .. i - 1 : rest[j] # Newline
    BY <1>1, <2>1
  <2>3. NextNewline = CHOOSE k \in DOMAIN rest :
                         rest[k] = Newline /\ \A j \in 1 .. k - 1 : rest[j] # Newline
    BY <1>3 DEF NextNewline
  <2>4. /\ NextNewline \in DOMAIN rest /\ rest[NextNewline] = Newline
        /\ \A j \in 1 .. NextNewline - 1 : rest[j] # Newline
    BY <2>1, <2>2, <2>3
  <2> QED
    BY <1>1, <2>4
<1> QED
  BY <1>2, <1>3

\* Types and bounds are kept whatever is written.
LEMMA InductiveInvariant == Spec => []IInv
<1>1. Init => IInv
  BY LastLineBound DEF Init, IInv, Types, MemoryBounded
<1>2. ASSUME IInv, [Next]_vars
      PROVE  IInv'
  <2>1. ASSUME NEW b \in Chunks, Write(b)
        PROVE  IInv'
    <3>1. b \in Seq(Bytes)
      BY LastLineBound DEF Chunks
    <3> QED
      BY <1>2, <2>1, <3>1 DEF Write, IInv, Types, MemoryBounded
  <2>2. CASE WriteLine
    <3> DEFINE i == NextNewline
               b == SubSeq(rest, 1, i - 1)
    <3>1. /\ i > 0
          /\ last' = EndLine(Taken(b), TooLong(b)) /\ buf' = <<>>
          /\ rest' = SubSeq(rest, i + 1, Len(rest)) /\ out' = out
      BY <2>2 DEF WriteLine
    <3>2. i \in 1 .. Len(rest) /\ rest \in Seq(Bytes) /\ Len(rest) \in Nat
      BY <1>2, <3>1, NextNewlineOK DEF IInv, Types
    <3> HIDE DEF i
    <3>3. b \in Seq(Bytes) /\ rest' \in Seq(Bytes)
      <4>1. \A j \in 1 .. i - 1 : rest[j] \in Bytes
        BY <3>2
      <4>2. \A j \in i + 1 .. Len(rest) : rest[j] \in Bytes
        BY <3>2
      <4> QED
        BY <3>1, <3>2, <4>1, <4>2, SubSeqProperties
    <3> HIDE DEF b
    <3>4. last' \in Seq(Bytes) /\ Len(last') <= MaxResult
      BY <1>2, <3>1, <3>3, TakenOK, EndLineOK
    <3> QED
      BY <1>2, <3>1, <3>3, <3>4, LastLineBound DEF IInv, Types, MemoryBounded
  <2>3. CASE WritePart
    <3>1. buf' \in Seq(Bytes) /\ Len(buf') <= MaxResult
      BY <1>2, <2>3, TakenOK DEF WritePart, IInv, Types
    <3> QED
      BY <1>2, <2>3, <3>1 DEF WritePart, IInv, Types, MemoryBounded
  <2>4. CASE UNCHANGED vars
    BY <1>2, <2>4 DEF vars, IInv, Types, MemoryBounded
  <2> QED
    BY <1>2, <2>1, <2>2, <2>3, <2>4 DEF Next
<1> QED
  BY <1>1, <1>2, PTL DEF Spec

\* Whatever a worker writes and however it is cut, no more than MaxResult bytes
\* are held of the line under way and none longer is kept.
THEOREM MemoryIsBounded == Spec => []MemoryBounded
<1>1. IInv => MemoryBounded
  BY DEF IInv
<1> QED
  BY InductiveInvariant, <1>1, PTL
-----------------------------------------------------------------------------
(***************************************************************************)
(* Line is the result of the whole output.                                 *)
(***************************************************************************)
\* The bytes of the output that Write has consumed; what it has not is next.
Consumed == Len(out) - Len(rest)

Ahead ==
    /\ Len(rest) <= Len(out)
    /\ \A i \in 1 .. Len(rest) : rest[i] = out[Consumed + i]

\* The line under way starts at c: it is in buf unless it is too long, and last
\* is the result of the lines before it.
AtLine(c) ==
    /\ c = 1 \/ out[c - 1] = Newline
    /\ \A k \in c .. Consumed : out[k] # Newline
    /\ long <=> Consumed - c + 1 > MaxResult
    /\ long => buf = <<>>
    /\ ~long => buf = SubSeq(out, c, Consumed)
    /\ last = Before(out, c)

Parsed == Ahead /\ \E c \in 1 .. Consumed + 1 : AtLine(c)

\* take appends what comes next to the line under way.
LEMMA TakenIs ==
    ASSUME IInv, Ahead, NEW c \in 1 .. Consumed + 1, AtLine(c),
           NEW b \in Seq(Bytes), Len(b) <= Len(rest), \A j \in 1 .. Len(b) : b[j] = rest[j]
    PROVE  LET n == Consumed + Len(b)
           IN  /\ TooLong(b) <=> n - c + 1 > MaxResult
               /\ TooLong(b) => Taken(b) = <<>>
               /\ ~TooLong(b) => Taken(b) = SubSeq(out, c, n)
<1> DEFINE n == Consumed + Len(b)
<1>1. /\ Len(out) \in Nat /\ Len(rest) \in Nat /\ Len(b) \in Nat /\ MaxResult \in Nat
      /\ Consumed \in Nat /\ Consumed = Len(out) - Len(rest)
      /\ \A k \in 1 .. Len(out) : out[k] \in Bytes
  BY LastLineBound DEF IInv, Types, Ahead, Consumed
<1>2. TooLong(b) => Taken(b) = <<>>
  BY DEF Taken
<1>3. CASE long
  <2>1. Consumed - c + 1 > MaxResult /\ TooLong(b)
    BY <1>3 DEF AtLine, TooLong
  <2>2. n - c + 1 > MaxResult
    BY <1>1, <2>1
  <2> QED
    BY <1>2, <2>1, <2>2
<1>4. CASE ~long
  <2>1. buf = SubSeq(out, c, Consumed)
    BY <1>4 DEF AtLine
  <2>2. /\ Len(buf) = Consumed - c + 1 /\ buf \in Seq(Bytes)
        /\ \A i \in 1 .. Consumed - c + 1 : buf[i] = out[c + i - 1]
    <3>1. c \in Int /\ Consumed \in Int /\ \A k \in c .. Consumed : out[k] \in Bytes
      BY <1>1
    <3>2. /\ Len(SubSeq(out, c, Consumed)) = IF c <= Consumed THEN Consumed - c + 1 ELSE 0
          /\ SubSeq(out, c, Consumed) \in Seq(Bytes)
          /\ \A i \in 1 .. Consumed - c + 1 : SubSeq(out, c, Consumed)[i] = out[c + i - 1]
      BY <3>1, SubSeqProperties
    <3>3. ~(c <= Consumed) => Consumed - c + 1 = 0
      BY <1>1
    <3> QED
      BY <2>1, <3>2, <3>3
  <2>3. TooLong(b) <=> n - c + 1 > MaxResult
    <3>1. Len(buf) + Len(b) = n - c + 1
      BY <1>1, <2>2
    <3> QED
      BY <1>4, <3>1 DEF TooLong
  <2>4. buf \o b = SubSeq(out, c, n)
    <3> DEFINE s == SubSeq(out, c, n)
               t == buf \o b
    <3>1. c \in Int /\ n \in Int /\ c <= n + 1 /\ \A k \in c .. n : out[k] \in Bytes
      BY <1>1
    <3>2. /\ Len(s) = IF c <= n THEN n - c + 1 ELSE 0
          /\ s \in Seq(Bytes)
          /\ \A i \in 1 .. n - c + 1 : s[i] = out[c + i - 1]
      BY <3>1, SubSeqProperties
    <3>3. Len(s) = n - c + 1
      BY <3>1, <3>2
    <3>4. /\ t \in Seq(Bytes) /\ Len(t) = Len(buf) + Len(b)
          /\ \A i \in 1 .. Len(buf) + Len(b) :
                t[i] = IF i <= Len(buf) THEN buf[i] ELSE b[i - Len(buf)]
      BY <2>2, ConcatProperties
    <3>5. Len(t) = n - c + 1
      BY <1>1, <2>2, <3>4
    <3> HIDE DEF s, t
    <3>6. ASSUME NEW i \in 1 .. Len(s) PROVE s[i] = t[i]
      <4>1. i \in 1 .. n - c + 1 /\ i \in 1 .. Len(buf) + Len(b)
        BY <3>3, <3>4, <3>5
      <4>2. CASE i <= Len(buf)
        <5>1. i \in 1 .. Consumed - c + 1
          BY <1>1, <2>2, <4>1, <4>2
        <5>2. t[i] = buf[i] /\ s[i] = out[c + i - 1]
          BY <3>2, <3>4, <4>1, <4>2
        <5> QED
          BY <2>2, <5>1, <5>2
      <4>3. CASE ~(i <= Len(buf))
        <5>1. i - Len(buf) \in 1 .. Len(b) /\ i - Len(buf) \in 1 .. Len(rest)
          BY <1>1, <2>2, <4>1, <4>3
        <5>2. t[i] = out[Consumed + (i - Len(buf))]
          BY <3>4, <4>1, <4>3, <5>1 DEF Ahead
        <5>3. Consumed + (i - Len(buf)) = c + i - 1
          BY <1>1, <2>2
        <5> QED
          BY <3>2, <4>1, <5>2, <5>3
      <4> QED
        BY <4>2, <4>3
    <3>7. s = t
      BY <3>2, <3>3, <3>4, <3>5, <3>6, SeqEqual
    <3> QED
      BY <3>7 DEF s, t
  <2> QED
    BY <1>2, <2>3, <2>4 DEF Taken
<1> QED
  BY <1>3, <1>4

\* A chunk is put behind what there is and changes no line that has ended.
LEMMA WriteParsed ==
    ASSUME IInv, Parsed, NEW b \in Seq(Bytes), Write(b)
    PROVE  Parsed'
<1>1. PICK c \in 1 .. Consumed + 1 : AtLine(c)
  BY DEF Parsed
<1>2. /\ rest = <<>> /\ rest' = b /\ out' = out \o b
      /\ UNCHANGED <<buf, long, last>> /\ out \in Seq(Bytes)
  BY DEF Write, IInv, Types
<1>3. /\ Len(out) \in Nat /\ Len(b) \in Nat /\ Len(out') = Len(out) + Len(b) /\ out' \in Seq(Bytes)
      /\ \A i \in 1 .. Len(out) + Len(b) :
            out'[i] = IF i <= Len(out) THEN out[i] ELSE b[i - Len(out)]
  BY <1>2, ConcatProperties
<1>4. Consumed = Len(out) /\ Consumed' = Len(out)
  BY <1>2, <1>3 DEF Consumed
<1>5. c \in 1 .. Len(out) + 1 /\ \A k \in 1 .. Len(out) : out'[k] = out[k] /\ out[k] \in Bytes
  BY <1>1, <1>2, <1>3, <1>4
<1>6. Ahead'
  <2>1. \A i \in 1 .. Len(b) : b[i] = out'[Len(out) + i]
    <3> SUFFICES ASSUME NEW i \in 1 .. Len(b) PROVE b[i] = out'[Len(out) + i]
      OBVIOUS
    <3>1. /\ Len(out) + i \in 1 .. Len(out) + Len(b) /\ ~(Len(out) + i <= Len(out))
          /\ (Len(out) + i) - Len(out) = i
      BY <1>3
    <3> QED
      BY <1>3, <3>1
  <2> QED
    BY <1>2, <1>3, <1>4, <2>1 DEF Ahead
<1>7. AtLine(c)'
  <2>1. c = 1 \/ out'[c - 1] = Newline
    BY <1>1, <1>3, <1>5 DEF AtLine
  <2>2. \A k \in c .. Consumed' : out'[k] # Newline
    BY <1>1, <1>3, <1>4, <1>5 DEF AtLine
  <2>3. SubSeq(out, c, Len(out)) = SubSeq(out', c, Len(out))
    BY <1>3, <1>5, SameSubSeq
  <2>4. Before(out, c) = Before(out', c)
    <3>1. /\ c \in Nat \ {0} /\ c - 1 <= Len(out) /\ c - 1 <= Len(out')
          /\ \A k \in 1 .. c - 1 : out[k] = out'[k]
      BY <1>3, <1>5
    <3>2. c = 1 \/ out[c - 1] = Newline
      BY <1>1 DEF AtLine
    <3> QED
      BY <1>2, <1>3, <3>1, <3>2, SameBefore
  <2>5. /\ long' <=> Consumed' - c + 1 > MaxResult
        /\ long' => buf' = <<>>
        /\ ~long' => buf' = SubSeq(out', c, Consumed')
        /\ last' = Before(out', c)
    BY <1>1, <1>2, <1>4, <2>3, <2>4, Zenon DEF AtLine
  <2> QED
    BY <2>1, <2>2, <2>5, Zenon DEF AtLine
<1> QED
  BY <1>4, <1>5, <1>6, <1>7 DEF Parsed

\* A newline ends the line under way and the next one starts behind it.
LEMMA WriteLineParsed ==
    ASSUME IInv, Parsed, WriteLine
    PROVE  Parsed'
<1> DEFINE i == NextNewline
           n == Consumed
           b == SubSeq(rest, 1, i - 1)
<1>0. PICK e : e = n + i
  OBVIOUS
<1>1. PICK c \in 1 .. Consumed + 1 : AtLine(c)
  BY DEF Parsed
<1>2. /\ last' = EndLine(Taken(b), TooLong(b)) /\ long' = FALSE /\ buf' = <<>>
      /\ rest' = SubSeq(rest, i + 1, Len(rest)) /\ out' = out /\ i > 0
  BY DEF WriteLine
<1>3. i \in 1 .. Len(rest) /\ rest[i] = Newline /\ \A j \in 1 .. i - 1 : rest[j] # Newline
  BY <1>2, NextNewlineOK
<1> HIDE DEF i
<1>4. /\ Len(out) \in Nat /\ Len(rest) \in Nat /\ Len(rest) <= Len(out) /\ MaxResult \in Nat
      /\ n \in Nat /\ n = Len(out) - Len(rest) /\ out \in Seq(Bytes) /\ rest \in Seq(Bytes)
      /\ \A j \in 1 .. Len(rest) : rest[j] = out[n + j] /\ rest[j] \in Bytes
  BY LastLineBound DEF IInv, Types, Parsed, Ahead, Consumed
<1>5. /\ b \in Seq(Bytes) /\ Len(b) = i - 1
      /\ \A j \in 1 .. Len(b) : b[j] = rest[j]
  <2>1. i - 1 \in Int /\ \A j \in 1 .. i - 1 : rest[j] \in Bytes
    BY <1>3, <1>4
  <2>2. /\ b \in Seq(Bytes)
        /\ Len(b) = IF 1 <= i - 1 THEN (i - 1) - 1 + 1 ELSE 0
        /\ \A j \in 1 .. (i - 1) - 1 + 1 : b[j] = rest[1 + j - 1]
    BY <2>1, SubSeqProperties
  <2>3. Len(b) = i - 1 /\ (i - 1) - 1 + 1 = i - 1
    BY <1>3, <1>4, <2>2
  <2>4. \A j \in 1 .. i - 1 : 1 + j - 1 = j
    BY <1>3
  <2> QED
    BY <2>2, <2>3, <2>4
<1> HIDE DEF b
<1>6. c \in 1 .. n + 1 /\ e \in c .. Len(out) /\ e \in Nat /\ e + 1 \in Nat
  BY <1>0, <1>1, <1>3, <1>4
<1>7. out[e] = Newline
  BY <1>0, <1>3, <1>4
<1>8. EndsAt(out, c, e)
  <2>1. ASSUME NEW k \in c .. e - 1 PROVE out[k] # Newline
    <3>1. CASE k <= n
      BY <1>1, <1>4, <1>6, <3>1 DEF AtLine
    <3>2. CASE ~(k <= n)
      <4>1. k - n \in 1 .. i - 1 /\ k - n \in 1 .. Len(rest) /\ n + (k - n) = k
        <5>1. k \in Int /\ k <= e - 1 /\ e = n + i /\ n \in Nat /\ i \in 1 .. Len(rest)
          BY <1>0, <1>3, <1>4, <1>6
        <5> HIDE DEF n
        <5> QED
          BY <1>4, <3>2, <5>1
      <4> QED
        BY <1>3, <1>4, <4>1
    <3> QED
      BY <3>1, <3>2
  <2> QED
    BY <1>4, <1>6, <1>7, <2>1 DEF EndsAt
<1>9. c \in Starts(out)
  <2>1. c = 1 \/ out[c - 1] = Newline
    BY <1>1 DEF AtLine
  <2>2. c # 1 => c - 1 \in 1 .. Len(out) /\ c \in Int
    BY <1>4, <1>6
  <2> QED
    BY <1>4, <2>1, <2>2, StartIs
<1> DEFINE l == SubSeq(out, c, e - 1)
<1>10. Len(l) = e - c
  <2>1. c \in Int /\ e - 1 \in Int /\ \A k \in c .. e - 1 : out[k] \in Bytes
    BY <1>4, <1>6
  <2>2. Len(l) = IF c <= e - 1 THEN (e - 1) - c + 1 ELSE 0
    BY <2>1, SubSeqProperties
  <2> QED
    BY <1>6, <2>2
<1>11. /\ TooLong(b) <=> Len(l) > MaxResult
       /\ ~TooLong(b) => Taken(b) = l
  <2>1. /\ TooLong(b) <=> (n + Len(b)) - c + 1 > MaxResult
        /\ ~TooLong(b) => Taken(b) = SubSeq(out, c, n + Len(b))
    <3>1. Len(b) <= Len(rest)
      BY <1>3, <1>4, <1>5
    <3> QED
      BY <1>1, <1>5, <3>1, TakenIs DEF Parsed
  <2>2. n + Len(b) = e - 1 /\ (n + Len(b)) - c + 1 = e - c
    BY <1>0, <1>3, <1>4, <1>5, <1>6
  <2> QED
    BY <1>10, <2>1, <2>2
<1>12. Before(out, e + 1) = IF Len(l) > MaxResult THEN <<>>
                            ELSE IF TrimSpace(l) # <<>> THEN TrimSpace(l) ELSE Before(out, c)
  BY <1>4, <1>8, <1>9, OneLineMore
<1> HIDE DEF l
<1>13. last' = Before(out', e + 1)
  BY <1>1, <1>2, <1>11, <1>12, Zenon DEF EndLine, AtLine
<1>14. /\ Len(rest') = Len(rest) - i
       /\ \A j \in 1 .. Len(rest) - i : rest'[j] = rest[i + j]
  <2>1. i + 1 \in Int /\ \A j \in i + 1 .. Len(rest) : rest[j] \in Bytes
    BY <1>3, <1>4
  <2>2. /\ Len(rest') = IF i + 1 <= Len(rest) THEN Len(rest) - (i + 1) + 1 ELSE 0
        /\ \A j \in 1 .. Len(rest) - (i + 1) + 1 : rest'[j] = rest[(i + 1) + j - 1]
    BY <1>2, <1>4, <2>1, SubSeqProperties
  <2>3. Len(rest') = Len(rest) - i
    BY <1>3, <1>4, <2>2
  <2>4. ASSUME NEW j \in 1 .. Len(rest) - i PROVE rest'[j] = rest[i + j]
    <3>1. j \in 1 .. Len(rest) - (i + 1) + 1 /\ (i + 1) + j - 1 = i + j
      BY <1>3, <1>4
    <3> QED
      BY <2>2, <3>1
  <2> QED
    BY <2>3, <2>4
<1>15. Consumed' = e
  <2>1. Consumed' = Len(out) - (Len(rest) - i)
    BY <1>2, <1>14 DEF Consumed
  <2> QED
    BY <1>0, <1>3, <1>4, <2>1
<1>16. Ahead'
  <2>1. Len(rest') <= Len(out')
    BY <1>2, <1>3, <1>4, <1>14
  <2>2. ASSUME NEW j \in 1 .. Len(rest') PROVE rest'[j] = out'[e + j]
    <3>1. j \in 1 .. Len(rest) - i
      BY <1>14, Zenon
    <3>2. i + j \in 1 .. Len(rest)
      BY <1>3, <1>4, <3>1
    <3>3. n + (i + j) = e + j
      <4>1. n \in Nat /\ i \in Int /\ j \in Int /\ e = n + i
        BY <1>0, <1>3, <1>4, <3>1
      <4> HIDE DEF n
      <4> QED
        BY <4>1
    <3> QED
      BY <1>2, <1>4, <1>14, <3>1, <3>2, <3>3
  <2> QED
    BY <1>15, <2>1, <2>2 DEF Ahead
<1>17. AtLine(e + 1)'
  <2>1. out'[(e + 1) - 1] = Newline
    <3>1. (e + 1) - 1 = e
      BY <1>6
    <3> QED
      BY <1>2, <1>7, <3>1
  <2>2. \A k \in e + 1 .. Consumed' : out'[k] # Newline
    BY <1>6, <1>15
  <2>3. ~(Consumed' - (e + 1) + 1 > MaxResult)
    BY <1>4, <1>6, <1>15
  <2>4. SubSeq(out', e + 1, Consumed') = <<>>
    <3>1. e + 1 \in Int /\ e \in Int /\ e < e + 1
      BY <1>6
    <3> QED
      BY <1>15, <3>1, SubSeqEmpty
  <2>5. ~long'
    BY <1>2, Zenon
  <2>6. buf' = <<>> /\ last' = Before(out', e + 1)
    BY <1>2, <1>13
  <2> QED
    BY <2>1, <2>2, <2>3, <2>4, <2>5, <2>6, Zenon DEF AtLine
<1>18. e + 1 \in 1 .. Consumed' + 1
  BY <1>6, <1>15
<1> QED
  BY <1>16, <1>17, <1>18 DEF Parsed

\* A chunk that ends without a newline goes to the line under way.
LEMMA WritePartParsed ==
    ASSUME IInv, Parsed, WritePart
    PROVE  Parsed'
<1> DEFINE n == Consumed
<1>1. PICK c \in 1 .. Consumed + 1 : AtLine(c)
  BY DEF Parsed
<1>2. /\ NextNewline = 0 /\ buf' = Taken(rest) /\ rest' = <<>>
      /\ last' = last /\ out' = out
  BY DEF WritePart
<1>3. long' <=> TooLong(rest)
  BY Zenon DEF WritePart
<1>4. /\ Len(out) \in Nat /\ Len(rest) \in Nat /\ Len(rest) <= Len(out) /\ MaxResult \in Nat
      /\ n \in Nat /\ n = Len(out) - Len(rest) /\ rest \in Seq(Bytes)
      /\ DOMAIN rest = 1 .. Len(rest)
      /\ \A j \in 1 .. Len(rest) : rest[j] = out[n + j]
  BY LastLineBound DEF IInv, Types, Parsed, Ahead, Consumed
<1>5. \A j \in 1 .. Len(rest) : rest[j] # Newline
  BY <1>2, <1>4, NextNewlineOK
<1>6. Consumed' = Len(out) /\ n + Len(rest) = Len(out) /\ Len(rest') = 0
  BY <1>2, <1>4 DEF Consumed
<1>7. Ahead'
  BY <1>2, <1>4, <1>6 DEF Ahead
<1>8. c \in 1 .. n + 1 /\ c \in 1 .. Consumed' + 1
  BY <1>1, <1>4, <1>6
<1>9. /\ TooLong(rest) <=> Len(out) - c + 1 > MaxResult
      /\ TooLong(rest) => Taken(rest) = <<>>
      /\ ~TooLong(rest) => Taken(rest) = SubSeq(out, c, Len(out))
  <2>1. /\ TooLong(rest) <=> (n + Len(rest)) - c + 1 > MaxResult
        /\ TooLong(rest) => Taken(rest) = <<>>
        /\ ~TooLong(rest) => Taken(rest) = SubSeq(out, c, n + Len(rest))
    BY <1>1, <1>4, TakenIs DEF Parsed
  <2> QED
    BY <1>6, <2>1
<1>10. ASSUME NEW k \in c .. Len(out) PROVE out[k] # Newline
  <2>1. CASE k <= n
    BY <1>1, <1>4, <1>8, <2>1 DEF AtLine
  <2>2. CASE ~(k <= n)
    <3>1. k - n \in 1 .. Len(rest) /\ n + (k - n) = k
      BY <1>4, <1>8, <2>2
    <3> QED
      BY <1>4, <1>5, <3>1
  <2> QED
    BY <2>1, <2>2
<1>11. AtLine(c)'
  <2>1. c = 1 \/ out'[c - 1] = Newline
    BY <1>1, <1>2 DEF AtLine
  <2>2. \A k \in c .. Consumed' : out'[k] # Newline
    BY <1>2, <1>6, <1>10
  <2>3. last' = Before(out', c)
    BY <1>1, <1>2 DEF AtLine
  <2> QED
    BY <1>2, <1>3, <1>6, <1>9, <2>1, <2>2, <2>3, Zenon DEF AtLine
<1> QED
  BY <1>7, <1>8, <1>11 DEF Parsed

\* Wherever the output is cut, buf, long and last tell what has been consumed.
LEMMA ParsedInvariant == Spec => [](IInv /\ Parsed)
<1>1. Init => Parsed
  <2> SUFFICES ASSUME Init PROVE Parsed
    OBVIOUS
  <2>1. /\ buf = <<>> /\ last = <<>> /\ rest = <<>> /\ out = <<>> /\ ~long
        /\ Consumed = 0 /\ MaxResult \in Nat
    BY LastLineBound DEF Init, Consumed
  <2>2. Ahead
    BY <2>1 DEF Ahead
  <2>3. Before(out, 1) = <<>>
    <3>1. out \in Seq(Bytes)
      BY <2>1
    <3>2. \A i \in Starts(out) : ~(i < 1)
      BY <3>1, StartIs
    <3>3. Counting(out, 1) = {}
      BY <3>2, Zenon DEF Counting
    <3> QED
      BY <3>3 DEF Before, Picked
  <2>4. SubSeq(out, 1, 0) = <<>>
    BY SubSeqEmpty
  <2>5. AtLine(1)
    BY <2>1, <2>3, <2>4 DEF AtLine
  <2> QED
    BY <2>1, <2>2, <2>5 DEF Parsed
<1>2. IInv /\ Parsed /\ [Next]_vars => Parsed'
  <2> SUFFICES ASSUME IInv, Parsed, [Next]_vars PROVE Parsed'
    OBVIOUS
  <2>1. ASSUME NEW b \in Chunks, Write(b) PROVE Parsed'
    <3>1. b \in Seq(Bytes)
      BY LastLineBound DEF Chunks
    <3> QED
      BY <2>1, <3>1, WriteParsed
  <2>2. CASE UNCHANGED vars
    BY <2>2 DEF vars, Parsed, Ahead, AtLine, Consumed
  <2> QED
    BY <2>1, <2>2, WriteLineParsed, WritePartParsed DEF Next
<1> QED
  BY <1>1, <1>2, InductiveInvariant, PTL DEF Spec

\* However a worker's output is cut into chunks, Line is its last line that is
\* not blank, or nothing if that one is too long or if a blank line that is too
\* long comes after it.
THEOREM LineIsRight == Spec => []LineIsResult
<1>1. IInv /\ Parsed => LineIsResult
  <2> SUFFICES ASSUME IInv, Parsed, rest = <<>>
               PROVE  Line = IF Invalidated(out) THEN <<>> ELSE Result(out)
    BY DEF LineIsResult
  <2> DEFINE n == Len(out)
  <2>1. n \in Nat /\ out \in Seq(Bytes) /\ Consumed = n /\ \A k \in 1 .. n : out[k] \in Bytes
    BY DEF IInv, Types, Consumed
  <2>2. PICK c \in 1 .. n + 1 : AtLine(c)
    BY <2>1 DEF Parsed
  <2> DEFINE l == SubSeq(out, c, (n + 1) - 1)
  <2>3. l = SubSeq(out, c, n) /\ Len(l) = n - c + 1
    <3>1. c \in Int /\ n \in Int /\ (n + 1) - 1 = n /\ \A k \in c .. n : out[k] \in Bytes
      BY <2>1
    <3>2. Len(SubSeq(out, c, n)) = IF c <= n THEN n - c + 1 ELSE 0
      BY <3>1, SubSeqProperties
    <3> QED
      BY <2>1, <3>1, <3>2
  <2>4. EndsAt(out, c, n + 1)
    BY <2>1, <2>2 DEF EndsAt, AtLine
  <2>5. c \in Starts(out)
    <3>1. c = 1 \/ out[c - 1] = Newline
      BY <2>2 DEF AtLine
    <3>2. c # 1 => c - 1 \in 1 .. Len(out) /\ c \in Int
      BY <2>1
    <3> QED
      BY <2>1, <3>1, <3>2, StartIs
  <2>6. Before(out, (n + 1) + 1) = IF Len(l) > MaxResult THEN <<>>
                                   ELSE IF TrimSpace(l) # <<>> THEN TrimSpace(l)
                                   ELSE Before(out, c)
    BY <2>1, <2>4, <2>5, OneLineMore
  <2>7. Before(out, (n + 1) + 1) = IF Invalidated(out) THEN <<>> ELSE Result(out)
    <3>1. Len(out) + 2 = (n + 1) + 1
      BY <2>1
    <3> QED
      BY <2>1, <3>1, ResultIs
  <2> HIDE DEF l
  <2>8. /\ long <=> Len(l) > MaxResult
        /\ ~long => buf = l
        /\ last = Before(out, c)
    BY <2>1, <2>2, <2>3 DEF AtLine
  <2>9. TrimSpace(<<>>) = <<>>
    BY DEF TrimSpace
  <2> QED
    BY <2>6, <2>7, <2>8, <2>9, Zenon DEF Line, EndLine
<1> QED
  BY <1>1, ParsedInvariant, PTL
=============================================================================
