-------------------------- MODULE ReadToolsProofs ---------------------------
(***************************************************************************)
(* Theorems about the tools that read, for every collection, limit, scan   *)
(* ceiling and number of edits, and every tool whose course is of the kind *)
(* CourseAssumption describes.                                             *)
(***************************************************************************)
EXTENDS ReadTools, InductionLemmas

-----------------------------------------------------------------------------
(***************************************************************************)
(* Sequences.                                                              *)
(***************************************************************************)
LEMMA MinOfTwo ==
    ASSUME NEW a \in Nat, NEW b \in Nat
    PROVE  Min({a, b}) = IF a < b THEN a ELSE b
<1> QED
    BY DEF Min

\* Skipping and taking yields a stretch of the sequence.
LEMMA SkipTakeShape ==
    ASSUME NEW S, NEW s \in Seq(S), NEW offset \in Nat, NEW n \in Nat
    PROVE  /\ SkipTake(s, offset, n) \in Seq(S)
           /\ Len(SkipTake(s, offset, n)) <= n
           /\ offset >= Len(s) => SkipTake(s, offset, n) = << >>
           /\ offset <= Len(s) =>
                 /\ offset + Len(SkipTake(s, offset, n)) <= Len(s)
                 /\ Len(SkipTake(s, offset, n)) < n => offset + Len(SkipTake(s, offset, n)) = Len(s)
                 /\ SkipTake(s, offset, n) =
                       SubSeq(s, offset + 1, offset + Len(SkipTake(s, offset, n)))
<1> DEFINE t == SkipTake(s, offset, n)
           last == IF offset + n < Len(s) THEN offset + n ELSE Len(s)
<1>1. t = SubSeq(s, offset + 1, last)
    BY MinOfTwo DEF SkipTake
<1>2. last \in Nat /\ last <= Len(s) /\ last <= offset + n
    OBVIOUS
<1> HIDE DEF t
<1>3. CASE offset >= Len(s)
    <2>1. offset + 1 > last
        BY <1>2, <1>3
    <2>2. t = << >>
        BY <1>1, <1>2, <2>1
    <2>3. t \in Seq(S) /\ Len(t) = 0
        BY <2>2
    <2>4. offset = Len(s) => SubSeq(s, offset + 1, offset + 0) = << >>
        OBVIOUS
    <2> QED BY <1>3, <2>2, <2>3, <2>4 DEF t
<1>4. CASE offset < Len(s)
    <2>1. offset + 1 \in 1..Len(s) /\ last \in 0..Len(s)
        BY <1>2, <1>4
    <2>2. t \in Seq(S) /\ Len(t) = IF offset + 1 <= last THEN last - offset ELSE 0
        BY <1>1, <2>1
    <2>3. last >= offset
        BY <1>2, <1>4
    <2>4. offset + Len(t) = last
        BY <1>2, <2>2, <2>3
    <2>5. /\ Len(t) <= n /\ offset + Len(t) <= Len(s)
          /\ Len(t) < n => offset + Len(t) = Len(s)
        BY <1>2, <2>2, <2>3, <2>4
    <2> QED BY <1>1, <1>4, <2>2, <2>4, <2>5 DEF t
<1> QED BY <1>3, <1>4

LEMMA ConcatShape ==
    ASSUME NEW S, NEW u \in Seq(S), NEW v \in Seq(S)
    PROVE  /\ u \o v \in Seq(S) /\ Len(u \o v) = Len(u) + Len(v)
           /\ Len(u) \in Nat /\ Len(v) \in Nat
           /\ DOMAIN (u \o v) = 1..(Len(u) + Len(v))
           /\ \A i \in 1..Len(u) : (u \o v)[i] = u[i]
           /\ \A i \in 1..Len(v) : (u \o v)[Len(u) + i] = v[i]
<1>1. u \o v \in Seq(S) /\ Len(u \o v) = Len(u) + Len(v) /\ Len(u) \in Nat /\ Len(v) \in Nat
    OBVIOUS
<1>2. \A i \in 1..Len(u) : (u \o v)[i] = u[i]
    OBVIOUS
<1>3. ASSUME NEW i \in 1..Len(v) PROVE (u \o v)[Len(u) + i] = v[i]
    <2>1. Len(u) + i \in 1..(Len(u) + Len(v)) /\ ~(Len(u) + i <= Len(u)) /\ (Len(u) + i) - Len(u) = i
        OBVIOUS
    <2>2. (u \o v)[Len(u) + i] = v[(Len(u) + i) - Len(u)]
        BY <2>1
    <2> QED BY <2>1, <2>2
<1> QED BY <1>1, <1>2, <1>3

\* A stretch that follows another one.
LEMMA SubSeqJoin ==
    ASSUME NEW S, NEW s \in Seq(S), NEW a \in 0..Len(s), NEW b \in a..Len(s), NEW c \in b..Len(s)
    PROVE  SubSeq(s, a + 1, b) \o SubSeq(s, b + 1, c) = SubSeq(s, a + 1, c)
<1> DEFINE u == SubSeq(s, a + 1, b)
           v == SubSeq(s, b + 1, c)
           w == SubSeq(s, a + 1, c)
<1>0. a \in Nat /\ b \in Nat /\ c \in Nat /\ Len(s) \in Nat /\ a <= b /\ b <= c /\ c <= Len(s)
    OBVIOUS
<1>1. u \in Seq(S) /\ Len(u) = b - a /\ \A i \in 1..(b - a) : u[i] = s[a + i]
    BY <1>0
<1>2. v \in Seq(S) /\ Len(v) = c - b /\ \A i \in 1..(c - b) : v[i] = s[b + i]
    BY <1>0
<1>3. w \in Seq(S) /\ Len(w) = c - a /\ \A i \in 1..(c - a) : w[i] = s[a + i]
    BY <1>0
<1> HIDE DEF u, v, w
<1>4. /\ u \o v \in Seq(S) /\ Len(u \o v) = (b - a) + (c - b)
      /\ \A i \in 1..(b - a) : (u \o v)[i] = u[i]
      /\ \A i \in 1..(c - b) : (u \o v)[(b - a) + i] = v[i]
    <2>1. /\ u \o v \in Seq(S) /\ Len(u \o v) = Len(u) + Len(v)
          /\ \A i \in 1..Len(u) : (u \o v)[i] = u[i]
          /\ \A i \in 1..Len(v) : (u \o v)[Len(u) + i] = v[i]
        <3>1. u \in Seq(S) /\ v \in Seq(S)
            BY <1>1, <1>2
        <3> QED BY <3>1, ConcatShape
    <2>2. Len(u) = b - a /\ Len(v) = c - b
        BY <1>1, <1>2
    <2> QED BY <2>1, <2>2
<1>5. ASSUME NEW i \in 1..(c - a) PROVE (u \o v)[i] = w[i]
    <2>1. CASE i <= b - a
        BY <1>0, <1>1, <1>3, <1>4, <2>1
    <2>2. CASE i > b - a
        <3> DEFINE k == i - (b - a)
        <3>1. k \in 1..(c - b) /\ (b - a) + k = i /\ b + k = a + i
            BY <1>0, <2>2
        <3> HIDE DEF k
        <3>2. (u \o v)[i] = s[b + k]
            BY <1>2, <1>4, <3>1
        <3>3. w[i] = s[a + i]
            BY <1>3
        <3>4. s[b + k] = s[a + i]
            BY <3>1
        <3> QED BY <3>2, <3>3, <3>4
    <2>3. i <= b - a \/ i > b - a
        BY <1>0
    <2> QED BY <2>1, <2>2, <2>3
<1>6. Len(u \o v) = c - a
    BY <1>0, <1>4
<1> DEFINE z == u \o v
<1>7. z \in Seq(S) /\ Len(z) = c - a /\ \A i \in 1..(c - a) : z[i] = w[i]
    BY <1>4, <1>5, <1>6
<1> HIDE DEF z
<1>8. z = w
    BY <1>3, <1>7
<1> QED BY <1>8 DEF u, v, w, z

LEMMA ReverseShape ==
    ASSUME NEW S, NEW s \in Seq(S)
    PROVE  /\ Reverse(s) \in Seq(S) /\ Len(Reverse(s)) = Len(s)
           /\ \A i \in 1..Len(s) : Reverse(s)[i] = s[(Len(s) - i) + 1] /\ (Len(s) - i) + 1 \in 1..Len(s)
<1>1. \A i \in 1..Len(s) : (Len(s) - i) + 1 \in 1..Len(s)
    OBVIOUS
<1> QED
    BY <1>1 DEF Reverse

\* An id put in at the front or at the end.
Inserted(s, n, x, t) ==
    /\ Len(t) = Len(s) + 1 /\ t[n] = x
    /\ \A i \in 1..(Len(s) + 1) : i # n =>
          \E j \in 1..Len(s) : t[i] = s[j] /\ j = IF i < n THEN i ELSE i - 1
    /\ \A j \in 1..Len(s) : \E i \in 1..(Len(s) + 1) : i # n /\ t[i] = s[j]

LEMMA InsertShape ==
    ASSUME NEW S, NEW s \in Seq(S), NEW x \in S, NEW n \in {1, Len(s) + 1}
    PROVE  InsertAt(s, n, x) \in Seq(S) /\ Inserted(s, n, x, InsertAt(s, n, x))
<1> SUFFICES
           /\ InsertAt(s, n, x) \in Seq(S) /\ Len(InsertAt(s, n, x)) = Len(s) + 1
           /\ InsertAt(s, n, x)[n] = x
           /\ \A i \in 1..(Len(s) + 1) : i # n =>
                 \E j \in 1..Len(s) : InsertAt(s, n, x)[i] = s[j] /\ j = IF i < n THEN i ELSE i - 1
           /\ \A j \in 1..Len(s) : \E i \in 1..(Len(s) + 1) : i # n /\ InsertAt(s, n, x)[i] = s[j]
    BY DEF Inserted
<1>0. Len(s) \in Nat /\ <<x>> \in Seq(S) /\ Len(<<x>>) = 1 /\ <<x>>[1] = x
    OBVIOUS
<1>1. CASE n = 1
    <2>1. InsertAt(s, n, x) = (<< >> \o <<x>>) \o s
        <3>1. SubSeq(s, 1, 0) = << >> /\ SubSeq(s, 1, Len(s)) = s
            OBVIOUS
        <3> QED BY <1>1, <3>1 DEF InsertAt
    <2>2. << >> \o <<x>> = <<x>>
        OBVIOUS
    <2>3. InsertAt(s, n, x) = <<x>> \o s
        BY <2>1, <2>2
    <2> DEFINE t == <<x>> \o s
    <2>4. /\ t \in Seq(S) /\ Len(t) = 1 + Len(s)
          /\ \A i \in 1..1 : t[i] = <<x>>[i]
          /\ \A i \in 1..Len(s) : t[1 + i] = s[i]
        BY <1>0, ConcatShape
    <2> HIDE DEF t
    <2>5. t[1] = x /\ Len(t) = Len(s) + 1
        BY <1>0, <2>4
    <2>6. ASSUME NEW i \in 1..(Len(s) + 1), i # 1
          PROVE  i - 1 \in 1..Len(s) /\ t[i] = s[i - 1] /\ ~(i < 1)
        <3>1. i - 1 \in 1..Len(s) /\ 1 + (i - 1) = i /\ ~(i < 1)
            BY <1>0, <2>6
        <3> QED BY <2>4, <3>1
    <2>7. ASSUME NEW j \in 1..Len(s)
          PROVE  j + 1 \in 1..(Len(s) + 1) /\ j + 1 # 1 /\ t[j + 1] = s[j]
        <3>1. j + 1 \in 1..(Len(s) + 1) /\ j + 1 # 1 /\ 1 + j = j + 1
            BY <1>0
        <3> QED BY <2>4, <3>1
    <2> QED BY <1>1, <2>3, <2>4, <2>5, <2>6, <2>7 DEF t
<1>2. CASE n = Len(s) + 1
    <2>1. InsertAt(s, n, x) = (s \o <<x>>) \o << >>
        <3>1. SubSeq(s, 1, (Len(s) + 1) - 1) = s
            <4>1. (Len(s) + 1) - 1 = Len(s) /\ SubSeq(s, 1, Len(s)) = s
                OBVIOUS
            <4> QED BY <4>1
        <3>2. SubSeq(s, Len(s) + 1, Len(s)) = << >>
            OBVIOUS
        <3> QED BY <1>2, <3>1, <3>2 DEF InsertAt
    <2>2. InsertAt(s, n, x) = Append(s, x)
        <3>1. s \o <<x>> = Append(s, x) /\ Append(s, x) \in Seq(S)
            OBVIOUS
        <3>2. Append(s, x) \o << >> = Append(s, x)
            BY <3>1
        <3> QED BY <2>1, <3>1, <3>2
    <2>3. /\ Append(s, x) \in Seq(S) /\ Len(Append(s, x)) = Len(s) + 1
          /\ \A i \in 1..Len(s) : Append(s, x)[i] = s[i]
          /\ Append(s, x)[Len(s) + 1] = x
        OBVIOUS
    <2>4. \A i \in 1..(Len(s) + 1) : i # Len(s) + 1 => i \in 1..Len(s) /\ i < Len(s) + 1
        BY <1>0
    <2>5. \A j \in 1..Len(s) : j \in 1..(Len(s) + 1) /\ j # Len(s) + 1
        BY <1>0
    <2> QED BY <1>2, <2>2, <2>3, <2>4, <2>5
<1> QED BY <1>1, <1>2

\* A place taken out.
Removed(s, n, t) ==
    /\ Len(t) = Len(s) - 1
    /\ \A i \in 1..(Len(s) - 1) :
          LET j == IF i < n THEN i ELSE i + 1 IN t[i] = s[j] /\ j \in 1..Len(s) /\ j # n
    /\ \A j \in 1..Len(s) : j # n => \E i \in 1..(Len(s) - 1) : t[i] = s[j]

LEMMA RemoveShape ==
    ASSUME NEW S, NEW s \in Seq(S), NEW n \in 1..Len(s)
    PROVE  RemoveAt(s, n) \in Seq(S) /\ Removed(s, n, RemoveAt(s, n))
<1> DEFINE u == SubSeq(s, 1, n - 1)
           v == SubSeq(s, n + 1, Len(s))
<1>0. Len(s) \in Nat /\ n \in Nat /\ n >= 1 /\ n <= Len(s)
    OBVIOUS
<1>1. u \in Seq(S) /\ Len(u) = n - 1 /\ \A i \in 1..(n - 1) : u[i] = s[i]
    BY <1>0
<1>2. v \in Seq(S) /\ Len(v) = Len(s) - n /\ \A i \in 1..(Len(s) - n) : v[i] = s[n + i]
    BY <1>0
<1> DEFINE t == u \o v
<1>3. RemoveAt(s, n) = t
    BY DEF RemoveAt
<1> HIDE DEF u, v
<1>4. /\ t \in Seq(S) /\ Len(t) = Len(u) + Len(v)
      /\ \A i \in 1..Len(u) : t[i] = u[i]
      /\ \A i \in 1..Len(v) : t[Len(u) + i] = v[i]
    <2>1. u \in Seq(S) /\ v \in Seq(S)
        BY <1>1, <1>2
    <2> QED BY <2>1, ConcatShape
<1> HIDE DEF t
<1>5. Len(t) = Len(s) - 1
    BY <1>0, <1>1, <1>2, <1>4
<1>6. ASSUME NEW i \in 1..(n - 1) PROVE t[i] = s[i]
    BY <1>1, <1>4
<1>7. ASSUME NEW i \in n..(Len(s) - 1) PROVE t[i] = s[i + 1]
    <2> DEFINE k == i - (n - 1)
    <2>1. k \in 1..(Len(s) - n) /\ (n - 1) + k = i /\ n + k = i + 1
        BY <1>0
    <2> HIDE DEF k
    <2>2. k \in 1..Len(v) /\ Len(u) + k = i
        BY <1>1, <1>2, <2>1
    <2>3. t[i] = v[k]
        BY <1>4, <2>2
    <2>4. v[k] = s[n + k]
        BY <1>2, <2>1
    <2> QED BY <2>1, <2>3, <2>4
<1>8. ASSUME NEW i \in 1..(Len(s) - 1)
      PROVE  LET j == IF i < n THEN i ELSE i + 1 IN t[i] = s[j] /\ j \in 1..Len(s) /\ j # n
    <2>1. CASE i < n
        <3>1. i \in 1..(n - 1) /\ i \in 1..Len(s) /\ i # n
            BY <1>0, <2>1
        <3> QED BY <1>6, <2>1, <3>1
    <2>2. CASE ~(i < n)
        <3>1. i \in n..(Len(s) - 1) /\ i + 1 \in 1..Len(s) /\ i + 1 # n
            BY <1>0, <2>2
        <3> QED BY <1>7, <2>2, <3>1
    <2> QED BY <2>1, <2>2
<1>9. ASSUME NEW j \in 1..Len(s), j # n PROVE \E i \in 1..(Len(s) - 1) : t[i] = s[j]
    <2>1. CASE j < n
        <3>1. j \in 1..(n - 1) /\ j \in 1..(Len(s) - 1)
            BY <1>0, <2>1
        <3> QED BY <1>6, <3>1
    <2>2. CASE ~(j < n)
        <3>1. j - 1 \in n..(Len(s) - 1) /\ j - 1 \in 1..(Len(s) - 1) /\ (j - 1) + 1 = j
            BY <1>0, <1>9, <2>2
        <3>2. t[j - 1] = s[j]
            BY <1>7, <3>1
        <3> QED BY <3>1, <3>2
    <2> QED BY <2>1, <2>2
<1> QED BY <1>3, <1>4, <1>5, <1>8, <1>9 DEF Removed

\* What a reading of ids looks like.
LEMMA ReadingShape ==
    ASSUME key \in [Ids -> Keys], NEW s \in Seq(Ids)
    PROVE  /\ Reading(s) \in Seq(RowRecord) /\ Len(Reading(s)) = Len(s)
           /\ DOMAIN Reading(s) = 1..Len(s)
           /\ \A n \in 1..Len(s) : Reading(s)[n].id = s[n] /\ Reading(s)[n].key = key[s[n]]
           /\ IdsOf(Reading(s)) = {s[n] : n \in DOMAIN s}
<1>1. \A n \in 1..Len(s) : Row(s[n]) \in RowRecord /\ Row(s[n]).id = s[n] /\ Row(s[n]).key = key[s[n]]
    BY DEF Row, RowRecord
<1>2. Reading(s) = [n \in 1..Len(s) |-> Row(s[n])]
    BY DEF Reading
<1> DEFINE t == Reading(s)
<1> HIDE DEF t
<1>3. t \in Seq(RowRecord) /\ Len(t) = Len(s) /\ DOMAIN t = 1..Len(s)
    BY <1>1, <1>2 DEF t
<1>4. \A n \in 1..Len(s) : t[n].id = s[n] /\ t[n].key = key[s[n]]
    BY <1>1, <1>2 DEF t
<1>5. IdsOf(t) = {s[n] : n \in DOMAIN s}
    BY <1>3, <1>4 DEF IdsOf
<1> QED BY <1>3, <1>4, <1>5 DEF t

\* Two readings with the same ids are the same.
LEMMA ReadingOf ==
    ASSUME NEW s, NEW t, s = t
    PROVE  Reading(s) = Reading(t)
<1> QED
    OBVIOUS

LEMMA RowsAtShape ==
    ASSUME WorldOK, NEW offset \in Nat, NEW n \in Nat
    PROVE  /\ RowsAt(offset, n) \in Seq(RowRecord)
           /\ Len(RowsAt(offset, n)) \in Nat /\ Len(RowsAt(offset, n)) <= n
           /\ offset >= Len(rows) => RowsAt(offset, n) = << >>
           /\ offset <= Len(rows) =>
                 /\ offset + Len(RowsAt(offset, n)) <= Len(rows)
                 /\ Len(RowsAt(offset, n)) < n => offset + Len(RowsAt(offset, n)) = Len(rows)
                 /\ RowsAt(offset, n) =
                       Reading(SubSeq(rows, offset + 1, offset + Len(RowsAt(offset, n))))
<1> DEFINE s == SkipTake(rows, offset, n)
<1>0. rows \in Seq(Ids) /\ key \in [Ids -> Keys] /\ Len(rows) \in Nat
    BY DEF WorldOK
<1>1. RowsAt(offset, n) = Reading(s)
    BY DEF RowsAt
<1>2. /\ s \in Seq(Ids) /\ Len(s) <= n
      /\ offset >= Len(rows) => s = << >>
      /\ offset <= Len(rows) => /\ offset + Len(s) <= Len(rows)
                                /\ Len(s) < n => offset + Len(s) = Len(rows)
                                /\ s = SubSeq(rows, offset + 1, offset + Len(s))
    BY <1>0, SkipTakeShape
<1> HIDE DEF s
<1>3. Reading(s) \in Seq(RowRecord) /\ Len(Reading(s)) = Len(s) /\ Len(s) \in Nat
    BY <1>0, <1>2, ReadingShape
<1>4. s = << >> => Reading(s) = << >>
    <2>1. s = << >> => Len(Reading(s)) = 0
        BY <1>3
    <2> QED BY <1>3, <2>1
<1>5. offset <= Len(rows) => Reading(s) = Reading(SubSeq(rows, offset + 1, offset + Len(s)))
    <2>1. offset <= Len(rows) => s = SubSeq(rows, offset + 1, offset + Len(s))
        BY <1>2
    <2> QED BY <2>1
<1> QED BY <1>1, <1>2, <1>3, <1>4, <1>5

\* The constants.
LEMMA Constants ==
    /\ Ids \subseteq Nat /\ Keys \subseteq Nat /\ IsFiniteSet(Ids) /\ IsFiniteSet(Keys)
    /\ Limits \subseteq Nat \ {0}
    /\ Cap \in Nat \ {0} /\ ScanLimit \in Nat \ {0} /\ Ceiling \in Nat \ {0}
    /\ LogFetch \in Nat \ {0} /\ MaxMessages \in Nat \ {0} /\ MaxBytes \in Nat \ {0}
    /\ Present \in Nat /\ 1..Present \subseteq Ids /\ MaxEdits \in Nat
    /\ Start \in Keys /\ Start \in Nat /\ End \notin Nat
<1> QED
    BY ReadToolsAssumption, EndAssumption

\* The last and the first of the keys.
LEMMA KeyBounds ==
    /\ LastKey \in Keys /\ LastKey \in Nat /\ \A k \in Keys : k <= LastKey
    /\ Min(Keys) \in Keys
<1>0. Keys \subseteq Nat /\ Keys # {} /\ IsFiniteSet(Keys)
    BY ReadToolsAssumption
<1>1. PICK n \in Keys : \A m \in Keys : m <= n
    BY <1>0, GreatestNatural
<1>2. PICK l \in Keys : \A m \in Keys : l <= m
    BY <1>0, LeastNatural
<1>3. \A m \in Keys : n >= m
    <2>1. \A m \in Keys : m \in Nat /\ n \in Nat
        BY <1>0
    <2> QED BY <1>1, <2>1
<1>4. LastKey \in Keys /\ \A m \in Keys : LastKey >= m
    BY <1>3 DEF LastKey, Max
<1>5. Min(Keys) \in Keys
    BY <1>2 DEF Min
<1>6. \A k \in Keys : k <= LastKey
    <2>1. \A m \in Keys : m \in Nat /\ LastKey \in Nat
        BY <1>0, <1>4
    <2> QED BY <1>4, <2>1
<1> QED BY <1>0, <1>4, <1>5, <1>6

\* What a tool is.
LEMMA ToolShape ==
    ASSUME AskOK
    PROVE  /\ ask.tool \in ToolRecord /\ CourseFits(ask.tool)
           /\ Course \in Seq(StepRecord) /\ Len(Course) \in Nat /\ DOMAIN Course = 1..Len(Course)
           /\ ask.tool.finish \in {"record", "asRead", "section", "bounded", "window"}
           /\ ask.tool.order \in {"none", "name", "nameAndId", "newest"}
<1>1. ask.tool \in ToolRecord /\ CourseFits(ask.tool)
    BY CourseAssumption DEF AskOK
<1>2. /\ ask.tool.course \in Seq(StepRecord)
      /\ ask.tool.finish \in {"record", "asRead", "section", "bounded", "window"}
      /\ ask.tool.order \in {"none", "name", "nameAndId", "newest"}
    BY <1>1 DEF ToolRecord
<1> QED BY <1>1, <1>2 DEF Course

-----------------------------------------------------------------------------
(***************************************************************************)
(* Replies.                                                                *)
(***************************************************************************)
LEMMA ReplyShape ==
    ASSUME NEW offset, NEW limit, NEW n
    PROVE  LET p == Reply(offset, limit, n)
           IN  /\ p = [offset |-> offset, limit |-> limit, count |-> Len(RowsAt(offset, n)),
                       total |-> Len(rows), rows |-> RowsAt(offset, n)]
               /\ p.offset = offset /\ p.limit = limit /\ p.count = Len(RowsAt(offset, n))
               /\ p.total = Len(rows) /\ p.rows = RowsAt(offset, n)
<1> QED
    BY DEF Reply

\* A right page: what it says is so.
LEMMA HonestShape ==
    ASSUME WorldOK, NEW offset \in Nat, NEW limit \in Nat \ {0}, NEW p \in HonestReplies(offset, limit)
    PROVE  /\ p.offset = offset /\ p.limit = limit /\ p.total \in Nat
           /\ \E n \in 1..limit : p.rows = RowsAt(offset, n)
           /\ ~At("catalog") => p.total = Len(rows)
           /\ At("catalog") => p.rows = RowsAt(offset, limit)
<1>0. Len(rows) \in Nat
    BY DEF WorldOK
<1>1. CASE At("catalog")
    <2>1. PICK more \in 0..1 : p = [Reply(offset, limit, limit) EXCEPT !.total = @ + more]
        BY <1>1 DEF HonestReplies
    <2>2. p = [[offset |-> offset, limit |-> limit, count |-> Len(RowsAt(offset, limit)),
                total |-> Len(rows), rows |-> RowsAt(offset, limit)] EXCEPT !.total = @ + more]
        BY <2>1, ReplyShape
    <2>3. /\ p.offset = offset /\ p.limit = limit /\ p.total = Len(rows) + more
          /\ p.rows = RowsAt(offset, limit)
        BY <2>2
    <2>4. limit \in 1..limit /\ Len(rows) + more \in Nat
        BY <1>0
    <2> QED BY <1>1, <2>3, <2>4
<1>2. CASE ~At("catalog")
    <2>1. PICK n \in 1..limit : p = Reply(offset, limit, n)
        BY <1>2 DEF HonestReplies
    <2>2. p.offset = offset /\ p.limit = limit /\ p.total = Len(rows) /\ p.rows = RowsAt(offset, n)
        BY <2>1, ReplyShape
    <2> QED BY <1>0, <1>2, <2>2
<1> QED BY <1>1, <1>2

\* A page that is wrong about one thing, or empty.
LEMMA OddShape ==
    ASSUME WorldOK, NEW offset \in Nat, NEW limit \in Nat \ {0}, NEW p \in OddReplies(offset, limit)
    PROVE  /\ p.offset \in Nat /\ p.limit \in Nat /\ p.total \in Nat
           /\ \E o \in {offset, offset + 1}, n \in {0, limit, limit + 1} : p.rows = RowsAt(o, n)
           /\ \/ p.offset # offset \/ p.limit > limit \/ p.limit = 0 \/ p.count # Len(p.rows)
              \/ /\ p.offset = offset /\ p.limit = limit
                 /\ p.total \in {Len(rows), Len(rows) + 1}
                 /\ p.rows = RowsAt(offset, limit) \/ (p.rows = RowsAt(offset, 0) /\ p.total = Len(rows))
<1> DEFINE full == Reply(offset, limit, limit)
           k == Len(RowsAt(offset, limit))
<1>0. Len(rows) \in Nat /\ k \in Nat /\ limit \in Nat
    BY RowsAtShape DEF WorldOK
<1>1. full = [offset |-> offset, limit |-> limit, count |-> k,
              total |-> Len(rows), rows |-> RowsAt(offset, limit)]
    BY ReplyShape
<1>2. CASE p = Reply(offset, limit, 0)
    <2>1. p.offset = offset /\ p.limit = limit /\ p.total = Len(rows) /\ p.rows = RowsAt(offset, 0)
        BY <1>2, ReplyShape
    <2> QED BY <1>0, <2>1
<1>3. CASE p = Reply(offset + 1, limit, limit)
    <2>1. /\ p.offset = offset + 1 /\ p.limit = limit /\ p.total = Len(rows)
          /\ p.rows = RowsAt(offset + 1, limit)
        BY <1>3, ReplyShape
    <2>2. offset + 1 # offset /\ offset + 1 \in Nat
        OBVIOUS
    <2> QED BY <1>0, <2>1, <2>2
<1>4. CASE p = Reply(offset, limit + 1, limit + 1)
    <2>1. /\ p.offset = offset /\ p.limit = limit + 1 /\ p.total = Len(rows)
          /\ p.rows = RowsAt(offset, limit + 1)
        BY <1>4, ReplyShape
    <2>2. limit + 1 > limit /\ limit + 1 \in Nat
        BY <1>0
    <2> QED BY <1>0, <2>1, <2>2
<1>5. CASE p = [full EXCEPT !.limit = 0]
    <2>1. p.offset = offset /\ p.limit = 0 /\ p.total = Len(rows) /\ p.rows = RowsAt(offset, limit)
        BY <1>1, <1>5
    <2> QED BY <1>0, <2>1
<1>6. CASE p = [full EXCEPT !.count = @ + 1]
    <2>1. /\ p.offset = offset /\ p.limit = limit /\ p.total = Len(rows) /\ p.count = k + 1
          /\ p.rows = RowsAt(offset, limit)
        BY <1>1, <1>6
    <2>2. k + 1 # k
        BY <1>0
    <2> QED BY <1>0, <2>1, <2>2
<1>7. CASE p = [full EXCEPT !.total = @ + 1]
    <2>1. /\ p.offset = offset /\ p.limit = limit /\ p.total = Len(rows) + 1
          /\ p.rows = RowsAt(offset, limit)
        BY <1>1, <1>7
    <2>2. Len(rows) + 1 \in Nat
        BY <1>0
    <2> QED BY <1>0, <2>1, <2>2
<1>8. CASE p = [full EXCEPT !.limit = limit + 1]
    <2>1. /\ p.offset = offset /\ p.limit = limit + 1 /\ p.total = Len(rows)
          /\ p.rows = RowsAt(offset, limit)
        BY <1>1, <1>8
    <2>2. limit + 1 > limit /\ limit + 1 \in Nat
        BY <1>0
    <2> QED BY <1>0, <2>1, <2>2
<1> QED BY <1>2, <1>3, <1>4, <1>5, <1>6, <1>7, <1>8 DEF OddReplies

LEMMA UnderstatedShape ==
    ASSUME WorldOK, NEW offset \in Nat, NEW limit \in Nat \ {0}, rows # << >>,
           NEW p \in UnderstatedReplies(offset, limit)
    PROVE  /\ p.offset \in Nat /\ p.limit \in Nat /\ p.total \in Nat
           /\ p.rows = RowsAt(offset, limit)
<1>1. p = [[offset |-> offset, limit |-> limit, count |-> Len(RowsAt(offset, limit)),
            total |-> Len(rows), rows |-> RowsAt(offset, limit)] EXCEPT !.total = @ - 1]
    BY ReplyShape DEF UnderstatedReplies
<1>2. p.offset = offset /\ p.limit = limit /\ p.total = Len(rows) - 1 /\ p.rows = RowsAt(offset, limit)
    BY <1>1
<1>3. Len(rows) - 1 \in Nat
    BY DEF WorldOK
<1> QED BY <1>2, <1>3

\* Where a reply comes from.
LEMMA ReplyFrom ==
    ASSUME NEW offset, NEW limit, NEW r \in Replies(offset, limit)
    PROVE  \/ r[2] = "honest" /\ r[1] \in HonestReplies(offset, limit)
           \/ r[2] = "odd" /\ r[1] \in OddReplies(offset, limit)
           \/ r[2] = "understated" /\ rows # << >> /\ r[1] \in UnderstatedReplies(offset, limit)
<1>1. CASE r \in {<<p, "honest">> : p \in HonestReplies(offset, limit)}
    BY <1>1
<1>2. CASE r \in {<<p, "odd">> : p \in OddReplies(offset, limit) \ HonestReplies(offset, limit)}
    BY <1>2
<1>3. CASE r \in {<<p, "understated">> :
                    p \in IF rows = << >> THEN {} ELSE UnderstatedReplies(offset, limit)}
    BY <1>3
<1> QED BY <1>1, <1>2, <1>3 DEF Replies

LEMMA ReplyTypes ==
    ASSUME WorldOK, NEW offset \in Nat, NEW limit \in Nat \ {0}, NEW r \in Replies(offset, limit)
    PROVE  /\ r[1].rows \in Seq(RowRecord) /\ Len(r[1].rows) \in Nat
           /\ r[1].offset \in Nat /\ r[1].limit \in Nat /\ r[1].total \in Nat
           /\ r[2] \in {"honest", "odd", "understated"}
<1>0. offset + 1 \in Nat /\ limit + 1 \in Nat /\ limit \in Nat /\ \A n \in 1..limit : n \in Nat
    OBVIOUS
<1>1. CASE r[2] = "honest" /\ r[1] \in HonestReplies(offset, limit)
    <2>1. /\ r[1].offset = offset /\ r[1].limit = limit /\ r[1].total \in Nat
          /\ \E n \in 1..limit : r[1].rows = RowsAt(offset, n)
        BY <1>1, HonestShape
    <2>2. PICK n \in 1..limit : r[1].rows = RowsAt(offset, n)
        BY <2>1
    <2>3. RowsAt(offset, n) \in Seq(RowRecord) /\ Len(RowsAt(offset, n)) \in Nat
        BY <1>0, RowsAtShape
    <2> QED BY <1>1, <2>1, <2>2, <2>3
<1>2. CASE r[2] = "odd" /\ r[1] \in OddReplies(offset, limit)
    <2>1. /\ r[1].offset \in Nat /\ r[1].limit \in Nat /\ r[1].total \in Nat
          /\ \E o \in {offset, offset + 1}, n \in {0, limit, limit + 1} : r[1].rows = RowsAt(o, n)
        BY <1>2, OddShape
    <2>2. PICK o \in {offset, offset + 1}, n \in {0, limit, limit + 1} : r[1].rows = RowsAt(o, n)
        BY <2>1
    <2>3. o \in Nat /\ n \in Nat
        BY <1>0
    <2> QED BY <1>2, <2>1, <2>2, <2>3, RowsAtShape
<1>3. CASE r[2] = "understated" /\ rows # << >> /\ r[1] \in UnderstatedReplies(offset, limit)
    <2>1. /\ r[1].offset \in Nat /\ r[1].limit \in Nat /\ r[1].total \in Nat
          /\ r[1].rows = RowsAt(offset, limit)
        BY <1>3, UnderstatedShape
    <2>2. RowsAt(offset, limit) \in Seq(RowRecord) /\ Len(RowsAt(offset, limit)) \in Nat
        BY <1>0, RowsAtShape
    <2> QED BY <1>3, <2>1, <2>2
<1> QED BY <1>1, <1>2, <1>3, ReplyFrom

-----------------------------------------------------------------------------
(***************************************************************************)
(* Filters and sorts.                                                      *)
(***************************************************************************)
\* R puts the members of P one after the other.
StrictOrder(P, R) ==
    /\ \A i \in P : <<i, i>> \notin R
    /\ \A i, j, k \in P : <<i, j>> \in R /\ <<j, k>> \in R => <<i, k>> \in R
    /\ \A i, j \in P : i # j => <<i, j>> \in R \/ <<j, i>> \in R

\* t shows what s has at the places of P, each once, in the order R.
Arrangement(s, P, R, t, at) ==
    /\ Cardinality(P) \in Nat
    /\ at \in [1..Cardinality(P) -> P]
    /\ t = [n \in 1..Cardinality(P) |-> s[at[n]]]
    /\ \A i \in P : \E n \in 1..Cardinality(P) : at[n] = i
    /\ \A m, n \in 1..Cardinality(P) : m < n => <<at[m], at[n]>> \in R
    /\ \A m, n \in 1..Cardinality(P) : at[m] = at[n] => m = n

LEMMA RankedIsArranged ==
    ASSUME NEW s, NEW P, IsFiniteSet(P), NEW R, StrictOrder(P, R), NEW t,
           t = [n \in 1..Cardinality(P) |-> t[n]],
           \A n \in 1..Cardinality(P) : \E i \in P : Rank(P, R, i) = n - 1 /\ t[n] = s[i]
    PROVE  \E at : Arrangement(s, P, R, t, at)
<1> DEFINE c == Cardinality(P)
           at == [n \in 1..c |-> CHOOSE i \in P : Rank(P, R, i) = n - 1 /\ t[n] = s[i]]
<1>1. \A n \in 1..c : at[n] \in P /\ Rank(P, R, at[n]) = n - 1 /\ t[n] = s[at[n]]
    OBVIOUS
<1>2. at \in [1..c -> P]
    OBVIOUS
<1> HIDE DEF at
<1>3. /\ \A i \in P : \E n \in 1..c : at[n] = i
      /\ \A m, n \in 1..c : m < n => <<at[m], at[n]>> \in R
      /\ \A m, n \in 1..c : at[m] = at[n] => m = n
    <2>1. \A n \in 1..c : Rank(P, R, at[n]) = n - 1
        BY <1>1
    <2>2. /\ \A i \in P : <<i, i>> \notin R
          /\ \A i, j, k \in P : <<i, j>> \in R /\ <<j, k>> \in R => <<i, k>> \in R
          /\ \A i, j \in P : i # j => <<i, j>> \in R \/ <<j, i>> \in R
        BY DEF StrictOrder
    <2> QED BY <1>2, <2>1, <2>2, Enumeration
<1>4. c \in Nat
    BY FS_CardinalityType
<1>5. t = [n \in 1..c |-> s[at[n]]]
    BY <1>1
<1>6. Arrangement(s, P, R, t, at)
    BY <1>2, <1>3, <1>4, <1>5 DEF Arrangement
<1> QED BY <1>6

\* Every rank is taken.
LEMMA RankTaken ==
    ASSUME NEW P, IsFiniteSet(P), NEW R, StrictOrder(P, R), NEW m \in 1..Cardinality(P)
    PROVE  \E i \in P : Rank(P, R, i) = m - 1
<1> QED
    BY Ranking DEF StrictOrder

\* The orders of the places.
NewestOrder(s, P) ==
    {x \in P \X P : \/ s[x[1]].key > s[x[2]].key
                    \/ ~(s[x[2]].key > s[x[1]].key) /\ x[1] < x[2]}
NameOrder(s, P) ==
    {x \in P \X P : \/ s[x[1]].key < s[x[2]].key
                    \/ ~(s[x[2]].key < s[x[1]].key) /\ x[1] < x[2]}
NameAndIdOrder(s, P) ==
    {x \in P \X P : \/ ByNameAndId(s[x[1]], s[x[2]])
                    \/ ~ByNameAndId(s[x[2]], s[x[1]]) /\ x[1] < x[2]}
PlaceOrder(P) == {x \in P \X P : x[1] < x[2]}

LEMMA ArrangedNewest ==
    ASSUME NEW s, NEW P, IsFiniteSet(P), P \subseteq Nat, \A i \in P : s[i].key \in Nat
    PROVE  \E at : Arrangement(s, P, NewestOrder(s, P), Arranged(s, P, NewestFirst), at)
<1> DEFINE R == NewestOrder(s, P)
           t == Arranged(s, P, NewestFirst)
           ahead(i) == {j \in P : s[j].key > s[i].key \/ (~(s[i].key > s[j].key) /\ j < i)}
           at(n) == CHOOSE i \in P : Cardinality(ahead(i)) = n - 1
<1>1. ASSUME NEW i \in P, NEW j \in P
      PROVE  <<i, j>> \in R <=> s[i].key > s[j].key \/ (~(s[j].key > s[i].key) /\ i < j)
    <2> DEFINE x == <<i, j>>
    <2>1. x \in P \X P /\ x[1] = i /\ x[2] = j
        OBVIOUS
    <2> HIDE DEF x
    <2>2. x \in R <=> s[x[1]].key > s[x[2]].key \/ (~(s[x[2]].key > s[x[1]].key) /\ x[1] < x[2])
        BY <2>1 DEF NewestOrder
    <2>3. x \in R <=> s[i].key > s[j].key \/ (~(s[j].key > s[i].key) /\ i < j)
        BY <2>1, <2>2
    <2> QED BY <2>3 DEF x
<1>2. t = [n \in 1..Cardinality(P) |-> s[at(n)]]
    BY DEF Arranged, NewestFirst
<1>3. ASSUME NEW i \in P PROVE Rank(P, R, i) = Cardinality(ahead(i))
    <2>1. {j \in P : <<j, i>> \in R} = ahead(i)
        BY <1>1
    <2> QED BY <2>1 DEF Rank
<1> HIDE DEF R, t, ahead
<1>4. StrictOrder(P, R)
    BY <1>1 DEF StrictOrder
<1>5. ASSUME NEW n \in 1..Cardinality(P)
      PROVE  at(n) \in P /\ Rank(P, R, at(n)) = n - 1 /\ t[n] = s[at(n)]
    <2>1. \E i \in P : Cardinality(ahead(i)) = n - 1
        BY <1>3, <1>4, RankTaken
    <2>2. at(n) \in P /\ Cardinality(ahead(at(n))) = n - 1
        BY <2>1
    <2> QED BY <1>2, <1>3, <2>2
<1> HIDE DEF at
<1>6. t = [n \in 1..Cardinality(P) |-> t[n]]
    BY <1>2
<1>7. \E f : Arrangement(s, P, R, t, f)
    BY <1>4, <1>5, <1>6, RankedIsArranged
<1> QED BY <1>7 DEF R, t

LEMMA ArrangedByName ==
    ASSUME NEW s, NEW P, IsFiniteSet(P), P \subseteq Nat, \A i \in P : s[i].key \in Nat
    PROVE  \E at : Arrangement(s, P, NameOrder(s, P), Arranged(s, P, ByName), at)
<1> DEFINE R == NameOrder(s, P)
           t == Arranged(s, P, ByName)
           ahead(i) == {j \in P : (s[j].key < s[i].key) \/ (~(s[i].key < s[j].key) /\ j < i)}
           at(n) == CHOOSE i \in P : Cardinality(ahead(i)) = n - 1
<1>1. ASSUME NEW i \in P, NEW j \in P
      PROVE  <<i, j>> \in R <=> (s[i].key < s[j].key) \/ (~(s[j].key < s[i].key) /\ i < j)
    <2> DEFINE x == <<i, j>>
    <2>1. x \in P \X P /\ x[1] = i /\ x[2] = j
        OBVIOUS
    <2> HIDE DEF x
    <2>2. x \in R <=> (s[x[1]].key < s[x[2]].key) \/ (~(s[x[2]].key < s[x[1]].key) /\ x[1] < x[2])
        BY <2>1 DEF NameOrder
    <2>3. x \in R <=> (s[i].key < s[j].key) \/ (~(s[j].key < s[i].key) /\ i < j)
        BY <2>1, <2>2
    <2> QED BY <2>3 DEF x
<1>2. t = [n \in 1..Cardinality(P) |-> s[at(n)]]
    BY DEF Arranged, ByName
<1>3. ASSUME NEW i \in P PROVE Rank(P, R, i) = Cardinality(ahead(i))
    <2>1. {j \in P : <<j, i>> \in R} = ahead(i)
        BY <1>1
    <2> QED BY <2>1 DEF Rank
<1> HIDE DEF R, t, ahead
<1>4. StrictOrder(P, R)
    BY <1>1 DEF StrictOrder
<1>5. ASSUME NEW n \in 1..Cardinality(P)
      PROVE  at(n) \in P /\ Rank(P, R, at(n)) = n - 1 /\ t[n] = s[at(n)]
    <2>1. \E i \in P : Cardinality(ahead(i)) = n - 1
        BY <1>3, <1>4, RankTaken
    <2>2. at(n) \in P /\ Cardinality(ahead(at(n))) = n - 1
        BY <2>1
    <2> QED BY <1>2, <1>3, <2>2
<1> HIDE DEF at
<1>6. t = [n \in 1..Cardinality(P) |-> t[n]]
    BY <1>2
<1>7. \E f : Arrangement(s, P, R, t, f)
    BY <1>4, <1>5, <1>6, RankedIsArranged
<1> QED BY <1>7 DEF R, t

LEMMA ArrangedByNameAndId ==
    ASSUME NEW s, NEW P, IsFiniteSet(P), P \subseteq Nat,
           \A i \in P : s[i].key \in Nat /\ s[i].id \in Nat
    PROVE  \E at : Arrangement(s, P, NameAndIdOrder(s, P), Arranged(s, P, ByNameAndId), at)
<1> DEFINE R == NameAndIdOrder(s, P)
           t == Arranged(s, P, ByNameAndId)
           ahead(i) == {j \in P : ByNameAndId(s[j], s[i]) \/ (~ByNameAndId(s[i], s[j]) /\ j < i)}
           at(n) == CHOOSE i \in P : Cardinality(ahead(i)) = n - 1
<1>1. ASSUME NEW i \in P, NEW j \in P
      PROVE  <<i, j>> \in R <=> ByNameAndId(s[i], s[j]) \/ (~ByNameAndId(s[j], s[i]) /\ i < j)
    <2> DEFINE x == <<i, j>>
    <2>1. x \in P \X P /\ x[1] = i /\ x[2] = j
        OBVIOUS
    <2> HIDE DEF x
    <2>2. x \in R <=> ByNameAndId(s[x[1]], s[x[2]]) \/ (~ByNameAndId(s[x[2]], s[x[1]]) /\ x[1] < x[2])
        BY <2>1 DEF NameAndIdOrder
    <2>3. x \in R <=> ByNameAndId(s[i], s[j]) \/ (~ByNameAndId(s[j], s[i]) /\ i < j)
        BY <2>1, <2>2
    <2> QED BY <2>3 DEF x
<1>2. t = [n \in 1..Cardinality(P) |-> s[at(n)]]
    BY DEF Arranged
<1>3. ASSUME NEW i \in P PROVE Rank(P, R, i) = Cardinality(ahead(i))
    <2>1. {j \in P : <<j, i>> \in R} = ahead(i)
        BY <1>1
    <2> QED BY <2>1 DEF Rank
<1> HIDE DEF R, t, ahead
<1>4. StrictOrder(P, R)
    BY <1>1 DEF StrictOrder, ByNameAndId
<1>5. ASSUME NEW n \in 1..Cardinality(P)
      PROVE  at(n) \in P /\ Rank(P, R, at(n)) = n - 1 /\ t[n] = s[at(n)]
    <2>1. \E i \in P : Cardinality(ahead(i)) = n - 1
        BY <1>3, <1>4, RankTaken
    <2>2. at(n) \in P /\ Cardinality(ahead(at(n))) = n - 1
        BY <2>1
    <2> QED BY <1>2, <1>3, <2>2
<1> HIDE DEF at
<1>6. t = [n \in 1..Cardinality(P) |-> t[n]]
    BY <1>2
<1>7. \E f : Arrangement(s, P, R, t, f)
    BY <1>4, <1>5, <1>6, RankedIsArranged
<1> QED BY <1>7 DEF R, t

LEMMA ArrangedAsTheyCome ==
    ASSUME NEW s, NEW P, IsFiniteSet(P), P \subseteq Nat
    PROVE  \E at : Arrangement(s, P, PlaceOrder(P), Arranged(s, P, AsTheyCome), at)
<1> DEFINE R == PlaceOrder(P)
           t == Arranged(s, P, AsTheyCome)
           ahead(i) == {j \in P : j < i}
           at(n) == CHOOSE i \in P : Cardinality(ahead(i)) = n - 1
<1>1. ASSUME NEW i \in P, NEW j \in P
      PROVE  <<i, j>> \in R <=> i < j
    <2> DEFINE x == <<i, j>>
    <2>1. x \in P \X P /\ x[1] = i /\ x[2] = j
        OBVIOUS
    <2> HIDE DEF x
    <2>2. x \in R <=> x[1] < x[2]
        BY <2>1 DEF PlaceOrder
    <2>3. x \in R <=> i < j
        BY <2>1, <2>2
    <2> QED BY <2>3 DEF x
<1>2. t = [n \in 1..Cardinality(P) |-> s[at(n)]]
    BY DEF Arranged, AsTheyCome
<1>3. ASSUME NEW i \in P PROVE Rank(P, R, i) = Cardinality(ahead(i))
    <2>1. {j \in P : <<j, i>> \in R} = ahead(i)
        BY <1>1
    <2> QED BY <2>1 DEF Rank
<1> HIDE DEF R, t, ahead
<1>4. StrictOrder(P, R)
    BY <1>1 DEF StrictOrder
<1>5. ASSUME NEW n \in 1..Cardinality(P)
      PROVE  at(n) \in P /\ Rank(P, R, at(n)) = n - 1 /\ t[n] = s[at(n)]
    <2>1. \E i \in P : Cardinality(ahead(i)) = n - 1
        BY <1>3, <1>4, RankTaken
    <2>2. at(n) \in P /\ Cardinality(ahead(at(n))) = n - 1
        BY <2>1
    <2> QED BY <1>2, <1>3, <2>2
<1> HIDE DEF at
<1>6. t = [n \in 1..Cardinality(P) |-> t[n]]
    BY <1>2
<1>7. \E f : Arrangement(s, P, R, t, f)
    BY <1>4, <1>5, <1>6, RankedIsArranged
<1> QED BY <1>7 DEF R, t

\* What an arrangement of a sequence is, told by its places.
Shown(s, P, R, t, at) ==
    /\ Len(t) \in Nat /\ DOMAIN t = 1..Len(t)
    /\ \A n \in 1..Len(t) : at[n] \in P /\ t[n] = s[at[n]]
    /\ \A i \in P : \E n \in 1..Len(t) : at[n] = i
    /\ \A m, n \in 1..Len(t) : m < n => <<at[m], at[n]>> \in R
    /\ \A m, n \in 1..Len(t) : at[m] = at[n] => m = n

LEMMA ArrangementShape ==
    ASSUME NEW S, NEW s \in Seq(S), NEW P, P \subseteq 1..Len(s), NEW R, NEW t, NEW at,
           Arrangement(s, P, R, t, at)
    PROVE  t \in Seq(S) /\ Shown(s, P, R, t, at)
<1> DEFINE c == Cardinality(P)
<1>1. /\ c \in Nat /\ at \in [1..c -> P] /\ t = [n \in 1..c |-> s[at[n]]]
      /\ \A i \in P : \E n \in 1..c : at[n] = i
      /\ \A m, n \in 1..c : m < n => <<at[m], at[n]>> \in R
      /\ \A m, n \in 1..c : at[m] = at[n] => m = n
    BY DEF Arrangement
<1> HIDE DEF c
<1>2. \A n \in 1..c : s[at[n]] \in S
    <2>1. \A n \in 1..c : at[n] \in P
        BY <1>1
    <2>2. \A i \in 1..Len(s) : s[i] \in S
        OBVIOUS
    <2> QED BY <2>1, <2>2
<1>3. t \in Seq(S) /\ Len(t) = c /\ DOMAIN t = 1..c
    <2>1. t \in [1..c -> S]
        BY <1>1, <1>2
    <2>2. c \in Nat
        BY <1>1
    <2> QED BY <2>1, <2>2
<1>4. \A n \in 1..c : at[n] \in P /\ t[n] = s[at[n]]
    BY <1>1
<1> QED BY <1>1, <1>3, <1>4 DEF Shown

-----------------------------------------------------------------------------
(***************************************************************************)
(* Types.                                                                  *)
(***************************************************************************)
\* A step of a call.
LEMMA InCourse ==
    ASSUME TypeOK, Busy
    PROVE  /\ phase = "walking" /\ AskOK /\ WorldOK /\ cursor \in Nat /\ ask.limit \in Nat \ {0}
           /\ step \in DOMAIN Course /\ step \in Nat /\ step + 1 \in 1..(Len(Course) + 1)
           /\ step \in 1..(Len(Course) + 1)
           /\ Cur \in StepRecord /\ StepFits(ask.tool, step)
<1>1. phase = "walking" /\ step <= Len(Course)
    BY DEF Busy
<1>2. AskOK /\ WorldOK /\ cursor \in Nat /\ step \in 1..(Len(Course) + 1) /\ ask.limit \in Nat \ {0}
    BY <1>1 DEF TypeOK, CallOK, AskOK
<1>3. /\ Course \in Seq(StepRecord) /\ Len(Course) \in Nat /\ DOMAIN Course = 1..Len(Course)
      /\ CourseFits(ask.tool)
    BY <1>2, ToolShape
<1>4. step \in 1..Len(Course) /\ step + 1 \in 1..(Len(Course) + 1) /\ step \in Nat
    BY <1>1, <1>2, <1>3
<1>5. Cur \in StepRecord
    BY <1>3, <1>4 DEF Cur
<1>6. StepFits(ask.tool, step)
    <2>1. \A n \in DOMAIN ask.tool.course : StepFits(ask.tool, n)
        BY <1>3 DEF CourseFits
    <2> QED BY <1>3, <1>4, <2>1 DEF Course
<1> QED BY <1>1, <1>2, <1>3, <1>4, <1>5, <1>6

\* The values a call finds.
CallValues ==
    /\ read \in Seq(RowRecord) /\ next \in Nat \cup {End} /\ cut \in BOOLEAN
    /\ local.ids \subseteq Ids
    /\ trust \in {"honest", "odd", "understated"} /\ shuffled \in BOOLEAN /\ taken \in Nat

LEMMA CallValuesHold ==
    ASSUME TypeOK
    PROVE  CallValues
<1> QED
    BY DEF TypeOK, CallOK, CallValues

\* The collection, what is asked and the walk stay as they are.
LEMMA SameWorld ==
    ASSUME WorldOK, UNCHANGED world
    PROVE  WorldOK' /\ There' = There /\ Kept' = Kept
<1> QED
    BY DEF WorldOK, world, There, Kept

LEMMA SameAsk ==
    ASSUME UNCHANGED asked
    PROVE  /\ AskOK' <=> AskOK
           /\ Course' = Course /\ ask' = ask /\ runtime' = runtime
<1> QED
    BY DEF AskOK, asked, Course, Uses

LEMMA StepKeepsTypes ==
    ASSUME TypeOK, phase = "walking", UNCHANGED <<asked, world, phase, cursor, got, flagged>>,
           CallValues', step' \in 1..(Len(Course) + 1)
    PROVE  TypeOK'
<1>1. WorldOK' /\ AskOK' /\ runtime' = runtime /\ Course' = Course
    <2>1. WorldOK /\ AskOK
        BY DEF TypeOK
    <2>2. UNCHANGED world /\ UNCHANGED asked
        OBVIOUS
    <2> QED BY <2>1, <2>2, SameWorld, SameAsk
<1>2. /\ cursor' \in Nat /\ phase' = phase /\ got' = got /\ flagged' = flagged
    BY DEF TypeOK, CallOK
<1>3. CallOK'
    BY <1>1, <1>2 DEF CallOK, CallValues
<1> QED BY <1>1, <1>2, <1>3 DEF TypeOK, CallValues

LEMMA RefuseKeepsTypes ==
    ASSUME TypeOK, Refuse
    PROVE  TypeOK' /\ phase' = "refused"
<1>1. phase' = "refused" /\ UNCHANGED world /\ UNCHANGED asked /\ UNCHANGED call /\ UNCHANGED history
      /\ UNCHANGED <<cursor, got, flagged, chosen>>
    BY DEF Refuse
<1>2. WorldOK' /\ runtime' = runtime
    <2>1. WorldOK
        BY DEF TypeOK
    <2> QED BY <1>1, <2>1, SameWorld, SameAsk
<1>3. CallOK'
    BY <1>1 DEF TypeOK, CallOK, call
<1> QED BY <1>1, <1>2, <1>3 DEF TypeOK, history

-----------------------------------------------------------------------------
(***************************************************************************)
(* Log pages.                                                              *)
(***************************************************************************)
LEMMA Product ==
    ASSUME NEW a \in Int, NEW b \in Int, NEW s \in Nat, a <= b
    PROVE  a * s <= b * s /\ a * s \in Int /\ b * s \in Int
<1> QED
    BY Z3

LEMMA Divide ==
    ASSUME NEW x \in Nat, NEW s \in Nat \ {0}
    PROVE  /\ x \div s \in Nat /\ (x \div s) * s \in Int
           /\ (x \div s) * s <= x /\ x < ((x \div s) + 1) * s
<1> QED
    BY Z3

PagesOf(length, size) == (length + size - 1) \div size

\* A page is not the last one when there are rows behind it.
LEMMA PageCount ==
    ASSUME NEW length \in Nat, NEW size \in Nat \ {0}, NEW number \in Nat
    PROVE  /\ PagesOf(length, size) \in Nat /\ number * size \in Nat
           /\ length > 0 => PagesOf(length, size) > 0
           /\ number + 1 < PagesOf(length, size) <=> number * size + size < length
<1> DEFINE x == length + size - 1
           p == x \div size
<1>0. x \in Nat
    OBVIOUS
<1>1. p \in Nat /\ p * size <= x /\ x < (p + 1) * size /\ p * size \in Int
    BY <1>0, Divide
<1>2. /\ (p + 1) * size = p * size + size /\ (p - 1) * size = p * size - size
      /\ number * size \in Nat /\ (number + 1) * size = number * size + size
    BY <1>1
<1> HIDE DEF p
<1>3. (p - 1) * size < length /\ length <= p * size
    BY <1>1, <1>2
<1>4. ASSUME number + 1 < p PROVE (number + 1) * size < length
    <2>1. number + 1 <= p - 1
        BY <1>1, <1>4
    <2>2. /\ (number + 1) * size <= (p - 1) * size
          /\ (number + 1) * size \in Int /\ (p - 1) * size \in Int
        BY <1>1, <2>1, Product
    <2> QED BY <1>3, <2>2
<1>5. ASSUME ~(number + 1 < p) PROVE ~((number + 1) * size < length)
    <2>1. p <= number + 1
        BY <1>1, <1>5
    <2>2. /\ p * size <= (number + 1) * size
          /\ (number + 1) * size \in Int /\ p * size \in Int
        BY <1>1, <2>1, Product
    <2> QED BY <1>3, <2>2
<1>6. ASSUME length > 0 PROVE p > 0
    BY <1>1, <1>3, <1>6
<1> QED BY <1>1, <1>2, <1>4, <1>5, <1>6 DEF p, PagesOf

\* What a log page says, and where it may be wrong.
LEMMA LogShape ==
    ASSUME WorldOK, NEW number \in Nat, NEW size \in Nat \ {0}, NEW r \in LogReplies(number, size)
    PROVE  LET p == r[1]
               pages == PagesOf(Len(rows), size)
               right == RowsAt(number * size, size)
           IN  /\ p.total = Len(rows)
               /\ \/ /\ r[2] = "honest" /\ p.number = number /\ p.rows = right /\ p.pages = pages
                  \/ /\ r[2] = "odd" /\ p.number = number + 1 /\ p.rows = right /\ p.pages = pages
                  \/ /\ r[2] = "odd" /\ p.number = number /\ p.rows = << >> /\ p.pages = pages
                  \/ /\ r[2] = "odd" /\ p.number = number /\ p.pages = pages
                     /\ p.rows = RowsAt(number * size, size + 1)
                  \/ /\ r[2] = "odd" /\ p.number = number /\ number = 0 /\ p.rows = right /\ p.pages = 1
                  \/ /\ r[2] = "understated" /\ p.number = number /\ p.rows = right
                     /\ p.pages = pages - 1 /\ pages # 0
<1> DEFINE page == [number |-> number, rows |-> RowsAt(number * size, size), total |-> Len(rows),
                    pages |-> PagesOf(Len(rows), size)]
<1>0. LogReply(number, size) = page
    BY DEF LogReply, PagesOf
<1>1. \/ r = <<page, "honest">>
      \/ r = <<[page EXCEPT !.number = @ + 1], "odd">>
      \/ r = <<[page EXCEPT !.rows = << >>], "odd">>
      \/ r = <<[page EXCEPT !.rows = RowsAt(number * size, size + 1)], "odd">>
      \/ r = <<[page EXCEPT !.pages = 1], "odd">> /\ number = 0
      \/ r = <<[page EXCEPT !.pages = @ - 1], "understated">> /\ page.pages # 0
    <2> DEFINE odd == {[page EXCEPT !.number = @ + 1], [page EXCEPT !.rows = << >>],
                       [page EXCEPT !.rows = RowsAt(number * size, size + 1)]}
                          \cup IF number = 0 THEN {[page EXCEPT !.pages = 1]} ELSE {}
    <2>1. \/ r \in {<<page, "honest">>}
          \/ r \in {<<p, "odd">> : p \in odd}
          \/ r \in IF page.pages = 0 THEN {} ELSE {<<[page EXCEPT !.pages = @ - 1], "understated">>}
        BY <1>0, Zenon DEF LogReplies
    <2>2. CASE r \in {<<p, "odd">> : p \in odd}
        <3>1. PICK p \in odd : r = <<p, "odd">>
            BY <2>2
        <3>2. \/ p = [page EXCEPT !.number = @ + 1] \/ p = [page EXCEPT !.rows = << >>]
              \/ p = [page EXCEPT !.rows = RowsAt(number * size, size + 1)]
              \/ p = [page EXCEPT !.pages = 1] /\ number = 0
            OBVIOUS
        <3> QED BY <3>1, <3>2, Zenon
    <2>3. CASE r \in IF page.pages = 0 THEN {} ELSE {<<[page EXCEPT !.pages = @ - 1], "understated">>}
        BY <2>3
    <2>4. CASE r \in {<<page, "honest">>}
        BY <2>4
    <2> QED BY <2>1, <2>2, <2>3, <2>4
<1>2. CASE r = <<page, "honest">>
    BY <1>2
<1>3. CASE r = <<[page EXCEPT !.number = @ + 1], "odd">>
    BY <1>3
<1>4. CASE r = <<[page EXCEPT !.rows = << >>], "odd">>
    BY <1>4
<1>5. CASE r = <<[page EXCEPT !.rows = RowsAt(number * size, size + 1)], "odd">>
    BY <1>5
<1>6. CASE r = <<[page EXCEPT !.pages = 1], "odd">> /\ number = 0
    BY <1>6
<1>7. CASE r = <<[page EXCEPT !.pages = @ - 1], "understated">> /\ page.pages # 0
    BY <1>7
<1> QED BY <1>1, <1>2, <1>3, <1>4, <1>5, <1>6, <1>7

LEMMA HonestLog ==
    ASSUME WorldOK, NEW number \in Nat, NEW size \in Nat \ {0}, NEW r \in LogReplies(number, size),
           r[2] = "honest"
    PROVE  r[1].rows = RowsAt(number * size, size)
<1>1. r[2] \in {"odd", "understated"} \/ r[1].rows = RowsAt(number * size, size)
    BY LogShape
<1> QED BY <1>1

-----------------------------------------------------------------------------
(***************************************************************************)
(* Pages of events.                                                        *)
(***************************************************************************)
Shows(events, i) == \E n \in DOMAIN events : events[n].id = i
Within(end, from, i) == key[i] <= end /\ key[i] >= from

\* The events are rows that are there, none twice; those that are missing
\* are not newer than the last one, and none is missing from a page with
\* room.
EventList(end, limit, from, events) ==
    /\ events \in Seq(RowRecord) /\ Len(events) \in Nat
    /\ \A n \in DOMAIN events : events[n].id \in There /\ events[n].key = key[events[n].id]
    /\ \A m, n \in DOMAIN events : events[m].id = events[n].id => m = n
    /\ Len(events) <= limit => \A i \in There : Within(end, from, i) => Shows(events, i)
    /\ Len(events) > limit =>
          \A i \in There : Within(end, from, i) /\ key[i] > events[limit + 1].key => Shows(events, i)

NewestUpTo(end, from, limit) ==
    LET all == Reading(rows)
        within == {n \in DOMAIN all : all[n].key <= end /\ all[n].key >= from}
    IN  SkipTake(Arranged(all, within, NewestFirst), 0, limit + 1)

LEMMA ThereKeys ==
    ASSUME WorldOK, NEW i \in There
    PROVE  i \in Ids /\ i \in Nat /\ key[i] \in Keys /\ key[i] \in Nat
<1>1. rows \in Seq(Ids) /\ key \in [Ids -> Keys]
    BY DEF WorldOK
<1>2. PICK n \in DOMAIN rows : rows[n] = i
    BY DEF There
<1>3. i \in Ids
    BY <1>1, <1>2
<1> QED BY <1>1, <1>3, Constants

LEMMA NewestPage ==
    ASSUME WorldOK, NEW end \in Nat, NEW from \in Nat, NEW limit \in Nat \ {0}, NEW events,
           events = NewestUpTo(end, from, limit)
    PROVE  /\ EventList(end, limit, from, events) /\ Len(events) <= limit + 1
           /\ Len(events) > 0 => \A i \in There : Within(end, from, i) => key[i] <= events[1].key
<1> DEFINE all == Reading(rows)
           P == {n \in DOMAIN all : all[n].key <= end /\ all[n].key >= from}
           R == NewestOrder(all, P)
           u == Arranged(all, P, NewestFirst)
<1>0. rows \in Seq(Ids) /\ key \in [Ids -> Keys] /\ \A k \in Keys : k \in Nat
    BY Constants DEF WorldOK
<1>1. /\ all \in Seq(RowRecord) /\ Len(all) = Len(rows) /\ DOMAIN all = 1..Len(rows)
      /\ \A n \in 1..Len(rows) : all[n].id = rows[n] /\ all[n].key = key[rows[n]]
    BY <1>0, ReadingShape
<1>2. Len(rows) \in Nat /\ \A n \in 1..Len(rows) : rows[n] \in Ids /\ key[rows[n]] \in Nat
    BY <1>0
<1> HIDE DEF all
<1>3. P \subseteq 1..Len(all) /\ P \subseteq Nat /\ IsFiniteSet(P)
    <2>1. P \subseteq 1..Len(rows)
        BY <1>1
    <2>2. IsFiniteSet(1..Len(rows))
        <3>1. 1 \in Int /\ Len(rows) \in Int
            BY <1>2
        <3> QED BY <3>1, FS_Interval
    <2> QED BY <1>1, <2>1, <2>2, FS_Subset
<1>4. \A i \in P : all[i].key \in Nat
    BY <1>1, <1>2
<1>5. \A i, j \in P : <<i, j>> \in R => all[i].key >= all[j].key
    <2> SUFFICES ASSUME NEW i \in P, NEW j \in P, <<i, j>> \in R PROVE all[i].key >= all[j].key
        OBVIOUS
    <2> DEFINE x == <<i, j>>
    <2>1. x \in R /\ x[1] = i /\ x[2] = j
        OBVIOUS
    <2> HIDE DEF x
    <2>2. \/ all[x[1]].key > all[x[2]].key
          \/ ~(all[x[2]].key > all[x[1]].key) /\ x[1] < x[2]
        BY <2>1 DEF NewestOrder
    <2>3. all[i].key > all[j].key \/ ~(all[j].key > all[i].key)
        BY <2>1, <2>2
    <2>4. all[i].key \in Nat /\ all[j].key \in Nat
        BY <1>4
    <2> QED BY <2>3, <2>4
<1>6. \A i \in 1..Len(rows) : Within(end, from, rows[i]) <=> i \in P
    BY <1>1 DEF Within
<1> HIDE DEF P, R
<1>7. PICK at : Arrangement(all, P, R, u, at)
    BY <1>3, <1>4, ArrangedNewest DEF R
<1>8. u \in Seq(RowRecord) /\ Shown(all, P, R, u, at)
    <2> HIDE DEF u
    <2>1. all \in Seq(RowRecord) /\ P \subseteq 1..Len(all)
        BY <1>1, <1>3
    <2> QED BY <1>7, <2>1, ArrangementShape
<1>81. Len(u) \in Nat /\ DOMAIN u = 1..Len(u)
    BY <1>8 DEF Shown
<1>82. \A n \in 1..Len(u) : at[n] \in P /\ u[n] = all[at[n]]
    BY <1>8 DEF Shown
<1>83. \A i \in P : \E n \in 1..Len(u) : at[n] = i
    BY <1>8, Zenon DEF Shown
<1>84. \A m, n \in 1..Len(u) : m < n => <<at[m], at[n]>> \in R
    BY <1>8, Zenon DEF Shown
<1>85. \A m, n \in 1..Len(u) : at[m] = at[n] => m = n
    BY <1>8, Zenon DEF Shown
<1> HIDE DEF u
<1>9. events = SkipTake(u, 0, limit + 1)
    BY DEF u, P, all, NewestUpTo
<1>10. /\ events \in Seq(RowRecord) /\ Len(events) \in Nat /\ DOMAIN events = 1..Len(events)
       /\ Len(events) <= limit + 1 /\ Len(events) <= Len(u)
       /\ Len(events) < limit + 1 => Len(events) = Len(u)
       /\ events = SubSeq(u, 1, Len(events))
    <2>1. 0 \in Nat /\ limit + 1 \in Nat /\ 0 <= Len(u)
        BY <1>81
    <2>2. /\ events \in Seq(RowRecord) /\ Len(events) <= limit + 1
          /\ 0 + Len(events) <= Len(u)
          /\ Len(events) < limit + 1 => 0 + Len(events) = Len(u)
          /\ events = SubSeq(u, 0 + 1, 0 + Len(events))
        <3>1. u \in Seq(RowRecord)
            BY <1>8
        <3> QED BY <1>9, <2>1, <3>1, SkipTakeShape
    <2>3. 0 + Len(events) = Len(events) /\ Len(events) \in Nat /\ 0 + 1 = 1 /\ DOMAIN events = 1..Len(events)
        BY <2>2
    <2> QED BY <2>2, <2>3
<1>11. \A n \in 1..Len(events) : n \in 1..Len(u) /\ events[n] = u[n]
    <2> SUFFICES ASSUME NEW n \in 1..Len(events) PROVE n \in 1..Len(u) /\ events[n] = u[n]
        OBVIOUS
    <2>1. n \in 1..Len(u)
        <3>1. Len(events) \in Nat /\ Len(events) <= Len(u)
            BY <1>10
        <3> QED BY <1>81, <3>1
    <2>2. SubSeq(u, 1, Len(events))[n] = u[n]
        <3>1. u \in Seq(RowRecord) /\ Len(events) \in Nat /\ Len(events) <= Len(u)
            BY <1>8, <1>10
        <3> QED BY <1>81, <2>1, <3>1
    <2> QED BY <1>10, <2>1, <2>2
<1>12. \A n \in 1..Len(u) : /\ at[n] \in 1..Len(rows) /\ u[n].id = rows[at[n]]
                            /\ u[n].key = key[rows[at[n]]] /\ u[n].key \in Nat
    <2> SUFFICES ASSUME NEW n \in 1..Len(u)
                 PROVE  /\ at[n] \in 1..Len(rows) /\ u[n].id = rows[at[n]]
                        /\ u[n].key = key[rows[at[n]]] /\ u[n].key \in Nat
        OBVIOUS
    <2>1. at[n] \in 1..Len(rows) /\ u[n] = all[at[n]]
        BY <1>1, <1>3, <1>82
    <2> QED BY <1>1, <1>2, <2>1
<1>13. \A m, n \in 1..Len(u) : m < n => u[m].key >= u[n].key
    <2> SUFFICES ASSUME NEW m \in 1..Len(u), NEW n \in 1..Len(u), m < n PROVE u[m].key >= u[n].key
        OBVIOUS
    <2>1. at[m] \in P /\ at[n] \in P /\ <<at[m], at[n]>> \in R /\ u[m] = all[at[m]] /\ u[n] = all[at[n]]
        BY <1>82, <1>84
    <2>2. all[at[m]].key >= all[at[n]].key
        BY <1>5, <2>1
    <2> QED BY <2>1, <2>2
<1>14. \A i \in There : Within(end, from, i) => \E n \in 1..Len(u) : u[n].id = i /\ u[n].key = key[i]
    <2> SUFFICES ASSUME NEW i \in There, Within(end, from, i)
                 PROVE  \E n \in 1..Len(u) : u[n].id = i /\ u[n].key = key[i]
        OBVIOUS
    <2>1. PICK m \in 1..Len(rows) : rows[m] = i
        BY <1>0 DEF There
    <2>2. m \in P
        BY <1>6, <2>1
    <2>3. PICK n \in 1..Len(u) : at[n] = m
        BY <1>83, <2>2
    <2> QED BY <1>12, <2>1, <2>3
<1>15. \A n \in DOMAIN events : events[n].id \in There /\ events[n].key = key[events[n].id]
    <2>1. \A m \in 1..Len(rows) : rows[m] \in There
        BY <1>0 DEF There
    <2> SUFFICES ASSUME NEW n \in 1..Len(events)
                 PROVE  events[n].id \in There /\ events[n].key = key[events[n].id]
        BY <1>10
    <2>2. n \in 1..Len(u) /\ events[n] = u[n]
        BY <1>11
    <2>3. at[n] \in 1..Len(rows) /\ u[n].id = rows[at[n]] /\ u[n].key = key[rows[at[n]]]
        BY <1>12, <2>2
    <2> QED BY <2>1, <2>2, <2>3
<1>16. \A m, n \in DOMAIN events : events[m].id = events[n].id => m = n
    <2> SUFFICES ASSUME NEW m \in 1..Len(events), NEW n \in 1..Len(events), events[m].id = events[n].id
                 PROVE  m = n
        BY <1>10
    <2>1. rows[at[m]] = rows[at[n]] /\ at[m] \in 1..Len(rows) /\ at[n] \in 1..Len(rows)
        BY <1>11, <1>12
    <2>2. at[m] = at[n]
        BY <1>0, <2>1 DEF WorldOK
    <2> QED BY <1>85, <1>11, <2>2
<1>17. ASSUME Len(events) <= limit, NEW i \in There, Within(end, from, i) PROVE Shows(events, i)
    <2>1. PICK n \in 1..Len(u) : u[n].id = i
        BY <1>14, <1>17
    <2>2. Len(events) = Len(u)
        BY <1>10, <1>17
    <2>3. n \in DOMAIN events /\ events[n].id = i
        BY <1>10, <1>11, <2>1, <2>2
    <2> QED BY <2>3 DEF Shows
<1>18. ASSUME Len(events) > limit, NEW i \in There, Within(end, from, i), key[i] > events[limit + 1].key
       PROVE  Shows(events, i)
    <2>1. PICK n \in 1..Len(u) : u[n].id = i /\ u[n].key = key[i]
        BY <1>14, <1>18
    <2>2. Len(events) = limit + 1
        <3>1. Len(events) \in Nat /\ Len(events) <= limit + 1
            BY <1>10
        <3> QED BY <1>18, <3>1
    <2>3. limit + 1 \in 1..Len(events) /\ limit + 1 \in 1..Len(u) /\ n \in Nat
        BY <1>10, <2>2
    <2>4. events[limit + 1] = u[limit + 1]
        BY <1>11, <2>3
    <2>5. ~(limit + 1 < n)
        <3>1. limit + 1 < n => u[limit + 1].key >= u[n].key
            BY <1>13, <2>1, <2>3
        <3>2. u[limit + 1].key \in Nat /\ u[n].key \in Nat
            BY <1>12, <2>1, <2>3
        <3>3. u[n].key > u[limit + 1].key
            BY <1>18, <2>1, <2>4
        <3> QED BY <3>1, <3>2, <3>3
    <2>6. n \in 1..Len(events)
        BY <2>2, <2>3, <2>5
    <2>7. n \in DOMAIN events /\ events[n].id = i
        BY <1>10, <1>11, <2>1, <2>6
    <2> QED BY <2>7 DEF Shows
<1>19. ASSUME Len(events) > 0, NEW i \in There, Within(end, from, i) PROVE key[i] <= events[1].key
    <2>1. PICK n \in 1..Len(u) : u[n].id = i /\ u[n].key = key[i]
        BY <1>14, <1>19
    <2>2. 1 \in 1..Len(events) /\ 1 \in 1..Len(u)
        BY <1>10, <1>19
    <2>3. n = 1 \/ 1 < n
        OBVIOUS
    <2>4. u[1].key >= u[n].key
        <3>1. u[n].key \in Nat /\ u[1].key \in Nat
            BY <1>12, <2>1, <2>2
        <3>2. CASE n = 1
            BY <3>1, <3>2
        <3>3. CASE 1 < n
            BY <1>13, <2>1, <2>2, <3>3
        <3> QED BY <2>3, <3>2, <3>3
    <2>5. u[n].key \in Nat /\ u[1].key \in Nat
        BY <1>12, <2>1, <2>2
    <2>6. events[1].key = u[1].key
        BY <1>11, <2>2
    <2> QED BY <2>1, <2>4, <2>5, <2>6
<1> QED BY <1>10, <1>15, <1>16, <1>17, <1>18, <1>19 DEF EventList

\* Whatever order the console sorts in, and wherever it lets the window
\* start.
LEMMA EventReplyShape ==
    ASSUME WorldOK, NEW end \in Nat, NEW limit \in Nat \ {0}, NEW events \in EventReplies(end, limit)
    PROVE  EventList(end, limit, Start, events)
<1>0. Start \in Nat /\ 0 \in Nat
    BY Constants
<1>1. \/ events = NewestUpTo(end, Start, limit) \/ events = NewestUpTo(end, 0, limit)
      \/ events = Reverse(NewestUpTo(end, Start, limit))
    BY DEF EventReplies, NewestUpTo
<1>2. CASE events = NewestUpTo(end, Start, limit)
    BY <1>0, <1>2, NewestPage
<1>3. CASE events = NewestUpTo(end, 0, limit)
    <2>1. EventList(end, limit, 0, events)
        BY <1>0, <1>3, NewestPage
    <2>2. \A i \in There : Within(end, Start, i) => Within(end, 0, i)
        <3>1. \A i \in There : key[i] \in Nat
            BY ThereKeys
        <3> QED BY <3>1 DEF Within
    <2> QED BY <2>1, <2>2, Zenon DEF EventList
<1>4. CASE events = Reverse(NewestUpTo(end, Start, limit))
    <2> DEFINE v == NewestUpTo(end, Start, limit)
               w == Reverse(v)
    <2>1. /\ EventList(end, limit, Start, v) /\ Len(v) <= limit + 1
          /\ Len(v) > 0 => \A i \in There : Within(end, Start, i) => key[i] <= v[1].key
        BY <1>0, NewestPage
    <2> HIDE DEF v
    <2>2. v \in Seq(RowRecord) /\ Len(v) \in Nat /\ DOMAIN v = 1..Len(v)
        BY <2>1 DEF EventList
    <2>3. /\ w \in Seq(RowRecord) /\ Len(w) = Len(v)
          /\ \A i \in 1..Len(v) : w[i] = v[(Len(v) - i) + 1] /\ (Len(v) - i) + 1 \in 1..Len(v)
        BY <2>2, ReverseShape
    <2> HIDE DEF w
    <2>4. DOMAIN w = 1..Len(v)
        BY <2>3
    <2>5. \A n \in DOMAIN w : w[n].id \in There /\ w[n].key = key[w[n].id]
        <3>1. \A n \in 1..Len(v) : v[n].id \in There /\ v[n].key = key[v[n].id]
            BY <2>1, <2>2 DEF EventList
        <3> QED BY <2>3, <2>4, <3>1
    <2>6. \A m, n \in DOMAIN w : w[m].id = w[n].id => m = n
        <3> SUFFICES ASSUME NEW m \in 1..Len(v), NEW n \in 1..Len(v), w[m].id = w[n].id PROVE m = n
            BY <2>4
        <3>1. (Len(v) - m) + 1 \in 1..Len(v) /\ (Len(v) - n) + 1 \in 1..Len(v)
            BY <2>3
        <3>2. v[(Len(v) - m) + 1].id = v[(Len(v) - n) + 1].id
            BY <2>3
        <3>3. (Len(v) - m) + 1 = (Len(v) - n) + 1
            BY <2>1, <2>2, <3>1, <3>2 DEF EventList
        <3> QED BY <2>2, <3>3
    <2>7. ASSUME NEW i, Shows(v, i) PROVE Shows(w, i)
        <3>1. PICK n \in 1..Len(v) : v[n].id = i
            BY <2>2, <2>7 DEF Shows
        <3> DEFINE m == (Len(v) - n) + 1
        <3>2. m \in 1..Len(v) /\ (Len(v) - m) + 1 = n
            BY <2>2
        <3> HIDE DEF m
        <3>3. w[m] = v[n]
            BY <2>3, <3>2
        <3> QED BY <2>4, <3>1, <3>2, <3>3 DEF Shows
    <2>8. ASSUME Len(w) <= limit, NEW i \in There, Within(end, Start, i) PROVE Shows(w, i)
        <3>1. Shows(v, i)
            BY <2>1, <2>3, <2>8 DEF EventList
        <3> QED BY <2>7, <3>1
    <2>9. ASSUME Len(w) > limit, NEW i \in There, Within(end, Start, i), key[i] > w[limit + 1].key
          PROVE  Shows(w, i)
        <3>0. key[i] \in Nat /\ limit + 1 \in Nat
            BY ThereKeys
        <3>2. CASE Len(v) = limit + 1
            <4>1. (Len(v) - (limit + 1)) + 1 = 1 /\ limit + 1 \in 1..Len(v) /\ Len(v) > 0
                BY <3>2
            <4>2. w[limit + 1] = v[1]
                BY <2>3, <4>1
            <4>3. key[i] <= v[1].key
                BY <2>1, <2>9, <4>1
            <4>4. v[1].key \in Nat
                <5>1. v[1] \in RowRecord
                    BY <2>2, <4>1
                <5> QED BY <5>1, Constants DEF RowRecord
            <4>5. key[i] > v[1].key
                BY <2>9, <4>2
            <4> QED BY <3>0, <4>3, <4>4, <4>5
        <3>3. Len(v) = limit + 1
            <4>1. Len(v) \in Nat /\ Len(v) <= limit + 1 /\ Len(v) > limit
                BY <2>1, <2>2, <2>3, <2>9, Zenon
            <4> QED BY <4>1
        <3> QED BY <3>2, <3>3
    <2>10. EventList(end, limit, Start, w)
        BY <2>2, <2>3, <2>5, <2>6, <2>8, <2>9 DEF EventList
    <2> QED BY <1>4, <2>10 DEF v, w
<1> QED BY <1>1, <1>2, <1>3, <1>4

\* A filter keeps what is at the places it accepts.
Sifted(s, P) == Arranged(s, P, AsTheyCome)

LEMMA SiftedShape ==
    ASSUME NEW S, NEW s \in Seq(S), NEW P, P \subseteq 1..Len(s)
    PROVE  /\ Sifted(s, P) \in Seq(S) /\ Len(Sifted(s, P)) \in Nat
           /\ DOMAIN Sifted(s, P) = 1..Len(Sifted(s, P))
           /\ \E at : Shown(s, P, PlaceOrder(P), Sifted(s, P), at)
<1>1. IsFiniteSet(P) /\ P \subseteq Nat
    <2>1. 1 \in Int /\ Len(s) \in Int
        OBVIOUS
    <2>2. IsFiniteSet(1..Len(s)) /\ 1..Len(s) \subseteq Nat
        BY <2>1, FS_Interval
    <2> QED BY <2>2, FS_Subset
<1>2. \E at : Arrangement(s, P, PlaceOrder(P), Sifted(s, P), at)
    BY <1>1, ArrangedAsTheyCome DEF Sifted
<1>3. PICK at : Arrangement(s, P, PlaceOrder(P), Sifted(s, P), at)
    BY <1>2
<1>4. Sifted(s, P) \in Seq(S) /\ Shown(s, P, PlaceOrder(P), Sifted(s, P), at)
    BY <1>3, ArrangementShape
<1>5. Len(Sifted(s, P)) \in Nat /\ DOMAIN Sifted(s, P) = 1..Len(Sifted(s, P))
    BY <1>4 DEF Shown
<1> QED BY <1>4, <1>5

LEMMA SiftedRows ==
    ASSUME NEW s \in Seq(RowRecord), NEW P, P \subseteq 1..Len(s)
    PROVE  /\ Sifted(s, P) \in Seq(RowRecord) /\ Len(Sifted(s, P)) \in Nat
           /\ \A n \in DOMAIN Sifted(s, P) : \E m \in P : Sifted(s, P)[n] = s[m]
           /\ \A m \in P : \E n \in DOMAIN Sifted(s, P) : Sifted(s, P)[n] = s[m]
           /\ (\A m, n \in 1..Len(s) : s[m].id = s[n].id => m = n) =>
                 \A m, n \in DOMAIN Sifted(s, P) : Sifted(s, P)[m].id = Sifted(s, P)[n].id => m = n
<1> DEFINE t == Sifted(s, P)
<1>1. t \in Seq(RowRecord) /\ Len(t) \in Nat /\ DOMAIN t = 1..Len(t)
    BY SiftedShape
<1>2. PICK at : Shown(s, P, PlaceOrder(P), t, at)
    BY SiftedShape
<1> HIDE DEF t
<1>3. \A n \in 1..Len(t) : at[n] \in P /\ t[n] = s[at[n]]
    BY <1>2, Zenon DEF Shown
<1>4. \A i \in P : \E n \in 1..Len(t) : at[n] = i
    BY <1>2, Zenon DEF Shown
<1>5. \A m, n \in 1..Len(t) : at[m] = at[n] => m = n
    BY <1>2, Zenon DEF Shown
<1>6. \A n \in DOMAIN t : \E m \in P : t[n] = s[m]
    BY <1>1, <1>3
<1>7. ASSUME NEW m \in P PROVE \E n \in DOMAIN t : t[n] = s[m]
    <2>1. PICK n \in 1..Len(t) : at[n] = m
        BY <1>4
    <2> QED BY <1>1, <1>3, <2>1
<1>8. ASSUME \A m, n \in 1..Len(s) : s[m].id = s[n].id => m = n,
             NEW m \in DOMAIN t, NEW n \in DOMAIN t, t[m].id = t[n].id
      PROVE  m = n
    <2>1. at[m] \in 1..Len(s) /\ at[n] \in 1..Len(s) /\ s[at[m]].id = s[at[n]].id
        BY <1>1, <1>3, <1>8
    <2>2. at[m] = at[n]
        BY <1>8, <2>1
    <2> QED BY <1>1, <1>5, <2>2
<1> QED BY <1>1, <1>6, <1>7, <1>8 DEF t

\* A page of events that the tool accepts: rows that are there, each once,
\* at or before the end and behind where the next page starts; no row of
\* the window between the two is missing.
GoodPage(end, page, onward) ==
    /\ page \in Seq(RowRecord) /\ onward \in Nat \cup {End}
    /\ \A m, n \in DOMAIN page : page[m].id = page[n].id => m = n
    /\ \A n \in DOMAIN page :
          /\ page[n].id \in There /\ page[n].key = key[page[n].id] /\ page[n].key <= end
          /\ onward # End => page[n].key > onward
    /\ onward # End => onward <= end /\ onward < end
    /\ \A i \in There : Within(end, Start, i) /\ (onward # End => key[i] > onward) => Shows(page, i)

\* The page shows the events at the places, and the next one starts where
\* these end.
PageFits(end, events, P, onward, page) ==
    /\ P \subseteq DOMAIN events /\ onward \in Nat \cup {End} /\ page \in Seq(RowRecord)
    /\ \A n \in DOMAIN events : events[n].key <= end
    /\ \A n \in DOMAIN page : \E m \in P : page[n] = events[m]
    /\ \A m \in P : \E n \in DOMAIN page : page[n] = events[m]
    /\ \A m, n \in DOMAIN page : page[m].id = page[n].id => m = n
    /\ \A m \in P : onward # End => events[m].key > onward
    /\ onward # End => onward <= end /\ onward < end
    /\ \A i \in There : Within(end, Start, i) /\ (onward # End => key[i] > onward) =>
           \E m \in P : events[m].id = i

LEMMA PageOfEvents ==
    ASSUME WorldOK, NEW end, NEW limit, NEW events, EventList(end, limit, Start, events),
           NEW P, NEW onward, NEW page, PageFits(end, events, P, onward, page)
    PROVE  GoodPage(end, page, onward)
<1>1. \A m \in DOMAIN events : events[m].id \in There /\ events[m].key = key[events[m].id]
    BY DEF EventList
<1>2. ASSUME NEW n \in DOMAIN page
      PROVE  /\ page[n].id \in There /\ page[n].key = key[page[n].id] /\ page[n].key <= end
             /\ onward # End => page[n].key > onward
    <2>1. PICK m \in P : page[n] = events[m]
        BY DEF PageFits
    <2>2. m \in DOMAIN events
        BY DEF PageFits
    <2>3. /\ events[m].id \in There /\ events[m].key = key[events[m].id] /\ events[m].key <= end
          /\ onward # End => events[m].key > onward
        BY <1>1, <2>2 DEF PageFits
    <2> QED BY <2>1, <2>3
<1>3. ASSUME NEW i \in There, Within(end, Start, i), onward # End => key[i] > onward
      PROVE  Shows(page, i)
    <2>1. PICK m \in P : events[m].id = i
        BY <1>3 DEF PageFits
    <2>2. PICK n \in DOMAIN page : page[n] = events[m]
        BY DEF PageFits
    <2> QED BY <2>1, <2>2 DEF Shows
<1> QED BY <1>2, <1>3 DEF GoodPage, PageFits

\* finish_protect_event_page
LEMMA FinishShape ==
    ASSUME WorldOK, NEW end \in Nat, NEW limit \in Nat \ {0}, NEW events,
           EventList(end, limit, Start, events),
           ~FinishProtectEventPage(Start, end, limit, events).refused
    PROVE  LET page == FinishProtectEventPage(Start, end, limit, events)
           IN  GoodPage(end, page.events, page.next)
<1> DEFINE page == FinishProtectEventPage(Start, end, limit, events)
           top == SkipTake(events, 0, limit)
           k == Len(top)
           more == Len(events) > limit /\ events[limit + 1].key >= Start
           fresh == {n \in DOMAIN top : top[n].key >= Start}
           apart == {n \in DOMAIN top : top[n].key # Last(top).key}
<1>0. Start \in Nat /\ End \notin Nat
    BY Constants
<1>1. EventsAsAsked(end, limit, events)
    BY DEF FinishProtectEventPage, NoEventPage
<1>2. IF more THEN page = BeforeBoundary(top, Last(top).key, events[limit + 1].key)
      ELSE page = EventPage(Sifted(top, fresh), End)
    BY <1>1 DEF FinishProtectEventPage, Filtered, Sifted
<1>3. /\ events \in Seq(RowRecord) /\ Len(events) \in Nat /\ DOMAIN events = 1..Len(events)
      /\ \A n \in 1..Len(events) : events[n].key \in Nat
    <2>1. events \in Seq(RowRecord)
        BY DEF EventList
    <2>2. \A n \in 1..Len(events) : events[n] \in RowRecord
        BY <2>1
    <2>3. \A x \in RowRecord : x.key \in Nat
        BY Constants DEF RowRecord
    <2> QED BY <2>1, <2>2, <2>3
<1>4. /\ \A n \in DOMAIN events : events[n].key <= end
      /\ \A m, n \in DOMAIN events : m < n => events[m].key >= events[n].key
      /\ Len(events) <= limit + 1
    BY <1>1 DEF EventsAsAsked
<1>5. /\ top \in Seq(RowRecord) /\ k \in Nat /\ k <= limit /\ k <= Len(events)
      /\ k < limit => k = Len(events)
      /\ top = SubSeq(events, 1, k) /\ DOMAIN top = 1..k
    <2>1. 0 \in Nat /\ limit \in Nat /\ 0 <= Len(events)
        BY <1>3
    <2>2. /\ top \in Seq(RowRecord) /\ Len(top) <= limit /\ 0 + Len(top) <= Len(events)
          /\ Len(top) < limit => 0 + Len(top) = Len(events)
          /\ top = SubSeq(events, 0 + 1, 0 + Len(top))
        <3> HIDE DEF top
        <3>1. events \in Seq(RowRecord) /\ top = SkipTake(events, 0, limit)
            BY <1>3 DEF top
        <3> QED BY <2>1, <3>1, SkipTakeShape
    <2> HIDE DEF top
    <2>3. 0 + Len(top) = Len(top) /\ Len(top) \in Nat /\ 0 + 1 = 1 /\ DOMAIN top = 1..Len(top)
        BY <2>2
    <2> QED BY <2>2, <2>3
<1> HIDE DEF page, top, k
<1>51. /\ k \in Nat /\ k <= limit /\ k <= Len(events) /\ (k < limit => k = Len(events))
       /\ Len(events) \in Nat /\ Len(events) <= limit + 1 /\ limit \in Nat /\ limit > 0
    <2>1. k \in Nat /\ k <= limit /\ k <= Len(events) /\ (k < limit => k = Len(events))
        BY <1>5
    <2>2. Len(events) \in Nat /\ Len(events) <= limit + 1
        BY <1>3, <1>4
    <2>3. limit \in Nat /\ limit > 0
        OBVIOUS
    <2> QED BY <2>1, <2>2, <2>3
<1>52. \A n \in 1..k : n \in 1..Len(events)
    BY <1>51
<1>6. \A n \in 1..k : n \in DOMAIN events /\ top[n] = events[n]
    <2> SUFFICES ASSUME NEW n \in 1..k PROVE n \in DOMAIN events /\ top[n] = events[n]
        OBVIOUS
    <2>1. n \in 1..Len(events)
        BY <1>52
    <2>2. SubSeq(events, 1, k)[n] = events[n]
        <3>1. events \in Seq(RowRecord)
            BY <1>3
        <3> QED BY <1>51, <3>1
    <2> QED BY <1>3, <1>5, <2>1, <2>2
<1>7. \A m, n \in DOMAIN top : top[m].id = top[n].id => m = n
    <2>1. \A m, n \in DOMAIN events : events[m].id = events[n].id => m = n
        BY DEF EventList
    <2>2. DOMAIN top = 1..k
        BY <1>5
    <2> QED BY <1>6, <2>1, <2>2
<1>8. k \in 0..Len(events) /\ DOMAIN top = 1..k /\ Len(top) = k
    BY <1>5, <1>51 DEF k
<1>9. CASE ~more
    <2>0. page.events = Sifted(top, fresh) /\ page.next = End
        BY <1>2, <1>9 DEF EventPage
    <2>1. fresh \subseteq 1..k
        BY <1>8
    <2> DEFINE t == Sifted(top, fresh)
    <2>2. /\ t \in Seq(RowRecord)
          /\ \A n \in DOMAIN t : \E m \in fresh : t[n] = top[m]
          /\ \A m \in fresh : \E n \in DOMAIN t : t[n] = top[m]
          /\ \A m, n \in DOMAIN t : t[m].id = t[n].id => m = n
        <3>1. top \in Seq(RowRecord) /\ fresh \subseteq 1..Len(top)
            BY <1>5, <1>8, <2>1
        <3>2. \A m, n \in 1..Len(top) : top[m].id = top[n].id => m = n
            BY <1>7, <1>8
        <3> HIDE DEF fresh
        <3> QED BY <3>1, <3>2, SiftedRows
    <2>3. \A i \in There : Within(end, Start, i) => \E m \in fresh : events[m].id = i
        <3> SUFFICES ASSUME NEW i \in There, Within(end, Start, i) PROVE \E m \in fresh : events[m].id = i
            OBVIOUS
        <3>0. key[i] \in Nat /\ key[i] >= Start
            BY ThereKeys DEF Within
        <3>1. Shows(events, i)
            <4>1. CASE Len(events) <= limit
                BY <4>1 DEF EventList
            <4>2. CASE Len(events) > limit
                <5>1. limit + 1 \in 1..Len(events) /\ ~(events[limit + 1].key >= Start)
                    BY <1>3, <1>9, <4>2
                <5>2. key[i] > events[limit + 1].key
                    BY <1>0, <1>3, <3>0, <5>1
                <5> QED BY <4>2, <5>2 DEF EventList
            <4> QED BY <1>3, <4>1, <4>2
        <3>2. PICK m \in DOMAIN events : events[m].id = i
            BY <3>1 DEF Shows
        <3>3. events[m].key = key[i]
            BY <3>2 DEF EventList
        <3>4. m \in 1..k
            <4>1. m \in 1..Len(events)
                BY <1>3
            <4>2. ~(k < Len(events) /\ m = Len(events))
                <5> SUFFICES ASSUME k < Len(events), m = Len(events) PROVE FALSE
                    OBVIOUS
                <5>1. k = limit /\ Len(events) > limit /\ Len(events) = limit + 1
                    BY <1>51
                <5>2. ~(events[limit + 1].key >= Start)
                    BY <1>9, <5>1
                <5> QED BY <3>0, <3>3, <5>1, <5>2
            <4>3. Len(events) <= k + 1
                BY <1>51
            <4> QED BY <1>51, <4>1, <4>2, <4>3
        <3>5. m \in fresh
            BY <1>6, <1>8, <3>0, <3>3, <3>4
        <3> QED BY <3>2, <3>5
    <2> HIDE DEF t, fresh
    <2>4. /\ \A n \in DOMAIN t : \E m \in fresh : t[n] = events[m]
          /\ \A m \in fresh : \E n \in DOMAIN t : t[n] = events[m]
        BY <1>6, <2>1, <2>2
    <2>5. fresh \subseteq DOMAIN events
        BY <1>6, <2>1
    <2>6. PageFits(end, events, fresh, End, t)
        BY <1>4, <2>2, <2>3, <2>4, <2>5 DEF PageFits
    <2>7. GoodPage(end, t, End)
        BY <2>6, PageOfEvents
    <2> QED BY <2>0, <2>7 DEF page, t
<1>10. CASE more
    <2> DEFINE b == events[limit].key
               a == events[limit + 1].key
    <2>1. /\ k = limit /\ Len(events) = limit + 1 /\ limit \in 1..k /\ limit \in DOMAIN events
          /\ limit + 1 \in DOMAIN events
        <3>1. k = limit /\ Len(events) = limit + 1
            BY <1>10, <1>51
        <3>2. limit \in 1..Len(events) /\ limit + 1 \in 1..Len(events) /\ limit \in 1..k
            BY <1>51, <3>1
        <3> QED BY <1>3, <3>1, <3>2
    <2>2. Last(top) = events[limit]
        BY <1>6, <1>8, <2>1 DEF Last
    <2>3. b \in Nat /\ a \in Nat /\ b >= a /\ b <= end
        BY <1>3, <1>4, <2>1
    <2>4. \A n \in 1..k : events[n].key >= b /\ events[n].key \in Nat
        <3> SUFFICES ASSUME NEW n \in 1..k PROVE events[n].key >= b /\ events[n].key \in Nat
            OBVIOUS
        <3>1. n \in DOMAIN events /\ events[n].key \in Nat /\ (n < limit \/ n = limit)
            BY <1>3, <1>6, <2>1
        <3>2. CASE n < limit
            BY <1>4, <2>1, <3>1, <3>2
        <3>3. CASE n = limit
            BY <2>3, <3>3
        <3> QED BY <3>1, <3>2, <3>3
    <2>5. ASSUME NEW i \in There, Within(end, Start, i), key[i] > a
          PROVE  \E m \in 1..k : events[m].id = i /\ events[m].key = key[i]
        <3>1. Shows(events, i)
            <4>1. Len(events) > limit
                BY <1>10
            <4> QED BY <2>5, <4>1 DEF EventList
        <3>2. PICK m \in DOMAIN events : events[m].id = i
            BY <3>1 DEF Shows
        <3>3. events[m].key = key[i]
            BY <3>2 DEF EventList
        <3>4. m # limit + 1
            <4>1. key[i] \in Nat
                BY ThereKeys
            <4> QED BY <2>3, <2>5, <3>3, <4>1
        <3>5. m \in 1..k
            BY <1>3, <2>1, <3>4
        <3> QED BY <3>2, <3>3, <3>5
    <2>6. CASE b # a
        <3>1. page = EventPage(top, IF b = 0 THEN End ELSE b - 1)
            BY <1>2, <1>10, <2>2, <2>6 DEF BeforeBoundary
        <3>2. b > a /\ b # 0 /\ b - 1 \in Nat /\ b - 1 <= end /\ b - 1 < end /\ b - 1 # End
            BY <1>0, <2>3, <2>6
        <3>3. page.events = top /\ page.next = b - 1
            BY <3>1, <3>2 DEF EventPage
        <3> DEFINE P == 1..k
        <3>4. /\ \A n \in DOMAIN top : \E m \in P : top[n] = events[m]
              /\ \A m \in P : \E n \in DOMAIN top : top[n] = events[m]
            BY <1>6, <1>8
        <3>5. \A m \in P : events[m].key > b - 1
            BY <2>3, <2>4
        <3>6. \A i \in There : Within(end, Start, i) /\ key[i] > b - 1 => \E m \in P : events[m].id = i
            <4> SUFFICES ASSUME NEW i \in There, Within(end, Start, i), key[i] > b - 1
                         PROVE  \E m \in P : events[m].id = i
                OBVIOUS
            <4>1. key[i] \in Nat
                BY ThereKeys
            <4>2. key[i] > a
                BY <2>3, <3>2, <4>1
            <4> QED BY <2>5, <4>2
        <3> DEFINE o == b - 1
        <3>7. /\ o \in Nat \cup {End} /\ o <= end /\ o < end /\ \A m \in P : events[m].key > o
              /\ \A i \in There : Within(end, Start, i) /\ key[i] > o => \E m \in P : events[m].id = i
              /\ P \subseteq 1..k /\ o # End /\ page.next = o
            BY <3>2, <3>3, <3>5, <3>6
        <3>8. top \in Seq(RowRecord)
            BY <1>5
        <3> HIDE DEF o, P, b
        <3>9. P \subseteq DOMAIN events
            BY <1>6, <3>7
        <3>10. PageFits(end, events, P, o, top)
            BY <1>4, <1>7, <3>4, <3>7, <3>8, <3>9 DEF PageFits
        <3>11. GoodPage(end, top, o)
            BY <3>10, PageOfEvents
        <3> QED BY <3>3, <3>7, <3>11 DEF page
    <2>7. CASE b = a
        <3> DEFINE t == Sifted(top, apart)
        <3>1. page = IF t = << >> THEN NoEventPage ELSE EventPage(t, b)
            BY <1>2, <1>10, <2>2, <2>7 DEF BeforeBoundary, Filtered, Sifted
        <3>2. page.events = t /\ page.next = b /\ t # << >>
            <4>1. ~page.refused
                BY DEF page
            <4>2. page # NoEventPage
                BY <4>1 DEF NoEventPage
            <4>3. page = EventPage(t, b) /\ t # << >>
                BY <3>1, <4>2
            <4> QED BY <4>3 DEF EventPage
        <3>3. apart \subseteq 1..k
            BY <1>8
        <3>4. \A m \in apart : events[m].key > b
            <4> SUFFICES ASSUME NEW m \in apart PROVE events[m].key > b
                OBVIOUS
            <4>1. m \in 1..k /\ events[m].key # b
                BY <1>6, <1>8, <2>2
            <4>2. events[m].key >= b /\ events[m].key \in Nat
                BY <2>4, <4>1
            <4> QED BY <2>3, <4>1, <4>2
        <3>5. \A i \in There : Within(end, Start, i) /\ key[i] > b => \E m \in apart : events[m].id = i
            <4> SUFFICES ASSUME NEW i \in There, Within(end, Start, i), key[i] > b
                         PROVE  \E m \in apart : events[m].id = i
                OBVIOUS
            <4>1. PICK m \in 1..k : events[m].id = i /\ events[m].key = key[i]
                BY <2>5, <2>7
            <4>2. key[i] \in Nat /\ key[i] # b
                BY <2>3, ThereKeys
            <4>3. m \in apart
                BY <1>6, <1>8, <2>2, <4>1, <4>2
            <4> QED BY <4>1, <4>3
        <3>6. b # End /\ b \in Nat \cup {End} /\ b <= end
            BY <1>0, <2>3
        <3>61. b \in Nat /\ end \in Nat
            BY <2>3
        <3> HIDE DEF apart
        <3>7. /\ t \in Seq(RowRecord)
              /\ \A n \in DOMAIN t : \E m \in apart : t[n] = top[m]
              /\ \A m \in apart : \E n \in DOMAIN t : t[n] = top[m]
              /\ \A m, n \in DOMAIN t : t[m].id = t[n].id => m = n
            <4>1. top \in Seq(RowRecord) /\ apart \subseteq 1..Len(top)
                BY <1>5, <1>8, <3>3
            <4>2. \A m, n \in 1..Len(top) : top[m].id = top[n].id => m = n
                BY <1>7, <1>8
            <4> QED BY <4>1, <4>2, SiftedRows
        <3> HIDE DEF t, b
        <3>8. /\ \A n \in DOMAIN t : \E m \in apart : t[n] = events[m]
              /\ \A m \in apart : \E n \in DOMAIN t : t[n] = events[m]
            BY <1>6, <3>3, <3>7
        <3>9. apart \subseteq DOMAIN events
            BY <1>6, <3>3
        <3>91. b < end
            <4>1. PICK n \in DOMAIN t : TRUE
                BY <3>2, <3>7
            <4>2. PICK m \in apart : t[n] = events[m]
                BY <3>8
            <4>3. events[m].key > b /\ events[m].key <= end /\ events[m].key \in Nat
                BY <1>3, <1>4, <3>4, <3>9, <4>2
            <4> QED BY <3>61, <4>3
        <3>10. PageFits(end, events, apart, b, t)
            BY <1>4, <3>4, <3>5, <3>6, <3>7, <3>8, <3>9, <3>91 DEF PageFits
        <3>11. GoodPage(end, t, b)
            BY <3>10, PageOfEvents
        <3> QED BY <3>2, <3>11 DEF page
    <2> QED BY <2>6, <2>7
<1> QED BY <1>9, <1>10

-----------------------------------------------------------------------------
(***************************************************************************)
(* Answers.                                                                *)
(***************************************************************************)
PlacesInOrder(order, s, P) ==
    CASE order = "nameAndId" -> NameAndIdOrder(s, P)
      [] order = "name" -> NameOrder(s, P)
      [] order = "newest" -> NewestOrder(s, P)
      [] order = "none" -> PlaceOrder(P)

LEMMA SortedShape ==
    ASSUME NEW s \in Seq(RowRecord), NEW P, P \subseteq 1..Len(s),
           NEW order \in {"none", "name", "nameAndId", "newest"}
    PROVE  /\ Sorted(s, P, order) \in Seq(RowRecord)
           /\ \E at : Shown(s, P, PlacesInOrder(order, s, P), Sorted(s, P, order), at)
<1>1. IsFiniteSet(P) /\ P \subseteq Nat
    <2>1. 1 \in Int /\ Len(s) \in Int
        OBVIOUS
    <2>2. IsFiniteSet(1..Len(s)) /\ 1..Len(s) \subseteq Nat
        BY <2>1, FS_Interval
    <2> QED BY <2>2, FS_Subset
<1>2. \A i \in P : s[i].key \in Nat /\ s[i].id \in Nat
    <2>1. \A i \in P : s[i] \in RowRecord
        OBVIOUS
    <2>2. \A x \in RowRecord : x.key \in Nat /\ x.id \in Nat
        BY Constants DEF RowRecord
    <2> QED BY <2>1, <2>2
<1>3. \E at : Arrangement(s, P, PlacesInOrder(order, s, P), Sorted(s, P, order), at)
    <2>1. CASE order = "nameAndId"
        <3>1. \E at : Arrangement(s, P, NameAndIdOrder(s, P), Arranged(s, P, ByNameAndId), at)
            BY <1>1, <1>2, ArrangedByNameAndId
        <3> QED BY <2>1, <3>1 DEF PlacesInOrder, Sorted
    <2>2. CASE order = "name"
        <3>1. \E at : Arrangement(s, P, NameOrder(s, P), Arranged(s, P, ByName), at)
            BY <1>1, <1>2, ArrangedByName
        <3> QED BY <2>2, <3>1 DEF PlacesInOrder, Sorted
    <2>3. CASE order = "newest"
        <3>1. \E at : Arrangement(s, P, NewestOrder(s, P), Arranged(s, P, NewestFirst), at)
            BY <1>1, <1>2, ArrangedNewest
        <3> QED BY <2>3, <3>1 DEF PlacesInOrder, Sorted
    <2>4. CASE order = "none"
        <3>1. \E at : Arrangement(s, P, PlaceOrder(P), Arranged(s, P, AsTheyCome), at)
            BY <1>1, ArrangedAsTheyCome
        <3> QED BY <2>4, <3>1 DEF PlacesInOrder, Sorted
    <2> QED BY <2>1, <2>2, <2>3, <2>4
<1>4. PICK at : Arrangement(s, P, PlacesInOrder(order, s, P), Sorted(s, P, order), at)
    BY <1>3
<1>5. /\ Sorted(s, P, order) \in Seq(RowRecord)
      /\ Shown(s, P, PlacesInOrder(order, s, P), Sorted(s, P, order), at)
    BY <1>4, ArrangementShape
<1> QED BY <1>5

\* The places of the rows an answer shows.
Chosen == {n \in DOMAIN read : Matching(read[n]) /\ Visible(read[n])}

LEMMA AnswerTypes ==
    ASSUME TypeOK, phase = "walking"
    PROVE  /\ Answers.rows \in Seq(RowRecord) /\ Answers.next \in Nat \cup {End}
           /\ Answers.gap \in BOOLEAN /\ WindowRows \in Seq(RowRecord)
<1>0. /\ read \in Seq(RowRecord) /\ Len(read) \in Nat /\ DOMAIN read = 1..Len(read)
      /\ cut \in BOOLEAN /\ next \in Nat \cup {End} /\ cursor \in Nat /\ ask.limit \in Nat
    BY DEF TypeOK, CallOK, AskOK
<1>1. /\ ask.tool.finish \in {"record", "asRead", "section", "bounded", "window"}
      /\ ask.tool.order \in {"none", "name", "nameAndId", "newest"}
    BY ToolShape DEF TypeOK
<1>2. WindowRows \in Seq(RowRecord)
    <2>1. Chosen \subseteq 1..Len(read)
        BY <1>0 DEF Chosen
    <2>2. WindowRows = Sorted(read, Chosen, ask.tool.order)
        BY DEF WindowRows, Chosen
    <2> QED BY <1>0, <1>1, <2>1, <2>2, SortedShape
<1>3. CASE ask.tool.finish = "record"
    <2>1. Answers.rows = << >> /\ Answers.next = End /\ Answers.gap = FALSE
        BY <1>3 DEF Answers
    <2>2. << >> \in Seq(RowRecord) /\ End \in Nat \cup {End} /\ FALSE \in BOOLEAN
        OBVIOUS
    <2> QED BY <1>2, <2>1, <2>2, Zenon
<1>4. CASE ask.tool.finish = "asRead"
    <2>1. Answers.rows = read /\ Answers.next = next /\ Answers.gap = cut
        BY <1>4 DEF Answers
    <2> QED BY <1>0, <1>2, <2>1
<1>5. CASE ask.tool.finish = "section"
    <2>1. /\ Answers.rows = read /\ Answers.gap = FALSE
          /\ Answers.next = IF cut THEN cursor + Len(read) ELSE End
        BY <1>5 DEF Answers
    <2>2. cursor + Len(read) \in Nat
        BY <1>0
    <2> QED BY <1>0, <1>2, <2>1, <2>2
<1>6. CASE ask.tool.finish = "bounded"
    <2> DEFINE A == {n \in DOMAIN read : read[n].id \in Wanted}
               B == {n \in DOMAIN read : read[n].id \notin Wanted}
    <2>1. CarriersFirst = Sifted(read, A) \o Sifted(read, B)
        BY DEF CarriersFirst, Filtered, Sifted
    <2>2. A \subseteq 1..Len(read) /\ B \subseteq 1..Len(read)
        BY <1>0
    <2> HIDE DEF A, B
    <2>3. Sifted(read, A) \in Seq(RowRecord) /\ Sifted(read, B) \in Seq(RowRecord)
        BY <1>0, <2>2, SiftedRows
    <2>4. CarriersFirst \in Seq(RowRecord)
        BY <2>1, <2>3, ConcatShape
    <2>5. SkipTake(CarriersFirst, 0, Ceiling) \in Seq(RowRecord)
        <3>1. 0 \in Nat /\ Ceiling \in Nat
            BY Constants
        <3> QED BY <2>4, <3>1, SkipTakeShape
    <2>6. /\ Answers.rows = SkipTake(CarriersFirst, 0, Ceiling) /\ Answers.next = End
          /\ Answers.gap = (cut \/ Len(read) > Ceiling)
        BY <1>6 DEF Answers
    <2> QED BY <1>0, <1>2, <2>5, <2>6
<1>7. CASE ask.tool.finish = "window"
    <2> DEFINE page == SkipTake(WindowRows, cursor, ask.limit)
    <2>1. page \in Seq(RowRecord) /\ Len(page) \in Nat
        <3>1. page \in Seq(RowRecord)
            BY <1>0, <1>2, SkipTakeShape
        <3> QED BY <3>1
    <2>2. /\ Answers.rows = page /\ Answers.gap = cut
          /\ Answers.next = NextOffset(cursor, Len(page), Len(WindowRows))
        BY <1>7 DEF Answers
    <2> HIDE DEF page
    <2>3. NextOffset(cursor, Len(page), Len(WindowRows)) \in Nat \cup {End}
        <3>1. cursor + Len(page) \in Nat
            BY <1>0, <2>1
        <3> QED BY <3>1 DEF NextOffset
    <2> QED BY <1>0, <1>2, <2>1, <2>2, <2>3
<1> QED BY <1>1, <1>3, <1>4, <1>5, <1>6, <1>7

LEMMA IdSeqShape ==
    ASSUME NEW t \in Seq(RowRecord)
    PROVE  /\ IdSeq(t) \in Seq(Ids) /\ Len(IdSeq(t)) = Len(t) /\ Len(t) \in Nat
           /\ \A n \in 1..Len(t) : IdSeq(t)[n] = t[n].id
<1>1. Len(t) \in Nat /\ IdSeq(t) = [n \in 1..Len(t) |-> t[n].id]
    BY DEF IdSeq
<1>2. \A n \in 1..Len(t) : t[n].id \in Ids
    <2>1. \A n \in 1..Len(t) : t[n] \in RowRecord
        OBVIOUS
    <2> QED BY <2>1 DEF RowRecord
<1>3. IdSeq(t) \in [1..Len(t) -> Ids]
    BY <1>1, <1>2
<1>4. IdSeq(t) \in Seq(Ids) /\ Len(IdSeq(t)) = Len(t)
    <2> DEFINE u == IdSeq(t)
               c == Len(t)
    <2> HIDE DEF u, c
    <2>1. u \in [1..c -> Ids] /\ c \in Nat
        BY <1>1, <1>3 DEF u, c
    <2>2. u \in Seq(Ids) /\ Len(u) = c
        BY <2>1
    <2> QED BY <2>2 DEF u, c
<1> QED BY <1>1, <1>4

\* What an answer does.
LEMMA AnswerShape ==
    ASSUME TypeOK, phase = "walking", Answer, FilterAnswerable(ask.filter)
    PROVE  /\ step = Len(Course) + 1
           /\ got' = got \o IdSeq(Answers.rows) /\ flagged' = (flagged \/ Answers.gap)
           /\ cursor' = Answers.next /\ phase' = IF Answers.next = End THEN "done" ELSE "walking"
           /\ step' = 1 /\ read' = << >> /\ next' = End /\ cut' = FALSE /\ local' = NoLocal
           /\ UNCHANGED <<asked, world, chosen, history>>
           /\ IdSeq(Answers.rows) \in Seq(Ids) /\ Len(IdSeq(Answers.rows)) = Len(Answers.rows)
           /\ Len(Answers.rows) \in Nat
           /\ \A n \in 1..Len(Answers.rows) : IdSeq(Answers.rows)[n] = Answers.rows[n].id
<1> DEFINE t == Answers.rows
<1>1. t \in Seq(RowRecord)
    BY AnswerTypes
<1>2. /\ step = Len(Course) + 1
      /\ got' = got \o IdSeq(Answers.rows) /\ flagged' = (flagged \/ Answers.gap)
      /\ cursor' = Answers.next /\ phase' = IF Answers.next = End THEN "done" ELSE "walking"
      /\ step' = 1 /\ read' = << >> /\ next' = End /\ cut' = FALSE /\ local' = NoLocal
      /\ UNCHANGED <<asked, world, chosen, history>>
    BY DEF Answer, IdSeq
<1> HIDE DEF t
<1>3. /\ IdSeq(t) \in Seq(Ids) /\ Len(IdSeq(t)) = Len(t) /\ Len(t) \in Nat
      /\ \A n \in 1..Len(t) : IdSeq(t)[n] = t[n].id
    BY <1>1, IdSeqShape
<1> QED BY <1>2, <1>3 DEF t

-----------------------------------------------------------------------------
(***************************************************************************)
(* Every action keeps the types.                                           *)
(***************************************************************************)
\* A page of a collection.
PageRead(how, limit, reply) ==
    /\ At(how) /\ reply \in Replies(cursor, limit) /\ limit = NativeLimit(ask.limit, Cap)
    /\ Accepted(how, cursor, limit, reply[1])
    /\ read' = reply[1].rows /\ next' = PageNext(how, reply[1]) /\ step' = step + 1
    /\ trust' = Worse(trust, reply[2])
    /\ UNCHANGED <<asked, world, walk, cut, local, shuffled, taken>>

LEMMA ReadPageShape ==
    ASSUME ReadPage
    PROVE  \/ Refuse /\ Busy
           \/ \E how \in {"page", "vouchers", "catalog"} : \E limit, reply : PageRead(how, limit, reply)
<1> QED
    BY DEF ReadPage, PageRead, Advance, At

\* A page of a scan.
ScanRead(how, start, reply) ==
    /\ At(how) /\ start = (IF how = "section" THEN cursor ELSE 0)
    /\ reply \in Replies(start + Len(read), ScanLimit)
    /\ read' = read \o reply[1].rows
    /\ cut' = (/\ ~ScanOver(start + Len(read), reply[1])
               /\ ScanCut(start, start + Len(read), reply[1], Ceiling))
    /\ step' = IF \/ ScanOver(start + Len(read), reply[1])
                  \/ ScanCut(start, start + Len(read), reply[1], Ceiling)
               THEN step + 1 ELSE step
    /\ trust' = Worse(trust, reply[2])
    /\ UNCHANGED <<asked, world, walk, next, local, shuffled, taken>>

LEMMA ScanPageShape ==
    ASSUME ScanPage
    PROVE  \E how \in {"scan", "section"} : \E start, reply : ScanRead(how, start, reply)
<1> QED
    BY DEF ScanPage, ScanRead

\* A page of the log.
LogRead(how, number, size, served, reply) ==
    /\ At(how) /\ size = (IF how = "log" THEN ask.limit ELSE LogFetch)
    /\ number = (IF how = "log" THEN cursor ELSE 0)
    /\ served \in (IF how = "log" THEN {size} ELSE 1..size) /\ reply \in LogReplies(number, served)
    /\ LogPageAccepted(number, size, reply[1])
    /\ read' = reply[1].rows /\ step' = step + 1
    /\ next' = (IF how = "log" THEN LogNext(reply[1]) ELSE End)
    /\ cut' = (IF how = "log" THEN LogIncomplete(reply[1]) ELSE HasMore(reply[1]))
    /\ trust' = Worse(trust, reply[2])
    /\ UNCHANGED <<asked, world, walk, local, shuffled, taken>>

LEMMA ReadLogShape ==
    ASSUME ReadLog
    PROVE  \/ Refuse /\ Busy
           \/ \E how \in {"log", "logWindow"} : \E number, size, served, reply :
                 LogRead(how, number, size, served, reply)
<1> QED
    BY DEF ReadLog, LogRead, Advance, At

\* A page of events.
EventsPage(page) ==
    /\ At("events") /\ step' = step + 1 /\ read' = page.events /\ next' = page.next
    /\ GoodPage(cursor, page.events, page.next)
    /\ UNCHANGED <<asked, world, walk, cut, local, history>>

LEMMA ReadEventsShape ==
    ASSUME TypeOK, ReadEvents
    PROVE  (Refuse /\ Busy) \/ \E page : EventsPage(page)
<1>1. Busy
    BY DEF ReadEvents, At
<1>2. WorldOK /\ cursor \in Nat /\ ask.limit \in Nat \ {0}
    BY <1>1, InCourse
<1>3. PICK events \in EventReplies(cursor, ask.limit) :
         LET page == FinishProtectEventPage(Start, cursor, ask.limit, events)
         IN  IF page.refused THEN Refuse
             ELSE /\ read' = page.events /\ next' = page.next /\ Advance
                  /\ UNCHANGED <<asked, world, walk, cut, local, history>>
    BY DEF ReadEvents
<1>4. EventList(cursor, ask.limit, Start, events)
    BY <1>2, EventReplyShape
<1> DEFINE page == FinishProtectEventPage(Start, cursor, ask.limit, events)
<1>5. CASE page.refused
    BY <1>1, <1>3, <1>5
<1>6. CASE ~page.refused
    <2>1. GoodPage(cursor, page.events, page.next)
        BY <1>2, <1>4, <1>6, FinishShape
    <2>2. EventsPage(page)
        BY <1>3, <1>6, <2>1 DEF EventsPage, ReadEvents, Advance
    <2> QED BY <2>2
<1> QED BY <1>5, <1>6

LEMMA WorseType ==
    ASSUME NEW a, NEW b
    PROVE  Worse(a, b) \in {"honest", "odd", "understated"}
<1> QED
    BY DEF Worse

\* A step that finds nothing new.
LEMMA QuietTypes ==
    ASSUME TypeOK, Busy, Advance, UNCHANGED <<asked, world, walk, read, next, cut, local, history>>
    PROVE  TypeOK'
<1>1. phase = "walking" /\ step + 1 \in 1..(Len(Course) + 1)
    BY InCourse
<1>2. CallValues'
    BY CallValuesHold DEF CallValues, history
<1>3. UNCHANGED <<asked, world, phase, cursor, got, flagged>>
    BY DEF walk
<1> QED BY <1>1, <1>2, <1>3, StepKeepsTypes DEF Advance

LEMMA ReadWholeTypes ==
    ASSUME TypeOK, ReadWhole
    PROVE  TypeOK'
<1>1. Busy /\ step' = step + 1 /\ UNCHANGED <<asked, world, walk, next, cut, local, trust, taken>>
    BY DEF ReadWhole, At, Advance
<1>2. phase = "walking" /\ step + 1 \in 1..(Len(Course) + 1) /\ WorldOK
    BY <1>1, InCourse
<1>3. PICK order \in {rows, Reverse(rows)} : read' = Reading(order) /\ shuffled' = (shuffled \/ order # rows)
    BY DEF ReadWhole
<1>4. read' \in Seq(RowRecord)
    <2>1. rows \in Seq(Ids) /\ key \in [Ids -> Keys]
        BY <1>2 DEF WorldOK
    <2>2. Reverse(rows) \in Seq(Ids)
        BY <2>1, ReverseShape
    <2>3. order \in Seq(Ids)
        BY <2>1, <2>2
    <2> QED BY <1>3, <2>1, <2>3, ReadingShape
<1>5. shuffled' \in BOOLEAN
    BY <1>3, CallValuesHold DEF CallValues
<1>6. CallValues'
    BY <1>1, <1>4, <1>5, CallValuesHold DEF CallValues
<1>7. UNCHANGED <<asked, world, phase, cursor, got, flagged>>
    BY <1>1 DEF walk
<1> QED BY <1>1, <1>2, <1>6, <1>7, StepKeepsTypes

LEMMA ViewTypes ==
    ASSUME WorldOK, NEW listed, NEW view \in Views(listed)
    PROVE  /\ view.ids \subseteq Ids
           /\ ~ask.local => view = NoLocal
           /\ view.state = "full" => ask.local /\ view.ids = listed
           /\ ask.local => view.state # "off"
<1>1. There \subseteq Ids
    BY ThereKeys
<1>2. CASE ~ask.local
    BY <1>2 DEF Views, NoLocal
<1>3. CASE ask.local
    <2>1. view \in LocalViews(listed)
        BY <1>3 DEF Views
    <2>2. CASE view = [state |-> "down", ids |-> {}]
        BY <1>3, <2>2
    <2>3. ASSUME NEW known \in {There, There \ {1}},
                 view = [state |-> LocalState(known, listed), ids |-> known]
          PROVE  view.ids \subseteq Ids /\ (view.state = "full" => view.ids = listed) /\ view.state # "off"
        <3>1. view.ids = known /\ view.state = LocalState(known, listed)
            BY <2>3
        <3>2. known \subseteq Ids
            BY <1>1
        <3> QED BY <3>1, <3>2 DEF LocalState
    <2> QED BY <1>3, <2>1, <2>2, <2>3 DEF LocalViews
<1> QED BY <1>2, <1>3

LEMMA ReadLocalTypes ==
    ASSUME TypeOK, ReadLocal
    PROVE  TypeOK'
<1>1. Busy /\ step' = step + 1 /\ UNCHANGED <<asked, world, walk, read, next, cut, history>>
      /\ local' \in Views(IdsOf(read))
    BY DEF ReadLocal, At, Advance
<1>2. phase = "walking" /\ step + 1 \in 1..(Len(Course) + 1) /\ WorldOK
    BY <1>1, InCourse
<1>3. local'.ids \subseteq Ids
    BY <1>1, <1>2, ViewTypes
<1>4. CallValues'
    BY <1>1, <1>3, CallValuesHold DEF CallValues, history
<1>5. UNCHANGED <<asked, world, phase, cursor, got, flagged>>
    BY <1>1 DEF walk
<1> QED BY <1>1, <1>2, <1>4, <1>5, StepKeepsTypes

LEMMA ReadNamesTypes ==
    ASSUME TypeOK, ReadNames
    PROVE  TypeOK'
<1>1. Busy /\ step' = step + 1 /\ UNCHANGED <<asked, world, walk, next, cut, history>>
      /\ local' \in Views(There) /\ read' = Reading(rows)
    BY DEF ReadNames, At, Advance
<1>2. phase = "walking" /\ step + 1 \in 1..(Len(Course) + 1) /\ WorldOK
    BY <1>1, InCourse
<1>3. local'.ids \subseteq Ids
    BY <1>1, <1>2, ViewTypes
<1>4. read' \in Seq(RowRecord)
    BY <1>1, <1>2, ReadingShape DEF WorldOK
<1>5. CallValues'
    BY <1>1, <1>3, <1>4, CallValuesHold DEF CallValues, history
<1>6. UNCHANGED <<asked, world, phase, cursor, got, flagged>>
    BY <1>1 DEF walk
<1> QED BY <1>1, <1>2, <1>5, <1>6, StepKeepsTypes

LEMMA PageReadTypes ==
    ASSUME TypeOK, NEW how \in {"page", "vouchers", "catalog"}, NEW limit, NEW reply,
           PageRead(how, limit, reply)
    PROVE  TypeOK'
<1>1. Busy /\ step' = step + 1 /\ UNCHANGED <<asked, world, walk, cut, local, shuffled, taken>>
      /\ read' = reply[1].rows /\ next' = PageNext(how, reply[1]) /\ trust' = Worse(trust, reply[2])
    BY DEF PageRead, At
<1>2. /\ phase = "walking" /\ step + 1 \in 1..(Len(Course) + 1) /\ WorldOK
      /\ cursor \in Nat /\ ask.limit \in Nat \ {0}
    BY <1>1, InCourse
<1>3. limit \in Nat \ {0}
    BY <1>2, MinOfTwo, Constants DEF PageRead, NativeLimit
<1>4. /\ reply[1].rows \in Seq(RowRecord) /\ Len(reply[1].rows) \in Nat
      /\ reply[1].offset \in Nat /\ reply[1].limit \in Nat /\ reply[1].total \in Nat
    BY <1>2, <1>3, ReplyTypes DEF PageRead
<1>5. PageNext(how, reply[1]) \in Nat \cup {End}
    <2>1. reply[1].offset + Len(reply[1].rows) \in Nat
        BY <1>4
    <2> QED BY <2>1 DEF PageNext, NextOffset, After
<1>6. CallValues'
    BY <1>1, <1>4, <1>5, CallValuesHold, WorseType DEF CallValues
<1>7. UNCHANGED <<asked, world, phase, cursor, got, flagged>>
    BY <1>1 DEF walk
<1> QED BY <1>1, <1>2, <1>6, <1>7, StepKeepsTypes

LEMMA ScanReadTypes ==
    ASSUME TypeOK, NEW how \in {"scan", "section"}, NEW start, NEW reply, ScanRead(how, start, reply)
    PROVE  TypeOK'
<1>1. Busy /\ UNCHANGED <<asked, world, walk, next, local, shuffled, taken>>
      /\ step' \in {step, step + 1} /\ cut' \in BOOLEAN
      /\ read' = read \o reply[1].rows /\ trust' = Worse(trust, reply[2])
    BY DEF ScanRead, At
<1>2. /\ phase = "walking" /\ step + 1 \in 1..(Len(Course) + 1) /\ WorldOK
      /\ step \in 1..(Len(Course) + 1) /\ cursor \in Nat
    BY <1>1, InCourse
<1>3. read \in Seq(RowRecord) /\ Len(read) \in Nat
    BY CallValuesHold DEF CallValues
<1>4. start \in Nat
    BY <1>2 DEF ScanRead
<1>5. start + Len(read) \in Nat /\ ScanLimit \in Nat \ {0}
    BY <1>3, <1>4, Constants
<1>6. reply[1].rows \in Seq(RowRecord)
    BY <1>2, <1>5, ReplyTypes DEF ScanRead
<1>7. read' \in Seq(RowRecord)
    BY <1>1, <1>3, <1>6, ConcatShape
<1>8. CallValues'
    BY <1>1, <1>7, CallValuesHold, WorseType DEF CallValues
<1>9. UNCHANGED <<asked, world, phase, cursor, got, flagged>>
    BY <1>1 DEF walk
<1>10. step' \in 1..(Len(Course) + 1)
    BY <1>1, <1>2
<1> QED BY <1>2, <1>8, <1>9, <1>10, StepKeepsTypes

LEMMA LogReadTypes ==
    ASSUME TypeOK, NEW how \in {"log", "logWindow"}, NEW number, NEW size, NEW served, NEW reply,
           LogRead(how, number, size, served, reply)
    PROVE  TypeOK' /\ number \in Nat /\ size \in Nat \ {0} /\ served \in Nat \ {0}
<1>1. Busy /\ step' = step + 1 /\ UNCHANGED <<asked, world, walk, local, shuffled, taken>>
      /\ read' = reply[1].rows /\ trust' = Worse(trust, reply[2])
      /\ next' = (IF how = "log" THEN LogNext(reply[1]) ELSE End)
      /\ cut' \in BOOLEAN
    BY DEF LogRead, At, LogIncomplete, HasMore
<1>2. /\ phase = "walking" /\ step + 1 \in 1..(Len(Course) + 1) /\ WorldOK
      /\ cursor \in Nat /\ ask.limit \in Nat \ {0}
    BY <1>1, InCourse
<1>3. number \in Nat /\ size \in Nat \ {0} /\ served \in Nat \ {0}
    BY <1>2, Constants DEF LogRead
<1>4. /\ number * served \in Nat /\ served \in Nat /\ served + 1 \in Nat /\ Len(rows) \in Nat
    BY <1>2, <1>3, PageCount DEF WorldOK
<1>5. reply[1].rows \in Seq(RowRecord) /\ reply[1].number \in Nat
    <2> DEFINE o == number * served
    <2>0. o \in Nat
        BY <1>4
    <2>1. \/ reply[1].rows = RowsAt(o, served) \/ reply[1].rows = << >>
          \/ reply[1].rows = RowsAt(o, served + 1)
        BY <1>2, <1>3, LogShape DEF LogRead
    <2>2. reply[1].number = number \/ reply[1].number = number + 1
        BY <1>2, <1>3, LogShape DEF LogRead
    <2> HIDE DEF o
    <2>3. RowsAt(o, served) \in Seq(RowRecord)
        BY <1>2, <1>4, <2>0, RowsAtShape
    <2>4. RowsAt(o, served + 1) \in Seq(RowRecord)
        BY <1>2, <1>4, <2>0, RowsAtShape
    <2>5. << >> \in Seq(RowRecord) /\ number + 1 \in Nat
        BY <1>3
    <2>6. reply[1].rows \in Seq(RowRecord)
        BY <2>1, <2>3, <2>4, <2>5
    <2>7. reply[1].number \in Nat
        BY <1>3, <2>2, <2>5
    <2> QED BY <2>6, <2>7
<1>6. next' \in Nat \cup {End}
    BY <1>1, <1>5 DEF LogNext
<1>7. CallValues'
    BY <1>1, <1>5, <1>6, CallValuesHold, WorseType DEF CallValues
<1>8. UNCHANGED <<asked, world, phase, cursor, got, flagged>>
    BY <1>1 DEF walk
<1> QED BY <1>1, <1>2, <1>3, <1>7, <1>8, StepKeepsTypes

LEMMA EventsPageTypes ==
    ASSUME TypeOK, NEW page, EventsPage(page)
    PROVE  TypeOK'
<1>1. Busy /\ step' = step + 1 /\ UNCHANGED <<asked, world, walk, cut, local, history>>
      /\ read' \in Seq(RowRecord) /\ next' \in Nat \cup {End}
    BY DEF EventsPage, At, GoodPage
<1>2. phase = "walking" /\ step + 1 \in 1..(Len(Course) + 1)
    BY <1>1, InCourse
<1>3. CallValues'
    BY <1>1, CallValuesHold DEF CallValues, history
<1>4. UNCHANGED <<asked, world, phase, cursor, got, flagged>>
    BY <1>1 DEF walk
<1> QED BY <1>1, <1>2, <1>3, <1>4, StepKeepsTypes

LEMMA MessageTypes ==
    ASSUME TypeOK, Message
    PROVE  TypeOK'
<1>1. Busy /\ UNCHANGED <<asked, world, walk, next, local, trust, shuffled>>
      /\ taken < Len(rows) /\ taken' = taken + 1 /\ cut' \in BOOLEAN
      /\ read' \in {read, Append(read, Row(rows[taken + 1]))} /\ step' \in {step, step + 1}
    BY DEF Message, At
<1>2. /\ phase = "walking" /\ step + 1 \in 1..(Len(Course) + 1) /\ WorldOK
      /\ step \in 1..(Len(Course) + 1)
    BY <1>1, InCourse
<1>3. read \in Seq(RowRecord) /\ taken \in Nat
    BY CallValuesHold DEF CallValues
<1>4. Row(rows[taken + 1]) \in RowRecord
    <2>1. rows \in Seq(Ids) /\ key \in [Ids -> Keys]
        BY <1>2 DEF WorldOK
    <2>2. taken + 1 \in 1..Len(rows)
        BY <1>1, <1>3, <2>1
    <2>3. rows[taken + 1] \in Ids
        BY <2>1, <2>2
    <2> QED BY <2>1, <2>3 DEF Row, RowRecord
<1>5. read' \in Seq(RowRecord)
    <2>1. Append(read, Row(rows[taken + 1])) \in Seq(RowRecord)
        BY <1>3, <1>4
    <2> QED BY <1>1, <1>3, <2>1
<1>6. CallValues'
    BY <1>1, <1>3, <1>5, CallValuesHold DEF CallValues
<1>7. UNCHANGED <<asked, world, phase, cursor, got, flagged>>
    BY <1>1 DEF walk
<1>8. step' \in 1..(Len(Course) + 1)
    BY <1>1, <1>2
<1> QED BY <1>2, <1>6, <1>7, <1>8, StepKeepsTypes

LEMMA StreamFailsTypes ==
    ASSUME TypeOK, StreamFails
    PROVE  TypeOK'
<1>1. Busy /\ step' = step + 1 /\ cut' = TRUE
      /\ UNCHANGED <<asked, world, walk, read, next, local, history>>
    BY DEF StreamFails, At, Advance
<1>2. phase = "walking" /\ step + 1 \in 1..(Len(Course) + 1)
    BY <1>1, InCourse
<1>3. CallValues'
    BY <1>1, CallValuesHold DEF CallValues, history
<1>4. UNCHANGED <<asked, world, phase, cursor, got, flagged>>
    BY <1>1 DEF walk
<1> QED BY <1>1, <1>2, <1>3, <1>4, StepKeepsTypes

LEMMA SelectTypes ==
    ASSUME TypeOK, Select
    PROVE  TypeOK'
<1>1. CASE Picked(Cur.rule) = {}
    BY <1>1, RefuseKeepsTypes DEF Select
<1>2. CASE Picked(Cur.rule) # {}
    <2>1. Busy /\ step' = step + 1
          /\ UNCHANGED <<asked, world, phase, cursor, got, flagged, read, next, cut, local, history>>
        BY <1>2 DEF Select, At, Advance
    <2>2. phase = "walking" /\ step + 1 \in 1..(Len(Course) + 1)
        BY <2>1, InCourse
    <2>3. CallValues'
        BY <2>1, CallValuesHold DEF CallValues, history
    <2> QED BY <2>1, <2>2, <2>3, StepKeepsTypes
<1> QED BY <1>1, <1>2

LEMMA AnswerKeepsTypes ==
    ASSUME TypeOK, Answer
    PROVE  TypeOK'
<1>0. phase = "walking"
    BY DEF Answer
<1>1. CASE ~FilterAnswerable(ask.filter)
    BY <1>1, RefuseKeepsTypes DEF Answer
<1>2. CASE FilterAnswerable(ask.filter)
    <2>1. /\ got' = got \o IdSeq(Answers.rows) /\ flagged' = (flagged \/ Answers.gap)
          /\ cursor' = Answers.next /\ phase' = IF Answers.next = End THEN "done" ELSE "walking"
          /\ step' = 1 /\ read' = << >> /\ next' = End /\ cut' = FALSE /\ local' = NoLocal
          /\ UNCHANGED <<asked, world, chosen, history>>
          /\ IdSeq(Answers.rows) \in Seq(Ids)
        BY <1>0, <1>2, AnswerShape
    <2>2. Answers.next \in Nat \cup {End}
        BY <1>0, AnswerTypes
    <2>3. WorldOK /\ AskOK /\ got \in Seq(Ids) /\ flagged \in BOOLEAN
        BY <1>0 DEF TypeOK
    <2>4. WorldOK' /\ AskOK' /\ runtime' = runtime /\ Course' = Course
        <3>1. UNCHANGED world /\ UNCHANGED asked
            BY <2>1
        <3> QED BY <2>3, <3>1, SameWorld, SameAsk
    <2>5. got' \in Seq(Ids)
        BY <2>1, <2>3, ConcatShape
    <2>6. CallOK'
        <3>1. << >> \in Seq(RowRecord) /\ NoLocal.ids \subseteq Ids
            BY DEF NoLocal
        <3>2. 1 \in 1..(Len(Course) + 1)
            BY <2>3, ToolShape
        <3>3. phase' = "walking" => cursor' \in Nat
            BY <2>1, <2>2
        <3> QED BY <2>1, <2>4, <3>1, <3>2, <3>3 DEF CallOK
    <2>7. flagged' \in BOOLEAN /\ phase' \in {"walking", "done"}
        BY <2>1
    <2>8. UNCHANGED history
        BY <2>1
    <2> QED BY <2>4, <2>5, <2>6, <2>7, <2>8 DEF TypeOK, history
<1> QED BY <1>1, <1>2

LEMMA CallTypes ==
    ASSUME TypeOK, NewInv, NEW tool \in Tools, Call(tool)
    PROVE  TypeOK' /\ phase' = "walking" /\ ask'.tool = tool
<1>1. /\ phase = "new" /\ phase' = "walking" /\ runtime' = runtime
      /\ cursor' = IF Uses(tool, "events") THEN LastKey ELSE 0
      /\ UNCHANGED world /\ UNCHANGED call /\ UNCHANGED history /\ UNCHANGED <<got, flagged, chosen>>
    BY DEF Call
<1>2. PICK limit \in IF tool.finish = "record" \/ Uses(tool, "socket") THEN {1} ELSE Limits,
           filter \in tool.filters,
           selector \in IF Uses(tool, "pick") THEN Selectors ELSE {None},
           configured \in IF Uses(tool, "local") \/ Uses(tool, "names") THEN BOOLEAN ELSE {FALSE},
           public \in IF Uses(tool, "local") THEN {Ids, Ids \ {2}} ELSE {Ids} :
              ask' = [tool |-> tool, limit |-> limit, filter |-> filter, selector |-> selector,
                      local |-> configured, public |-> public]
    BY DEF Call
<1>3. /\ ask'.tool = tool /\ ask'.limit = limit /\ ask'.filter = filter
      /\ ask'.local = configured /\ ask'.public = public
    BY <1>2
<1>4. AskOK'
    <2>1. limit \in Nat \ {0}
        BY Constants
    <2>2. configured \in BOOLEAN /\ (configured => Uses(tool, "local") \/ Uses(tool, "names"))
        OBVIOUS
    <2>3. public \subseteq Ids /\ (~Uses(tool, "local") => public = Ids)
        OBVIOUS
    <2>4. /\ ask'.tool \in Tools /\ ask'.limit \in Nat \ {0} /\ ask'.filter \in ask'.tool.filters
          /\ ask'.local \in BOOLEAN /\ ask'.public \subseteq Ids
          /\ ask'.local => Uses(ask'.tool, "local") \/ Uses(ask'.tool, "names")
          /\ ~Uses(ask'.tool, "local") => ask'.public = Ids
        BY <1>3, <2>1, <2>2, <2>3
    <2> QED BY <2>4 DEF AskOK, Uses
<1>5. WorldOK'
    BY <1>1, SameWorld DEF TypeOK
<1>6. CallOK'
    <2>1. cursor' \in Nat
        BY <1>1, KeyBounds
    <2>2. step' = 1 /\ 1 \in (1..(Len(Course) + 1))'
        <3>1. step' = 1
            BY <1>1 DEF NewInv, call
        <3>2. ask'.tool \in ToolRecord
            BY <1>3, CourseAssumption
        <3>3. Course' = ask'.tool.course
            BY DEF Course
        <3>4. Course' \in Seq(StepRecord)
            BY <3>2, <3>3 DEF ToolRecord
        <3>5. Len(Course') \in Nat
            BY <3>4
        <3>6. 1 \in 1..(Len(Course') + 1)
            BY <3>5
        <3> QED BY <3>1, <3>6
    <2>3. CallOK /\ UNCHANGED <<read, next, cut, local>>
        BY <1>1 DEF TypeOK, call
    <2> QED BY <2>1, <2>2, <2>3 DEF CallOK
<1> QED BY <1>1, <1>3, <1>4, <1>5, <1>6 DEF TypeOK, history

LEMMA CallUnknownTypes ==
    ASSUME TypeOK, NEW tool, CallUnknown(tool)
    PROVE  TypeOK' /\ phase' = "unknown"
<1>1. phase' = "unknown" /\ UNCHANGED world /\ UNCHANGED asked /\ UNCHANGED call /\ UNCHANGED history
      /\ UNCHANGED <<cursor, got, flagged, chosen>>
    BY DEF CallUnknown
<1>2. WorldOK' /\ runtime' = runtime
    <2>1. WorldOK
        BY DEF TypeOK
    <2> QED BY <1>1, <2>1, SameWorld, SameAsk
<1>3. CallOK'
    BY <1>1 DEF TypeOK, CallOK, call
<1> QED BY <1>1, <1>2, <1>3 DEF TypeOK, history

\* What an edit leaves as it is: a row that is there or was keeps its key.
LEMMA InsertKeeps ==
    ASSUME WorldOK, NEW i \in Fresh, NEW n \in {1, Len(rows) + 1}, NEW k \in Keys,
           rows' = InsertAt(rows, n, i), key' = [key EXCEPT ![i] = k], gone' = gone,
           edits' = edits + 1
    PROVE  /\ WorldOK' /\ Known \subseteq Known' /\ Kept' = Kept
           /\ \A j \in Known : key'[j] = key[j]
<1>0. /\ rows \in Seq(Ids) /\ key \in [Ids -> Keys] /\ gone \subseteq Ids /\ edits \in Nat
      /\ \A m, l \in DOMAIN rows : rows[m] = rows[l] => m = l
      /\ There \cap gone = {} /\ Kept \subseteq There /\ DOMAIN rows = 1..Len(rows) /\ Len(rows) \in Nat
    BY DEF WorldOK
<1>1. i \in Ids /\ i \notin There /\ i \notin gone
    BY DEF Fresh
<1>2. /\ rows' \in Seq(Ids) /\ Len(rows') = Len(rows) + 1 /\ rows'[n] = i
      /\ \A m \in 1..(Len(rows) + 1) : m # n =>
            \E j \in 1..Len(rows) : rows'[m] = rows[j] /\ j = IF m < n THEN m ELSE m - 1
      /\ \A j \in 1..Len(rows) : \E m \in 1..(Len(rows) + 1) : m # n /\ rows'[m] = rows[j]
    <2>1. rows \in Seq(Ids) /\ i \in Ids
        BY <1>0, <1>1
    <2>2. rows' \in Seq(Ids) /\ Inserted(rows, n, i, rows')
        BY <2>1, InsertShape
    <2> QED BY <2>2 DEF Inserted
<1>3. DOMAIN rows' = 1..(Len(rows) + 1)
    BY <1>2
<1>4. n \in 1..(Len(rows) + 1)
    BY <1>0
<1>5. There' = There \cup {i}
    <2>1. \A x \in There' : x \in There \cup {i}
        <3> SUFFICES ASSUME NEW m \in DOMAIN rows' PROVE rows'[m] \in There \cup {i}
            BY DEF There
        <3>1. CASE m = n
            BY <1>2, <3>1
        <3>2. CASE m # n
            <4>1. PICK j \in 1..Len(rows) : rows'[m] = rows[j]
                BY <1>2, <1>3, <3>2
            <4> QED BY <1>0, <4>1 DEF There
        <3> QED BY <3>1, <3>2
    <2>2. \A x \in There : x \in There'
        <3> SUFFICES ASSUME NEW j \in 1..Len(rows) PROVE rows[j] \in There'
            BY <1>0 DEF There
        <3>1. PICK m \in 1..(Len(rows) + 1) : rows'[m] = rows[j]
            BY <1>2
        <3> QED BY <1>3, <3>1 DEF There
    <2>3. i \in There'
        BY <1>2, <1>3, <1>4 DEF There
    <2> QED BY <2>1, <2>2, <2>3
<1>6. ASSUME NEW m \in DOMAIN rows', NEW l \in DOMAIN rows', rows'[m] = rows'[l]
      PROVE  m = l
    <2>1. ASSUME NEW x \in DOMAIN rows', x # n PROVE rows'[x] # i
        <3>1. PICK j \in 1..Len(rows) : rows'[x] = rows[j]
            BY <1>2, <1>3, <2>1
        <3> QED BY <1>0, <1>1, <3>1 DEF There
    <2>2. CASE m = n \/ l = n
        BY <1>2, <1>6, <2>1, <2>2
    <2>3. CASE m # n /\ l # n
        <3>1. PICK a \in 1..Len(rows) : rows'[m] = rows[a] /\ a = IF m < n THEN m ELSE m - 1
            BY <1>2, <1>3, <2>3
        <3>2. PICK b \in 1..Len(rows) : rows'[l] = rows[b] /\ b = IF l < n THEN l ELSE l - 1
            BY <1>2, <1>3, <2>3
        <3>3. a = b
            BY <1>0, <1>6, <3>1, <3>2
        <3>4. m \in Nat /\ l \in Nat /\ n \in Nat
            BY <1>0, <1>3, <1>4
        <3>5. m < n \/ m > n
            BY <2>3, <3>4
        <3>6. l < n \/ l > n
            BY <2>3, <3>4
        <3> QED BY <3>1, <3>2, <3>3, <3>4, <3>5, <3>6
    <2> QED BY <2>2, <2>3
<1>7. Kept' = Kept
    BY DEF Kept
<1>8. key' \in [Ids -> Keys] /\ \A j \in Ids : j # i => key'[j] = key[j]
    BY <1>0
<1>9. \A j \in Known : key'[j] = key[j]
    <2>1. \A j \in Known : j \in Ids /\ j # i
        BY <1>0, <1>1, ThereKeys DEF Known
    <2> QED BY <1>8, <2>1
<1>10. edits' # 0 /\ edits' \in Nat
    BY <1>0
<1>11. Known \subseteq Known'
    BY <1>5 DEF Known
<1> QED BY <1>0, <1>1, <1>2, <1>5, <1>6, <1>7, <1>8, <1>9, <1>10, <1>11 DEF WorldOK

LEMMA RemoveKeeps ==
    ASSUME WorldOK, NEW n \in DOMAIN rows, rows' = RemoveAt(rows, n), gone' = gone \cup {rows[n]},
           key' = key, edits' = edits + 1
    PROVE  /\ WorldOK' /\ Known \subseteq Known' /\ Kept' \subseteq Kept
           /\ \A j \in Known : key'[j] = key[j]
<1>0. /\ rows \in Seq(Ids) /\ key \in [Ids -> Keys] /\ gone \subseteq Ids /\ edits \in Nat
      /\ \A m, l \in DOMAIN rows : rows[m] = rows[l] => m = l
      /\ There \cap gone = {} /\ Kept \subseteq There /\ DOMAIN rows = 1..Len(rows) /\ Len(rows) \in Nat
      /\ n \in 1..Len(rows) /\ rows[n] \in Ids
    BY DEF WorldOK
<1> DEFINE at(m) == IF m < n THEN m ELSE m + 1
<1>1. /\ rows' \in Seq(Ids) /\ Len(rows') = Len(rows) - 1
      /\ \A m \in 1..(Len(rows) - 1) : rows'[m] = rows[at(m)] /\ at(m) \in 1..Len(rows) /\ at(m) # n
      /\ \A j \in 1..Len(rows) : j # n => \E m \in 1..(Len(rows) - 1) : rows'[m] = rows[j]
    <2>1. rows \in Seq(Ids) /\ n \in 1..Len(rows)
        BY <1>0
    <2>2. rows' \in Seq(Ids) /\ Removed(rows, n, rows')
        BY <2>1, RemoveShape
    <2> QED BY <2>2 DEF Removed
<1>2. DOMAIN rows' = 1..(Len(rows) - 1)
    BY <1>1
<1>3. There' = There \ {rows[n]}
    <2>1. \A x \in There' : x \in There \ {rows[n]}
        <3> SUFFICES ASSUME NEW m \in DOMAIN rows' PROVE rows'[m] \in There \ {rows[n]}
            BY DEF There
        <3>1. rows'[m] = rows[at(m)] /\ at(m) \in DOMAIN rows /\ at(m) # n
            BY <1>0, <1>1, <1>2
        <3> HIDE DEF at
        <3>2. rows[at(m)] # rows[n]
            BY <1>0, <3>1
        <3> QED BY <3>1, <3>2 DEF There
    <2>2. \A x \in There \ {rows[n]} : x \in There'
        <3> SUFFICES ASSUME NEW j \in 1..Len(rows), rows[j] # rows[n] PROVE rows[j] \in There'
            BY <1>0 DEF There
        <3>1. PICK m \in 1..(Len(rows) - 1) : rows'[m] = rows[j]
            BY <1>1
        <3> QED BY <1>2, <3>1 DEF There
    <2> QED BY <2>1, <2>2
<1>4. ASSUME NEW m \in DOMAIN rows', NEW l \in DOMAIN rows', rows'[m] = rows'[l]
      PROVE  m = l
    <2>1. rows[at(m)] = rows[at(l)] /\ at(m) \in DOMAIN rows /\ at(l) \in DOMAIN rows
        BY <1>0, <1>1, <1>2, <1>4
    <2>2. at(m) = at(l)
        <3> HIDE DEF at
        <3> QED BY <1>0, <2>1
    <2>3. m \in Nat /\ l \in Nat /\ n \in Nat
        BY <1>0, <1>2
    <2> QED BY <2>2, <2>3
<1>5. Kept' = Kept \ {rows[n]}
    BY DEF Kept
<1>6. rows[n] \in There
    BY DEF There
<1>7. Known' = Known
    BY <1>3, <1>6 DEF Known
<1>8. edits' # 0 /\ edits' \in Nat
    BY <1>0
<1>9. /\ There' \cap gone' = {} /\ Kept' \subseteq There' /\ gone' \subseteq Ids
    BY <1>0, <1>3, <1>5
<1> QED BY <1>0, <1>1, <1>4, <1>5, <1>7, <1>8, <1>9 DEF WorldOK

LEMMA EditShape ==
    ASSUME WorldOK, Edit
    PROVE  /\ WorldOK' /\ Known \subseteq Known' /\ Kept' \subseteq Kept
           /\ \A j \in Known : key'[j] = key[j]
           /\ phase = "walking" /\ edits' # 0 /\ edits' = edits + 1
           /\ ask.tool.finish # "record" /\ (KeysMatter(ask.tool) => Uses(ask.tool, "events"))
           /\ UNCHANGED asked /\ UNCHANGED walk /\ UNCHANGED call /\ UNCHANGED history
<1>1. /\ phase = "walking" /\ edits' = edits + 1
      /\ ask.tool.finish # "record" /\ (KeysMatter(ask.tool) => Uses(ask.tool, "events"))
      /\ UNCHANGED asked /\ UNCHANGED walk /\ UNCHANGED call /\ UNCHANGED history
    BY DEF Edit
<1>2. \/ \E i \in Fresh, n \in {1, Len(rows) + 1}, k \in Keys :
            rows' = InsertAt(rows, n, i) /\ key' = [key EXCEPT ![i] = k] /\ gone' = gone
      \/ \E n \in DOMAIN rows :
            rows' = RemoveAt(rows, n) /\ gone' = gone \cup {rows[n]} /\ key' = key
    BY DEF Edit
<1>3. /\ WorldOK' /\ Known \subseteq Known' /\ Kept' \subseteq Kept
      /\ \A j \in Known : key'[j] = key[j]
    BY <1>1, <1>2, InsertKeeps, RemoveKeeps
<1>4. edits' # 0
    BY <1>1 DEF WorldOK
<1> QED BY <1>1, <1>3, <1>4

LEMMA EditTypes ==
    ASSUME TypeOK, Edit
    PROVE  TypeOK' /\ phase' # "new"
<1>1. WorldOK' /\ phase = "walking"
      /\ UNCHANGED asked /\ UNCHANGED walk /\ UNCHANGED call /\ UNCHANGED history
    BY EditShape DEF TypeOK
<1>2. AskOK' /\ Course' = Course /\ runtime' = runtime
    BY <1>1, SameAsk DEF TypeOK
<1>3. UNCHANGED <<phase, cursor, got, flagged, chosen>>
    BY <1>1 DEF walk
<1>4. CallOK'
    BY <1>1, <1>2, <1>3 DEF TypeOK, CallOK, call
<1> QED BY <1>1, <1>2, <1>3, <1>4 DEF TypeOK, history

-----------------------------------------------------------------------------
(***************************************************************************)
(* Type correctness.                                                       *)
(***************************************************************************)
LEMMA InitTypes ==
    ASSUME Init
    PROVE  TypeOK /\ NewInv
<1>0. Present \in Nat /\ 1..Present \subseteq Ids
    BY Constants
<1>1. /\ runtime \in Surfaces /\ rows = [n \in 1..Present |-> n] /\ gone = {} /\ edits = 0
      /\ phase = "new" /\ cursor = 0 /\ got = << >> /\ flagged = FALSE /\ chosen = None
      /\ step = 1 /\ read = << >> /\ next = End /\ cut = FALSE /\ local = NoLocal
      /\ trust = "honest" /\ shuffled = FALSE /\ taken = 0
    BY DEF Init
<1>2. PICK f \in [1..Present -> Keys] :
         key = [i \in Ids |-> IF i \in 1..Present THEN f[i] ELSE Min(Keys)]
    BY DEF Init
<1>3. key \in [Ids -> Keys]
    BY <1>2, KeyBounds
<1>4. rows \in Seq(Ids) /\ Len(rows) = Present /\ DOMAIN rows = 1..Present
    <2>1. rows \in [1..Present -> Ids]
        BY <1>0, <1>1
    <2> QED BY <1>0, <2>1
<1>5. \A n \in 1..Present : rows[n] = n
    BY <1>1
<1>6. There = 1..Present /\ Kept = 1..Present
    BY <1>1, <1>4, <1>5 DEF There, Kept
<1>7. WorldOK
    BY <1>1, <1>3, <1>4, <1>5, <1>6 DEF WorldOK
<1>8. CallOK
    <2>1. << >> \in Seq(RowRecord) /\ NoLocal.ids \subseteq Ids
        BY DEF NoLocal
    <2> QED BY <1>1, <2>1 DEF CallOK
<1>9. got \in Seq(Ids)
    BY <1>1
<1>10. TypeOK
    BY <1>1, <1>7, <1>8, <1>9 DEF TypeOK
<1> QED BY <1>1, <1>10 DEF NewInv

\* The steps of a call.
LEMMA CallStepTypes ==
    ASSUME TypeOK, CallStep
    PROVE  TypeOK' /\ phase = "walking" /\ phase' \in {"walking", "done", "refused"}
<1>1. CASE Skip
    <2>1. Busy /\ Advance /\ UNCHANGED <<asked, world, walk, read, next, cut, local, history>>
        BY <1>1 DEF Skip
    <2> QED BY <2>1, QuietTypes DEF Busy, walk
<1>2. CASE Fail
    BY <1>2, RefuseKeepsTypes DEF Fail, Busy
<1>3. CASE Aid
    <2>1. Busy /\ Advance /\ UNCHANGED <<asked, world, walk, read, next, cut, local, history>>
        BY <1>3 DEF Aid
    <2> QED BY <2>1, QuietTypes DEF Busy, walk
<1>4. CASE ReadWhole
    BY <1>4, ReadWholeTypes DEF ReadWhole, At, Busy, walk
<1>5. CASE ReadLocal
    BY <1>5, ReadLocalTypes DEF ReadLocal, At, Busy, walk
<1>6. CASE LocalConflicts
    BY <1>6, RefuseKeepsTypes DEF LocalConflicts, At, Busy
<1>7. CASE ReadNames
    BY <1>7, ReadNamesTypes DEF ReadNames, At, Busy, walk
<1>8. CASE Select
    <2>1. TypeOK'
        BY <1>8, SelectTypes
    <2>2. phase = "walking" /\ (phase' = "refused" \/ phase' = phase)
        BY <1>8 DEF Select, At, Busy, Refuse
    <2> QED BY <2>1, <2>2
<1>9. CASE ReadPage
    <2>1. CASE Refuse /\ Busy
        BY <2>1, RefuseKeepsTypes DEF Busy
    <2>2. ASSUME NEW how \in {"page", "vouchers", "catalog"}, NEW limit, NEW reply,
                 PageRead(how, limit, reply)
          PROVE  TypeOK' /\ phase = "walking" /\ phase' = phase
        BY <2>2, PageReadTypes DEF PageRead, At, Busy, walk
    <2> QED BY <1>9, <2>1, <2>2, ReadPageShape
<1>10. CASE ScanPage
    <2>1. ASSUME NEW how \in {"scan", "section"}, NEW start, NEW reply, ScanRead(how, start, reply)
          PROVE  TypeOK' /\ phase = "walking" /\ phase' = phase
        BY <2>1, ScanReadTypes DEF ScanRead, At, Busy, walk
    <2> QED BY <1>10, <2>1, ScanPageShape
<1>11. CASE ReadLog
    <2>1. CASE Refuse /\ Busy
        BY <2>1, RefuseKeepsTypes DEF Busy
    <2>2. ASSUME NEW how \in {"log", "logWindow"}, NEW number, NEW size, NEW served, NEW reply,
                 LogRead(how, number, size, served, reply)
          PROVE  TypeOK' /\ phase = "walking" /\ phase' = phase
        BY <2>2, LogReadTypes DEF LogRead, At, Busy, walk
    <2> QED BY <1>11, <2>1, <2>2, ReadLogShape
<1>12. CASE ReadEvents
    <2>1. CASE Refuse /\ Busy
        BY <2>1, RefuseKeepsTypes DEF Busy
    <2>2. ASSUME NEW page, EventsPage(page)
          PROVE  TypeOK' /\ phase = "walking" /\ phase' = phase
        BY <2>2, EventsPageTypes DEF EventsPage, At, Busy, walk
    <2> QED BY <1>12, <2>1, <2>2, ReadEventsShape
<1>13. CASE Message
    BY <1>13, MessageTypes DEF Message, At, Busy, walk
<1>14. CASE StreamEnds
    <2>1. Busy /\ Advance /\ UNCHANGED <<asked, world, walk, read, next, cut, local, history>>
        BY <1>14 DEF StreamEnds, At
    <2> QED BY <2>1, QuietTypes DEF Busy, walk
<1>15. CASE StreamFails
    BY <1>15, StreamFailsTypes DEF StreamFails, At, Busy, walk
<1>16. CASE Answer
    <2>1. TypeOK' /\ phase = "walking"
        BY <1>16, AnswerKeepsTypes DEF Answer
    <2>2. phase' \in {"walking", "done", "refused"}
        BY <1>16 DEF Answer, Refuse
    <2> QED BY <2>1, <2>2
<1> QED BY <1>1, <1>2, <1>3, <1>4, <1>5, <1>6, <1>7, <1>8, <1>9, <1>10, <1>11, <1>12, <1>13,
           <1>14, <1>15, <1>16 DEF CallStep

LEMMA StutterTypes ==
    ASSUME TypeOK, NewInv, UNCHANGED vars
    PROVE  TypeOK' /\ NewInv'
<1>1. UNCHANGED <<asked, world, walk, call, history>>
    BY DEF vars
<1>2. UNCHANGED world /\ UNCHANGED asked
    BY <1>1
<1>3. /\ UNCHANGED <<phase, cursor, got, flagged, chosen, step, read, next, cut, local>>
      /\ UNCHANGED <<trust, shuffled, taken, edits, runtime, ask>>
    BY <1>1 DEF walk, call, history, world, asked
<1>4. WorldOK' /\ (AskOK' <=> AskOK) /\ Course' = Course
    BY <1>2, SameWorld, SameAsk DEF TypeOK
<1>5. CallOK'
    BY <1>3, <1>4 DEF TypeOK, CallOK
<1>6. TypeOK'
    BY <1>3, <1>4, <1>5 DEF TypeOK
<1>7. NewInv'
    BY <1>3 DEF NewInv
<1> QED BY <1>6, <1>7

LEMMA NextTypes ==
    ASSUME TypeOK, NewInv, [Next]_vars
    PROVE  TypeOK' /\ NewInv'
<1>1. CASE Begin
    <2>1. PICK tool \in Tools : CallUnknown(tool) \/ Call(tool)
        BY <1>1 DEF Begin
    <2>2. TypeOK' /\ phase' # "new"
        BY <2>1, CallTypes, CallUnknownTypes
    <2> QED BY <2>2 DEF NewInv
<1>2. CASE CallStep
    <2>1. TypeOK' /\ phase' # "new"
        BY <1>2, CallStepTypes
    <2> QED BY <2>1 DEF NewInv
<1>3. CASE Edit
    <2>1. TypeOK' /\ phase' # "new"
        BY <1>3, EditTypes
    <2> QED BY <2>1 DEF NewInv
<1>4. CASE UNCHANGED vars
    BY <1>4, StutterTypes
<1> QED BY <1>1, <1>2, <1>3, <1>4 DEF Next

\* Types of the walk, the call and the collection; in particular no edit
\* puts a row twice into the collection or brings one back.
THEOREM ReadTypesHold == Spec => [](TypeOK /\ NewInv)
<1>1. Init => TypeOK /\ NewInv
    BY InitTypes
<1>2. (TypeOK /\ NewInv) /\ [Next]_vars => (TypeOK /\ NewInv)'
    BY NextTypes
<1> QED BY <1>1, <1>2, PTL DEF Spec

-----------------------------------------------------------------------------
(***************************************************************************)
(* The sum of sizes.                                                       *)
(***************************************************************************)
Summed(s, sum) ==
    /\ sum[0] = 0
    /\ \A n \in 1..Len(s) : sum[n] = sum[n - 1] + s[n].key
    /\ Bytes(s) = sum[Len(s)]

SumStep(before, message) == before + message.key

\* The function Bytes defines by recursion exists.
LEMMA SumExists ==
    ASSUME NEW s \in Seq(RowRecord)
    PROVE  \E sum : Summed(s, sum)
<1> DEFINE V(g, i) == IF i = 0 THEN 0 ELSE SumStep(g[i - 1], s[i])
           T == {n \in Nat : \E g : g = [i \in 0..n |-> V(g, i)]}
<1>1. 0 \in T
    <2>1. [i \in 0..0 |-> 0] = [i \in 0..0 |-> V([j \in 0..0 |-> 0], i)]
        <3>1. \A i \in 0..0 : i = 0
            OBVIOUS
        <3> QED BY <3>1
    <2> QED BY <2>1
<1>2. ASSUME NEW n \in Nat, n \in T PROVE n + 1 \in T
    <2>1. PICK g : g = [i \in 0..n |-> V(g, i)]
        BY <1>2
    <2> DEFINE h == [i \in 0..(n + 1) |-> IF i = n + 1 THEN SumStep(g[n], s[n + 1]) ELSE g[i]]
    <2>2. \A i \in 0..n : h[i] = g[i] /\ g[i] = V(g, i)
        <3>1. \A i \in 0..n : i \in 0..(n + 1) /\ i # n + 1
            OBVIOUS
        <3>2. \A i \in 0..n : h[i] = g[i]
            BY <3>1
        <3> HIDE DEF h, V
        <3>3. \A i \in 0..n : g[i] = V(g, i)
            BY <2>1
        <3> QED BY <3>2, <3>3
    <2>3. h[n + 1] = SumStep(h[n], s[n + 1])
        <3>1. h[n + 1] = SumStep(g[n], s[n + 1])
            OBVIOUS
        <3> HIDE DEF h
        <3>2. h[n] = g[n]
            BY <2>2
        <3> QED BY <3>1, <3>2
    <2>4. ASSUME NEW i \in 0..(n + 1) PROVE h[i] = V(h, i)
        <3> HIDE DEF h
        <3>1. CASE i = n + 1
            <4>1. i # 0 /\ i - 1 = n
                BY <3>1
            <4>2. V(h, i) = SumStep(h[i - 1], s[i])
                BY <4>1
            <4>3. h[i] = SumStep(h[n], s[i])
                BY <2>3, <3>1
            <4> QED BY <4>1, <4>2, <4>3
        <3>2. CASE i = 0
            BY <2>2, <3>2
        <3>3. CASE i \in 1..n
            <4>1. i \in 0..n /\ i - 1 \in 0..n
                BY <3>3
            <4>2. h[i] = V(g, i) /\ h[i - 1] = g[i - 1]
                BY <2>2, <4>1
            <4> QED BY <4>2
        <3> QED BY <3>1, <3>2, <3>3
    <2>5. h = [i \in 0..(n + 1) |-> V(h, i)]
        <3>1. h = [i \in 0..(n + 1) |-> h[i]]
            OBVIOUS
        <3> HIDE DEF h, V
        <3>2. [i \in 0..(n + 1) |-> h[i]] = [i \in 0..(n + 1) |-> V(h, i)]
            BY <2>4
        <3> QED BY <3>1, <3>2
    <2>6. \E f : f = [i \in 0..(n + 1) |-> V(f, i)]
        <3> HIDE DEF h, V
        <3> QED BY <2>5
    <2>7. n + 1 \in Nat
        OBVIOUS
    <2> HIDE DEF h, V
    <2> QED BY <2>6, <2>7, Zenon
<1>3. \A n \in Nat : n \in T
    <2> HIDE DEF T
    <2> QED BY <1>1, <1>2, NaturalInduction
<1> DEFINE sum == CHOOSE g : g = [i \in 0..Len(s) |-> V(g, i)]
<1>4. sum = [i \in 0..Len(s) |-> V(sum, i)]
    <2>1. Len(s) \in Nat
        OBVIOUS
    <2>2. \E g : g = [i \in 0..Len(s) |-> V(g, i)]
        BY <1>3, <2>1
    <2> HIDE DEF V
    <2> QED BY <2>2, Zenon
<1>5. Bytes(s) = sum[Len(s)]
    BY DEF Bytes, SumStep
<1> HIDE DEF sum
<1>6. ASSUME NEW i \in 0..Len(s) PROVE sum[i] = V(sum, i)
    <2> HIDE DEF V
    <2> QED BY <1>4
<1>7. sum[0] = 0
    BY <1>6
<1>8. \A i \in 1..Len(s) : sum[i] = sum[i - 1] + s[i].key
    BY <1>6 DEF SumStep
<1>9. Summed(s, sum)
    BY <1>5, <1>7, <1>8 DEF Summed
<1> QED BY <1>9

LEMMA BytesOfNone == Bytes(<< >>) = 0
<1>1. << >> \in Seq(RowRecord) /\ Len(<< >>) = 0
    OBVIOUS
<1>2. PICK sum : Summed(<< >>, sum)
    BY <1>1, SumExists
<1> QED BY <1>1, <1>2 DEF Summed

\* One more message adds its size.
LEMMA BytesAppend ==
    ASSUME NEW s \in Seq(RowRecord), NEW x \in RowRecord
    PROVE  Bytes(s) \in Nat /\ x.key \in Nat /\ Bytes(Append(s, x)) = Bytes(s) + x.key
<1> DEFINE t == Append(s, x)
<1>0. \A r \in RowRecord : r.key \in Nat
    BY Constants DEF RowRecord
<1>1. /\ t \in Seq(RowRecord) /\ Len(t) = Len(s) + 1 /\ t[Len(s) + 1] = x /\ Len(s) \in Nat
      /\ \A n \in 1..Len(s) : t[n] = s[n] /\ s[n] \in RowRecord
    OBVIOUS
<1> HIDE DEF t
<1>2. PICK f : Summed(s, f)
    BY SumExists
<1>3. PICK g : Summed(t, g)
    BY <1>1, SumExists
<1>4. f[0] = 0 /\ g[0] = 0 /\ Bytes(s) = f[Len(s)] /\ Bytes(t) = g[Len(s) + 1]
    BY <1>1, <1>2, <1>3 DEF Summed
<1>5. \A n \in 1..Len(s) : f[n] = f[n - 1] + s[n].key
    BY <1>2 DEF Summed
<1>6. \A n \in 1..(Len(s) + 1) : g[n] = g[n - 1] + t[n].key
    BY <1>1, <1>3 DEF Summed
<1> DEFINE T == {n \in Nat : n <= Len(s) => f[n] = g[n] /\ f[n] \in Nat}
<1>7. 0 \in T
    BY <1>4
<1>8. ASSUME NEW n \in Nat, n \in T PROVE n + 1 \in T
    <2> SUFFICES ASSUME n + 1 <= Len(s) PROVE f[n + 1] = g[n + 1] /\ f[n + 1] \in Nat
        OBVIOUS
    <2>1. n <= Len(s) /\ n + 1 \in 1..Len(s) /\ n + 1 \in 1..(Len(s) + 1) /\ (n + 1) - 1 = n
        BY <1>1
    <2>2. f[n] = g[n] /\ f[n] \in Nat
        BY <1>8, <2>1
    <2>3. f[n + 1] = f[n] + s[n + 1].key /\ g[n + 1] = g[n] + t[n + 1].key
        BY <1>5, <1>6, <2>1
    <2>4. t[n + 1] = s[n + 1] /\ s[n + 1].key \in Nat
        BY <1>0, <1>1, <2>1
    <2> QED BY <2>2, <2>3, <2>4
<1>9. \A n \in Nat : n \in T
    <2> HIDE DEF T
    <2> QED BY <1>7, <1>8, NaturalInduction
<1>10. f[Len(s)] = g[Len(s)] /\ f[Len(s)] \in Nat
    BY <1>1, <1>9
<1>11. g[Len(s) + 1] = g[Len(s)] + x.key
    <2>1. Len(s) + 1 \in 1..(Len(s) + 1) /\ (Len(s) + 1) - 1 = Len(s)
        BY <1>1
    <2> QED BY <1>1, <1>6, <2>1
<1> QED BY <1>0, <1>4, <1>10, <1>11 DEF t

-----------------------------------------------------------------------------
(***************************************************************************)
(* Where a call is in its course, and what its next step can be.           *)
(***************************************************************************)
LEMMA SameUses ==
    ASSUME ask' = ask
    PROVE  \A role : Uses(ask.tool, role)' <=> Uses(ask.tool, role)
BY DEF Uses

LEMMA UsesIsTruth ==
    ASSUME NEW tool, NEW role
    PROVE  Uses(tool, role) \in BOOLEAN
BY DEF Uses

\* What CourseAssumption says of one step.
LEMMA CourseStep ==
    ASSUME AskOK, NEW n \in DOMAIN Course, Course[n].role \in RowRoles
    PROVE  /\ Course[n].role \in Sources(ask.tool.finish)
           /\ \A m \in DOMAIN Course : Course[m].role \in RowRoles => m = n
<1>1. CourseFits(ask.tool)
    BY ToolShape
<1>2. StepFits(ask.tool, n)
    BY <1>1 DEF CourseFits, Course
<1> QED BY <1>2 DEF StepFits, Course

\* A tool reads its collection in one way, which fits its answer.
LEMMA OneSource ==
    ASSUME AskOK, NEW a \in RowRoles, NEW b \in RowRoles, Uses(ask.tool, a), Uses(ask.tool, b)
    PROVE  a = b /\ a \in Sources(ask.tool.finish)
<1>1. PICK m \in DOMAIN Course : Course[m].role = a
    BY DEF Uses, Course
<1>2. PICK n \in DOMAIN Course : Course[n].role = b
    BY DEF Uses, Course
<1> QED BY <1>1, <1>2, CourseStep

LEMMA CurIsUsed ==
    ASSUME TypeOK, Busy
    PROVE  Uses(ask.tool, Cur.role)
<1>1. step \in DOMAIN Course
    BY InCourse
<1> QED BY <1>1 DEF Uses, Cur, Course

\* Beside its rows, a tool that does not fetch them whole only has further
\* sources, and a choice among the rows of a scan.
LEMMA BesideRows ==
    ASSUME TypeOK, Busy, NEW role \in RowRoles \ {"whole"}, Uses(ask.tool, role)
    PROVE  /\ Cur.role \in {"must", "may", "pick", role}
           /\ Cur.role = "pick" => role = "scan"
<1>1. AskOK /\ step \in DOMAIN Course /\ Cur \in StepRecord /\ StepFits(ask.tool, step) /\ step \in Nat
    BY InCourse
<1>2. Cur.role \in RowRoles \cup {"must", "may", "local", "names", "pick"}
    BY <1>1 DEF StepRecord
<1>3. Cur.role \in RowRoles => Cur.role = role
    BY <1>1, CurIsUsed, OneSource
<1>4. ~Behind(ask.tool, step, "whole")
    <2> SUFFICES ASSUME Behind(ask.tool, step, "whole") PROVE FALSE
        OBVIOUS
    <2>1. PICK m \in 1..(step - 1) : Course[m].role = "whole"
        BY DEF Behind, Course
    <2>2. m \in DOMAIN Course
        BY <1>1, <2>1, ToolShape
    <2>3. Uses(ask.tool, "whole")
        BY <2>1, <2>2 DEF Uses, Course
    <2> QED BY <1>1, <2>3, OneSource DEF RowRoles
<1>5. Cur.role \notin {"local", "names"}
    BY <1>1, <1>4 DEF StepFits, Cur, Course
<1>6. Cur.role = "pick" => ask.tool.finish = "record"
    BY <1>1 DEF StepFits, Cur, Course
<1>7. role \in Sources(ask.tool.finish)
    BY <1>1, OneSource
<1>8. Cur.role = "pick" => role = "scan"
    BY <1>6, <1>7 DEF Sources
<1> QED BY <1>2, <1>3, <1>5, <1>8

LEMMA PassedSame ==
    ASSUME ask' = ask, step' = step
    PROVE  \A role : Passed(role)' <=> Passed(role)
BY DEF Passed, Course

LEMMA PassedAdvance ==
    ASSUME TypeOK, Busy, ask' = ask, step' = step + 1
    PROVE  \A role : Passed(role)' <=> Passed(role) \/ Cur.role = role
<1>1. step \in Nat /\ step # 0
    BY InCourse
<1>2. Course' = Course
    BY DEF Course
<1>3. 1..(step' - 1) = 1..(step - 1) \cup {step}
    BY <1>1
<1> QED BY <1>2, <1>3 DEF Passed, Cur

LEMMA PassedFirst ==
    ASSUME step' = 1
    PROVE  \A role : ~Passed(role)'
<1>1. 1..(step' - 1) = {}
    OBVIOUS
<1> QED BY <1>1 DEF Passed

LEMMA PassedLast ==
    ASSUME AskOK, step = Len(Course) + 1, NEW role, Uses(ask.tool, role)
    PROVE  Passed(role)
<1>1. 1..(step - 1) = DOMAIN Course
    BY ToolShape
<1> QED BY <1>1 DEF Passed, Uses, Course

LEMMA NotPassedAt ==
    ASSUME TypeOK, Busy, Cur.role \in RowRoles
    PROVE  ~Passed(Cur.role)
<1>1. AskOK /\ step \in DOMAIN Course /\ step \in Nat
    BY InCourse
<1> SUFFICES ASSUME Passed(Cur.role) PROVE FALSE
    OBVIOUS
<1>2. PICK m \in 1..(step - 1) : Course[m].role = Cur.role
    BY DEF Passed
<1>3. m \in DOMAIN Course /\ m # step
    BY <1>1, <1>2, ToolShape
<1> QED BY <1>1, <1>2, <1>3, CourseStep DEF Cur

-----------------------------------------------------------------------------
(***************************************************************************)
(* The steps of a call, one by one.                                        *)
(***************************************************************************)

\* A step that leaves everything but the position as it is.
Quiet ==
    /\ Busy /\ Cur.role \in {"must", "may", "names"} /\ step' = step + 1
    /\ UNCHANGED <<asked, world, walk, read, next, cut, local, history>>

Chooses ==
    /\ At("pick") /\ chosen' \in Picked(Cur.rule) /\ step' = step + 1
    /\ UNCHANGED <<asked, world, phase, cursor, got, flagged, read, next, cut, local, history>>

Answered ==
    /\ phase = "walking" /\ step = Len(Course) + 1 /\ FilterAnswerable(ask.filter)
    /\ got' = got \o IdSeq(Answers.rows) /\ flagged' = (flagged \/ Answers.gap)
    /\ cursor' = Answers.next /\ phase' = IF Answers.next = End THEN "done" ELSE "walking"
    /\ step' = 1 /\ read' = << >> /\ next' = End /\ cut' = FALSE /\ local' = NoLocal
    /\ UNCHANGED <<asked, world, chosen, history>>

PageStep == \E how \in {"page", "vouchers", "catalog"} : \E limit, reply : PageRead(how, limit, reply)
ScanStep == \E how \in {"scan", "section"} : \E start, reply : ScanRead(how, start, reply)
LogStep ==
    \E how \in {"log", "logWindow"} : \E number, size, served, reply :
        LogRead(how, number, size, served, reply)
EventsStep == \E page : EventsPage(page)

LEMMA StepCases ==
    ASSUME TypeOK, CallStep
    PROVE  \/ phase' = "refused" /\ UNCHANGED asked
           \/ Quiet \/ ReadWhole \/ ReadLocal \/ ReadNames \/ Chooses
           \/ PageStep \/ ScanStep \/ LogStep \/ EventsStep
           \/ Message \/ StreamEnds \/ StreamFails \/ Answered
<1>1. Refuse => phase' = "refused" /\ UNCHANGED asked
    BY DEF Refuse
<1>2. CASE Skip
    <2>1. Busy /\ Skippable /\ step' = step + 1
          /\ UNCHANGED <<asked, world, walk, read, next, cut, local, history>>
        BY <1>2 DEF Skip, Advance
    <2>2. Cur.role \notin {"must", "may"} => Cur.when = "always"
        BY <2>1, InCourse DEF StepFits, Cur, Course
    <2>3. Cur.when = "always" => Cur.role = "names"
        BY <2>1 DEF Skippable
    <2>4. Quiet
        BY <2>1, <2>2, <2>3 DEF Quiet
    <2> QED BY <2>4
<1>3. CASE Aid
    BY <1>3 DEF Aid, Advance, Quiet
<1>4. CASE Select
    BY <1>1, <1>4 DEF Select, Chooses, Advance
<1>5. CASE Answer
    <2>1. CASE ~FilterAnswerable(ask.filter)
        BY <1>1, <1>5, <2>1 DEF Answer
    <2>2. CASE FilterAnswerable(ask.filter)
        <3>1. phase = "walking"
            BY <1>5 DEF Answer
        <3>2. Answered
            BY <1>5, <2>2, <3>1, AnswerShape DEF Answered
        <3> QED BY <3>2
    <2> QED BY <2>1, <2>2
<1>6. CASE ReadPage
    BY <1>1, <1>6, ReadPageShape DEF PageStep
<1>7. CASE ScanPage
    BY <1>7, ScanPageShape DEF ScanStep
<1>8. CASE ReadLog
    BY <1>1, <1>8, ReadLogShape DEF LogStep
<1>9. CASE ReadEvents
    BY <1>1, <1>9, ReadEventsShape DEF EventsStep
<1>10. CASE Fail \/ LocalConflicts
    BY <1>1, <1>10 DEF Fail, LocalConflicts
<1> QED BY <1>2, <1>3, <1>4, <1>5, <1>6, <1>7, <1>8, <1>9, <1>10 DEF CallStep

\* A tool that reads its rows in one of these ways takes no other of these
\* steps.
LEMMA StepCasesBeside ==
    ASSUME TypeOK, CallStep, NEW role \in RowRoles \ {"whole"}, Uses(ask.tool, role)
    PROVE  \/ phase' = "refused" /\ UNCHANGED asked
           \/ Quiet \/ Answered
           \/ role = "scan" /\ Chooses
           \/ Busy /\ Cur.role = role
<1>1. phase = "walking"
    BY CallStepTypes
<1>2. Quiet \/ Chooses \/ PageStep \/ ScanStep \/ LogStep \/ EventsStep \/ Message \/ ReadWhole
      \/ ReadLocal \/ ReadNames \/ StreamEnds \/ StreamFails => Busy
    BY DEF Quiet, Chooses, PageStep, ScanStep, LogStep, EventsStep, Message, ReadWhole, ReadLocal,
           ReadNames, StreamEnds, StreamFails, PageRead, ScanRead, LogRead, EventsPage, At
<1>3. CASE Busy
    <2>1. /\ Cur.role \in {"must", "may", "pick", role}
          /\ Cur.role = "pick" => role = "scan"
        BY <1>3, BesideRows
    <2>2. PageStep \/ ScanStep \/ LogStep \/ EventsStep => Cur.role = role
        BY <2>1 DEF PageStep, ScanStep, LogStep, EventsStep, PageRead, ScanRead, LogRead, EventsPage, At
    <2>3. Message \/ ReadWhole \/ StreamEnds \/ StreamFails => Cur.role = role
        BY <2>1 DEF Message, ReadWhole, StreamEnds, StreamFails, At
    <2>4. ReadLocal \/ ReadNames => Cur.role = role
        BY <2>1 DEF ReadLocal, ReadNames, At
    <2>5. Chooses => role = "scan"
        BY <2>1 DEF Chooses, At
    <2> QED BY <1>3, <2>2, <2>3, <2>4, <2>5, StepCases
<1>4. CASE ~Busy
    BY <1>2, <1>4, StepCases
<1> QED BY <1>3, <1>4

-----------------------------------------------------------------------------
(***************************************************************************)
(* protect.updates returns a prefix of what was sent, within both limits.  *)
(***************************************************************************)

\* StreamInv of a walk that goes on, of a call that is before or behind its
\* stream, and of one that has ended.
StreamGoesOn ==
    /\ got = << >> /\ ~flagged /\ next = End
    /\ Len(read) <= taken /\ taken <= Len(rows) /\ Prefix(0)
    /\ Len(read) <= MaxMessages /\ Bytes(read) <= MaxBytes
    /\ Len(read) # taken => cut
StreamNotYet ==
    /\ ~cut /\ Len(read) = taken
    /\ Len(read) < MaxMessages /\ Bytes(read) < MaxBytes
StreamOver ==
    /\ Len(got) <= MaxMessages /\ got = SubSeq(rows, 1, Len(got))
    /\ Bytes(Reading(got)) <= MaxBytes
    /\ Len(got) # taken => flagged

LEMMA StreamInvIs ==
    StreamInv <=>
        (Uses(ask.tool, "socket") =>
            /\ phase = "walking" => StreamGoesOn /\ (~Passed("socket") => StreamNotYet)
            /\ Finished => StreamOver)
BY DEF StreamInv, StreamGoesOn, StreamNotYet, StreamOver

\* r shows the rows of the collection c behind from, with their keys.
Spells(r, c, k, from) ==
    /\ from + Len(r) <= Len(c)
    /\ \A n \in 1..Len(r) : r[n].id = c[from + n] /\ r[n].key = k[c[from + n]]
ReadingBy(s, k) == [n \in DOMAIN s |-> [id |-> s[n], key |-> k[s[n]]]]

LEMMA Spelled ==
    ASSUME NEW c \in Seq(Ids), NEW k \in [Ids -> Keys], NEW r \in Seq(RowRecord), NEW from \in Nat,
           from + Len(r) <= Len(c)
    PROVE  r = ReadingBy(SubSeq(c, from + 1, from + Len(r)), k) <=> Spells(r, c, k, from)
<1>1. Len(r) \in Nat /\ Len(c) \in Nat /\ DOMAIN r = 1..Len(r)
    OBVIOUS
<1> DEFINE s == SubSeq(c, from + 1, from + Len(r))
<1>2. DOMAIN s = 1..Len(r) /\ \A n \in 1..Len(r) : s[n] = c[from + n]
    <2>1. (from + Len(r)) - (from + 1) + 1 = Len(r)
        BY <1>1
    <2>2. \A i \in 1..Len(r) : (i + (from + 1)) - 1 = from + i
        BY <1>1
    <2>3. s = [i \in 1..Len(r) |-> c[(i + (from + 1)) - 1]]
        BY <1>1, <2>1
    <2> HIDE DEF s
    <2> QED BY <2>2, <2>3
<1> HIDE DEF s
<1>3. ASSUME r = ReadingBy(s, k) PROVE Spells(r, c, k, from)
    <2>1. \A n \in 1..Len(r) : r[n] = [id |-> s[n], key |-> k[s[n]]]
        BY <1>2, <1>3 DEF ReadingBy
    <2>2. ASSUME NEW n \in 1..Len(r) PROVE r[n].id = s[n] /\ r[n].key = k[s[n]]
        <3>1. r[n] = [id |-> s[n], key |-> k[s[n]]]
            BY <2>1
        <3> QED BY <3>1
    <2>3. \A n \in 1..Len(r) : r[n].id = c[from + n] /\ r[n].key = k[c[from + n]]
        BY <1>2, <2>2
    <2> QED BY <2>3 DEF Spells
<1>4. ASSUME Spells(r, c, k, from) PROVE r = ReadingBy(s, k)
    <2>1. ASSUME NEW n \in 1..Len(r) PROVE r[n] = [id |-> s[n], key |-> k[s[n]]]
        <3>0. r[n] \in RowRecord
            OBVIOUS
        <3>1. r[n] \in [id : Ids, key : Keys]
            BY <3>0 DEF RowRecord
        <3>2. r[n].id = s[n] /\ r[n].key = k[s[n]]
            BY <1>2, <1>4, <2>1 DEF Spells
        <3> QED BY <3>1, <3>2
    <2>2. r = [n \in 1..Len(r) |-> r[n]]
        BY <1>1
    <2> QED BY <1>2, <2>1, <2>2 DEF ReadingBy
<1> QED BY <1>3, <1>4 DEF s

LEMMA PrefixSpells ==
    ASSUME WorldOK, read \in Seq(RowRecord), NEW from \in Nat
    PROVE  Prefix(from) <=> Spells(read, rows, key, from)
<1>1. rows \in Seq(Ids) /\ key \in [Ids -> Keys]
    BY DEF WorldOK
<1>2. Prefix(from) <=> /\ from + Len(read) <= Len(rows)
                       /\ read = ReadingBy(SubSeq(rows, from + 1, from + Len(read)), key)
    BY DEF Prefix, Reading, Row, ReadingBy
<1>3. Spells(read, rows, key, from) => from + Len(read) <= Len(rows)
    BY DEF Spells
<1> QED BY <1>1, <1>2, <1>3, Spelled

LEMMA PrefixSpellsNext ==
    ASSUME WorldOK', read' \in Seq(RowRecord), NEW from \in Nat
    PROVE  Prefix(from)' <=> Spells(read', rows', key', from)
<1>1. rows' \in Seq(Ids) /\ key' \in [Ids -> Keys]
    BY DEF WorldOK
<1>2. Prefix(from)' <=> /\ from + Len(read') <= Len(rows')
                        /\ read' = ReadingBy(SubSeq(rows', from + 1, from + Len(read')), key')
    BY DEF Prefix, Reading, Row, ReadingBy
<1>3. Spells(read', rows', key', from) => from + Len(read') <= Len(rows')
    BY DEF Spells
<1> QED BY <1>1, <1>2, <1>3, Spelled

\* More of the collection behind what was read.
LEMMA SpellsMore ==
    ASSUME NEW c \in Seq(Ids), NEW k, NEW r \in Seq(RowRecord), NEW from \in Nat,
           NEW more \in Seq(RowRecord), Spells(r, c, k, from), Spells(more, c, k, from + Len(r))
    PROVE  Spells(r \o more, c, k, from)
<1>1. /\ Len(r \o more) = Len(r) + Len(more) /\ Len(r) \in Nat /\ Len(more) \in Nat
      /\ \A i \in 1..Len(r) : (r \o more)[i] = r[i]
      /\ \A i \in 1..Len(more) : (r \o more)[Len(r) + i] = more[i]
    BY ConcatShape
<1> DEFINE t == r \o more
<1> HIDE DEF t
<1>2. ASSUME NEW n \in 1..(Len(r) + Len(more))
      PROVE  t[n].id = c[from + n] /\ t[n].key = k[c[from + n]]
    <2>1. n \in 1..Len(r) \/ n - Len(r) \in 1..Len(more)
        BY <1>1
    <2>2. CASE n \in 1..Len(r)
        BY <1>1, <2>2 DEF Spells, t
    <2>3. CASE n - Len(r) \in 1..Len(more)
        <3> DEFINE m == n - Len(r)
        <3>1. m \in 1..Len(more) /\ Len(r) + m = n /\ from + Len(r) + m = from + n
            BY <1>1, <2>3
        <3> HIDE DEF m
        <3>2. t[n] = more[m]
            BY <1>1, <3>1 DEF t
        <3>3. more[m].id = c[from + Len(r) + m] /\ more[m].key = k[c[from + Len(r) + m]]
            BY <3>1 DEF Spells
        <3> QED BY <3>1, <3>2, <3>3
    <2> QED BY <2>1, <2>2, <2>3
<1>3. from + Len(r) + Len(more) <= Len(c)
    BY DEF Spells
<1>4. from + (Len(r) + Len(more)) <= Len(c)
    <2>1. Len(c) \in Nat
        OBVIOUS
    <2> QED BY <1>1, <1>3, <2>1
<1> QED BY <1>1, <1>2, <1>4 DEF Spells, t

\* The ids of what was read are a piece of the collection.
LEMMA SpelledIds ==
    ASSUME NEW c \in Seq(Ids), NEW k, NEW r \in Seq(RowRecord), NEW from \in Nat, Spells(r, c, k, from)
    PROVE  IdSeq(r) = SubSeq(c, from + 1, from + Len(r))
<1>1. Len(r) \in Nat /\ Len(c) \in Nat /\ DOMAIN r = 1..Len(r)
    OBVIOUS
<1> DEFINE s == SubSeq(c, from + 1, from + Len(r))
<1>2. from + Len(r) <= Len(c)
    BY DEF Spells
<1>3. s = [i \in 1..Len(r) |-> c[from + i]]
    <2>1. (from + Len(r)) - (from + 1) + 1 = Len(r)
        BY <1>1
    <2>2. \A i \in 1..Len(r) : (i + (from + 1)) - 1 = from + i
        BY <1>1
    <2>3. s = [i \in 1..Len(r) |-> c[(i + (from + 1)) - 1]]
        BY <1>1, <1>2, <2>1
    <2> HIDE DEF s
    <2> QED BY <2>2, <2>3
<1> HIDE DEF s
<1>4. \A n \in 1..Len(r) : r[n].id = c[from + n]
    BY DEF Spells
<1>5. IdSeq(r) = [n \in 1..Len(r) |-> r[n].id]
    BY <1>1 DEF IdSeq
<1> QED BY <1>3, <1>4, <1>5 DEF s

LEMMA SameSpelling ==
    ASSUME WorldOK, read \in Seq(RowRecord), NEW from \in Nat, UNCHANGED world, read' = read
    PROVE  Prefix(from)' <=> Prefix(from)
<1>1. rows' = rows /\ key' = key
    BY DEF world
<1> QED BY <1>1 DEF Prefix, Reading, Row

\* Steps that leave the stream alone.
LEMMA StreamSame ==
    ASSUME WorldOK, read \in Seq(RowRecord), StreamGoesOn, UNCHANGED world, UNCHANGED <<read, next, got, flagged, taken>>,
           cut' = cut \/ cut' = TRUE
    PROVE  StreamGoesOn'
<1>1. Prefix(0)' <=> Prefix(0)
    BY SameSpelling
<1>2. rows' = rows
    BY DEF world
<1>3. Bytes(read)' = Bytes(read)
    BY DEF Bytes
<1> QED BY <1>1, <1>2, <1>3 DEF StreamGoesOn

LEMMA MessageKeepsStream ==
    ASSUME TypeOK, StreamInv, Uses(ask.tool, "socket"), Message
    PROVE  StreamInv'
<1>1. /\ Busy /\ Cur.role = "socket" /\ taken < Len(rows) /\ taken' = taken + 1
      /\ UNCHANGED asked /\ UNCHANGED world /\ UNCHANGED walk /\ next' = next
    BY DEF Message, At
<1>2. WorldOK /\ phase = "walking" /\ read \in Seq(RowRecord) /\ taken \in Nat /\ step \in Nat
    BY <1>1, InCourse DEF TypeOK, CallOK
<1>3. ~Passed("socket")
    BY <1>1, NotPassedAt DEF RowRoles
<1>4. StreamGoesOn /\ StreamNotYet
    BY <1>2, <1>3, StreamInvIs
<1>5. /\ got = << >> /\ ~flagged /\ next = End /\ ~cut /\ Len(read) = taken /\ Prefix(0)
      /\ Len(read) < MaxMessages /\ Bytes(read) < MaxBytes
    BY <1>4 DEF StreamGoesOn, StreamNotYet
<1> DEFINE x == Row(rows[taken + 1])
           full == Len(read) + 1 = MaxMessages \/ Bytes(read) + x.key = MaxBytes
<1>6. /\ read' = IF Fits(x) THEN Append(read, x) ELSE read
      /\ cut' = (~Fits(x) \/ full)
      /\ step' = IF ~Fits(x) \/ full THEN step + 1 ELSE step
    BY DEF Message
<1>7. Fits(x) <=> x.key <= MaxBytes - Bytes(read)
    BY DEF Fits
<1>8. rows' = rows /\ key' = key /\ UNCHANGED <<phase, cursor, got, flagged, chosen>> /\ ask' = ask
    BY <1>1 DEF world, walk, asked
<1>9. x \in RowRecord /\ x.id = rows[taken + 1] /\ x.key = key[rows[taken + 1]]
    <2>1. rows \in Seq(Ids) /\ key \in [Ids -> Keys] /\ taken + 1 \in 1..Len(rows)
        BY <1>1, <1>2 DEF WorldOK
    <2>2. rows[taken + 1] \in Ids
        BY <2>1
    <2> QED BY <2>1, <2>2 DEF Row, RowRecord
<1> HIDE DEF x
<1>10. /\ Bytes(read) \in Nat /\ x.key \in Nat /\ Bytes(Append(read, x)) = Bytes(read) + x.key
    BY <1>2, <1>9, BytesAppend
<1>11. MaxMessages \in Nat /\ MaxBytes \in Nat /\ Len(read) \in Nat
    BY <1>2, Constants
<1>12. CASE Fits(x)
    <2>1. read' = Append(read, x) /\ cut' = full /\ step' = IF full THEN step + 1 ELSE step
        BY <1>6, <1>12
    <2>2. Len(read') = Len(read) + 1 /\ read' \in Seq(RowRecord)
        BY <1>2, <1>9, <2>1
    <2>3. Bytes(read)' = Bytes(read) + x.key
        <3>1. Bytes(read)' = Bytes(read')
            BY DEF Bytes
        <3> QED BY <1>10, <2>1, <3>1
    <2>4. Prefix(0)'
        <3>1. WorldOK'
            BY <1>1, <1>2, SameWorld
        <3>2. Spells(read, rows, key, 0)
            BY <1>2, <1>5, PrefixSpells
        <3>3. \A n \in 1..Len(read) : read[n].id = rows[0 + n] /\ read[n].key = key[rows[0 + n]]
            BY <3>2 DEF Spells
        <3>4. \A n \in 1..(Len(read) + 1) : \/ n \in 1..Len(read) /\ read'[n] = read[n]
                                            \/ n = taken + 1 /\ read'[n] = x
            BY <1>2, <1>5, <1>9, <1>11, <2>1
        <3>5. \A n \in 1..(Len(read) + 1) : n \in Nat /\ 0 + n = n
            BY <1>11
        <3>6. \A n \in 1..(Len(read) + 1) : read'[n].id = rows[0 + n] /\ read'[n].key = key[rows[0 + n]]
            BY <1>9, <3>3, <3>4, <3>5
        <3>7. 0 + Len(read') <= Len(rows)
            BY <1>1, <1>2, <1>5, <2>2
        <3>8. Spells(read', rows', key', 0)
            BY <1>8, <2>2, <3>6, <3>7 DEF Spells
        <3> QED BY <2>2, <3>1, <3>8, PrefixSpellsNext
    <2>5. Len(read') = taken' /\ taken' <= Len(rows')
        BY <1>1, <1>2, <1>5, <1>8, <2>2
    <2>6. Len(read') <= MaxMessages /\ Bytes(read)' <= MaxBytes
        BY <1>5, <1>7, <1>10, <1>11, <1>12, <2>2, <2>3
    <2>7. StreamGoesOn'
        <3>1. Len(read') <= taken'
            BY <2>5, <2>2, <1>11
        <3> QED BY <1>1, <1>5, <1>8, <2>4, <2>5, <2>6, <3>1 DEF StreamGoesOn
    <2>8. ~full => StreamNotYet'
        <3> SUFFICES ASSUME ~full PROVE StreamNotYet'
            OBVIOUS
        <3>1. Len(read') < MaxMessages /\ Bytes(read)' < MaxBytes
            BY <1>11, <1>10, <2>2, <2>3, <2>6
        <3> QED BY <2>1, <2>5, <3>1 DEF StreamNotYet
    <2>9. full => Passed("socket")'
        <3> SUFFICES ASSUME full PROVE Passed("socket")'
            OBVIOUS
        <3> HIDE DEF full
        <3>1. step' = step + 1
            BY <2>1
        <3> QED BY <1>1, <1>8, <3>1, PassedAdvance
    <2>10. ~Finished'
        BY <1>2, <1>8 DEF Finished
    <2> HIDE DEF full
    <2>11. StreamGoesOn' /\ (~Passed("socket")' => StreamNotYet')
        BY <2>7, <2>8, <2>9
    <2> QED BY <2>10, <2>11 DEF StreamInv, StreamGoesOn, StreamNotYet
<1>13. CASE ~Fits(x)
    <2>1. read' = read /\ cut' = TRUE /\ step' = step + 1
        BY <1>6, <1>13
    <2>2. Passed("socket")'
        BY <1>1, <1>8, <2>1, PassedAdvance
    <2>3. Prefix(0)'
        BY <1>1, <1>2, <1>5, <2>1, SameSpelling
    <2>4. Bytes(read)' = Bytes(read)
        BY <2>1 DEF Bytes
    <2>5. Len(read') <= taken' /\ taken' <= Len(rows') /\ Len(read') <= MaxMessages /\ Bytes(read)' <= MaxBytes
        BY <1>1, <1>2, <1>5, <1>8, <1>10, <1>11, <2>1, <2>4
    <2>6. StreamGoesOn'
        BY <1>1, <1>5, <1>8, <2>1, <2>3, <2>5 DEF StreamGoesOn
    <2>7. ~Finished'
        BY <1>2, <1>8 DEF Finished
    <2> QED BY <2>2, <2>6, <2>7 DEF StreamInv, StreamGoesOn
<1> QED BY <1>12, <1>13

\* No step of a call asks for something else.
LEMMA CallStepAsks ==
    ASSUME TypeOK, CallStep
    PROVE  ask' = ask /\ runtime' = runtime
<1>1. UNCHANGED asked => ask' = ask /\ runtime' = runtime
    BY DEF asked
<1>2. Quiet \/ ReadWhole \/ ReadLocal \/ ReadNames \/ Chooses => UNCHANGED asked
    BY DEF Quiet, ReadWhole, ReadLocal, ReadNames, Chooses
<1>3. PageStep \/ ScanStep \/ LogStep \/ EventsStep => UNCHANGED asked
    BY DEF PageStep, ScanStep, LogStep, EventsStep, PageRead, ScanRead, LogRead, EventsPage
<1>4. Message \/ StreamEnds \/ StreamFails \/ Answered => UNCHANGED asked
    BY DEF Message, StreamEnds, StreamFails, Answered
<1> QED BY <1>1, <1>2, <1>3, <1>4, StepCases

\* The answer of protect.updates.
LEMMA AnswerKeepsStream ==
    ASSUME TypeOK, StreamInv, Uses(ask.tool, "socket"), Answered
    PROVE  StreamInv'
<1>1. /\ phase = "walking" /\ step = Len(Course) + 1
      /\ got' = got \o IdSeq(Answers.rows) /\ flagged' = (flagged \/ Answers.gap)
      /\ phase' = IF Answers.next = End THEN "done" ELSE "walking"
      /\ UNCHANGED asked /\ UNCHANGED world /\ taken' = taken
    BY DEF Answered, history
<1>2. WorldOK /\ AskOK /\ read \in Seq(RowRecord) /\ cut \in BOOLEAN
    BY <1>1 DEF TypeOK, CallOK
<1>3. ask.tool.finish = "asRead"
    <2>1. "socket" \in Sources(ask.tool.finish)
        BY <1>2, OneSource DEF RowRoles
    <2>2. ask.tool.finish \in {"record", "asRead", "section", "bounded", "window"}
        BY <1>2, ToolShape
    <2> QED BY <2>1, <2>2 DEF Sources
<1>4. Answers = [rows |-> read, next |-> next, gap |-> cut]
    BY <1>3 DEF Answers
<1>5. StreamGoesOn
    BY <1>1, StreamInvIs
<1>6. got = << >> /\ ~flagged /\ next = End /\ Prefix(0) /\ Len(read) <= MaxMessages
      /\ Bytes(read) <= MaxBytes /\ (Len(read) # taken => cut)
    BY <1>5 DEF StreamGoesOn
<1>7. rows' = rows /\ key' = key /\ ask' = ask
    BY <1>1 DEF world, asked
<1>8. phase' = "done" /\ got' = IdSeq(read) /\ flagged' = cut
    <2>1. IdSeq(read) \in Seq(Ids)
        BY <1>2, IdSeqShape
    <2>2. << >> \o IdSeq(read) = IdSeq(read)
        BY <2>1
    <2> QED BY <1>1, <1>2, <1>4, <1>6, <2>2
<1>9. /\ IdSeq(read) = SubSeq(rows, 1, Len(read)) /\ Len(IdSeq(read)) = Len(read) /\ Len(read) \in Nat
    <2>1. Spells(read, rows, key, 0) /\ rows \in Seq(Ids)
        BY <1>2, <1>6, PrefixSpells DEF WorldOK
    <2>2. IdSeq(read) = SubSeq(rows, 0 + 1, 0 + Len(read))
        BY <1>2, <2>1, SpelledIds
    <2>3. 0 + 1 = 1 /\ Len(IdSeq(read)) = Len(read) /\ Len(read) \in Nat
        BY <1>2, IdSeqShape
    <2>4. 0 + Len(read) = Len(read)
        BY <2>3
    <2> QED BY <2>2, <2>3, <2>4
<1>10. Reading(IdSeq(read)) = read
    <2>1. read = Reading(SubSeq(rows, 0 + 1, 0 + Len(read)))
        BY <1>6 DEF Prefix
    <2>2. 0 + 1 = 1 /\ 0 + Len(read) = Len(read)
        BY <1>9
    <2> QED BY <1>9, <2>1, <2>2
<1>11. Bytes(Reading(got))' = Bytes(read)
    <2>1. Reading(got)' = Reading(IdSeq(read))
        BY <1>7, <1>8 DEF Reading, Row
    <2>2. Reading(got)' = read
        BY <1>10, <2>1
    <2> HIDE DEF Reading
    <2> QED BY <2>2 DEF Bytes
<1>12. StreamOver'
    BY <1>1, <1>6, <1>7, <1>8, <1>9, <1>11 DEF StreamOver
<1> QED BY <1>8, <1>12 DEF StreamInv, StreamOver

LEMMA StreamStep ==
    ASSUME TypeOK, StreamInv, Uses(ask.tool, "socket"), phase = "walking", CallStep
    PROVE  StreamInv'
<1>0. StreamGoesOn /\ (~Passed("socket") => StreamNotYet)
    BY StreamInvIs
<1>1. CASE phase' = "refused"
    BY <1>1 DEF StreamInv, Finished
<1>2. ASSUME Busy, step' = step + 1, UNCHANGED asked, UNCHANGED world, UNCHANGED walk, UNCHANGED <<read, next, taken>>,
             cut' = cut \/ (cut' = TRUE /\ Cur.role = "socket")
      PROVE  StreamInv'
    <2>1. WorldOK /\ read \in Seq(RowRecord)
        BY DEF TypeOK, CallOK
    <2>2. UNCHANGED <<phase, cursor, got, flagged, chosen>> /\ ask' = ask
        BY <1>2 DEF walk, asked
    <2>3. StreamGoesOn'
        BY <1>0, <1>2, <2>1, <2>2, StreamSame
    <2>4. Passed("socket")' <=> Passed("socket") \/ Cur.role = "socket"
        BY <1>2, <2>2, PassedAdvance
    <2>5. ~Passed("socket")' => StreamNotYet'
        <3> SUFFICES ASSUME ~Passed("socket"), Cur.role # "socket" PROVE StreamNotYet'
            BY <2>4
        <3>1. Bytes(read)' = Bytes(read)
            BY <1>2 DEF Bytes
        <3> QED BY <1>0, <1>2, <3>1 DEF StreamNotYet
    <2>6. ~Finished'
        BY <2>2 DEF Finished
    <2> QED BY <2>3, <2>5, <2>6 DEF StreamInv, StreamGoesOn, StreamNotYet
<1>3. CASE Quiet
    BY <1>2, <1>3 DEF Quiet, history
<1>4. CASE Answered
    BY <1>4, AnswerKeepsStream
<1>5. CASE Busy /\ Cur.role = "socket"
    <2>1. CASE Message
        BY <2>1, MessageKeepsStream
    <2>2. CASE StreamEnds
        BY <1>2, <1>5, <2>2 DEF StreamEnds, Advance, history
    <2>3. CASE StreamFails
        BY <1>2, <1>5, <2>3 DEF StreamFails, Advance, history
    <2>4. ~(ReadWhole \/ ReadLocal \/ ReadNames \/ Chooses)
        BY <1>5 DEF ReadWhole, ReadLocal, ReadNames, Chooses, At
    <2>5. ~(PageStep \/ ScanStep \/ LogStep \/ EventsStep)
        BY <1>5 DEF PageStep, ScanStep, LogStep, EventsStep, PageRead, ScanRead, LogRead, EventsPage, At
    <2> QED BY <1>1, <1>3, <1>4, <2>1, <2>2, <2>3, <2>4, <2>5, StepCases
<1> QED BY <1>1, <1>3, <1>4, <1>5, StepCasesBeside DEF RowRoles

\* Somebody else's edits cannot meet a stream; and nothing but a call begins
\* one.
LEMMA StreamKept ==
    ASSUME TypeOK, NewInv, StreamInv, [Next]_vars
    PROVE  StreamInv'
<1>1. CASE UNCHANGED vars
    <2>1. UNCHANGED <<asked, world, walk, call, history>>
        BY <1>1 DEF vars
    <2>2. /\ UNCHANGED <<phase, cursor, got, flagged, chosen, step, read, next, cut, local>>
          /\ UNCHANGED <<trust, shuffled, taken, edits, runtime, ask, rows, key>>
        BY <2>1 DEF walk, call, history, world, asked
    <2>3. Uses(ask.tool, "socket")' <=> Uses(ask.tool, "socket")
        BY <2>2, SameUses
    <2>4. Passed("socket")' <=> Passed("socket")
        BY <2>2, PassedSame
    <2>5. Prefix(0)' <=> Prefix(0)
        BY <2>2 DEF Prefix, Reading, Row
    <2>6. Bytes(read)' = Bytes(read) /\ Bytes(Reading(got))' = Bytes(Reading(got))
        BY <2>2 DEF Bytes, Reading, Row
    <2> QED BY <2>2, <2>3, <2>4, <2>5, <2>6 DEF StreamInv, Finished
<1>2. CASE Begin
    <2>1. PICK tool \in Tools : CallUnknown(tool) \/ Call(tool)
        BY <1>2 DEF Begin
    <2>2. CASE CallUnknown(tool)
        <3>1. phase' = "unknown"
            BY <2>2 DEF CallUnknown
        <3> QED BY <3>1 DEF StreamInv, Finished
    <2>3. CASE Call(tool)
        <3>1. /\ phase = "new" /\ phase' = "walking" /\ UNCHANGED world /\ UNCHANGED call
              /\ UNCHANGED history /\ UNCHANGED <<got, flagged, chosen>>
            BY <2>3 DEF Call
        <3>2. /\ got' = << >> /\ ~flagged' /\ next' = End /\ read' = << >> /\ taken' = 0 /\ ~cut'
            BY <3>1 DEF NewInv, call, history
        <3>3. WorldOK' /\ rows' \in Seq(Ids)
            BY <3>1, SameWorld DEF TypeOK, WorldOK
        <3>4. Prefix(0)'
            <4>1. << >> \in Seq(RowRecord) /\ Len(<< >>) = 0 /\ Len(rows') \in Nat
                BY <3>3
            <4>2. Spells(<< >>, rows', key', 0)
                BY <4>1 DEF Spells
            <4> QED BY <3>2, <3>3, <4>1, <4>2, PrefixSpellsNext
        <3>5. Bytes(read)' = 0
            <4>1. Bytes(read)' = Bytes(read')
                BY DEF Bytes
            <4> QED BY <3>2, <4>1, BytesOfNone
        <3>6. /\ Len(read') = taken' /\ Len(read') <= taken' /\ taken' <= Len(rows')
              /\ Len(read') <= MaxMessages /\ Bytes(read)' <= MaxBytes
              /\ Len(read') < MaxMessages /\ Bytes(read)' < MaxBytes
            BY <3>2, <3>3, <3>5, Constants
        <3>7. StreamGoesOn' /\ StreamNotYet'
            BY <3>2, <3>4, <3>5, <3>6 DEF StreamGoesOn, StreamNotYet
        <3>8. ~Finished'
            BY <3>1 DEF Finished
        <3> QED BY <3>7, <3>8 DEF StreamInv, StreamGoesOn, StreamNotYet
    <2> QED BY <2>1, <2>2, <2>3
<1>3. CASE CallStep
    <2>1. phase = "walking"
        BY <1>3, CallStepTypes
    <2>2. CASE Uses(ask.tool, "socket")
        BY <1>3, <2>1, <2>2, StreamStep
    <2>3. CASE ~Uses(ask.tool, "socket")
        <3>1. ask' = ask
            BY <1>3, CallStepAsks
        <3> QED BY <2>3, <3>1, SameUses DEF StreamInv
    <2> QED BY <2>2, <2>3
<1>4. CASE Edit
    <2>1. /\ phase = "walking" /\ UNCHANGED asked
          /\ KeysMatter(ask.tool) => Uses(ask.tool, "events")
        BY <1>4, EditShape DEF TypeOK
    <2>2. AskOK
        BY <2>1 DEF TypeOK
    <2>3. ~Uses(ask.tool, "socket")
        <3> SUFFICES ASSUME Uses(ask.tool, "socket") PROVE FALSE
            OBVIOUS
        <3>1. Uses(ask.tool, "events")
            BY <2>1 DEF KeysMatter
        <3> QED BY <2>2, <3>1, OneSource DEF RowRoles
    <2>4. ask' = ask
        BY <2>1 DEF asked
    <2> QED BY <2>3, <2>4, SameUses DEF StreamInv
<1> QED BY <1>1, <1>2, <1>3, <1>4 DEF Next

\* StreamIsWhole: the messages that protect.updates returns are a prefix of
\* what the console sent, within maxMessages and maxBytes, and an answer that
\* leaves one out says so (observe_updates).
THEOREM StreamsWhole == Spec => []StreamIsWhole
<1>1. Init => StreamInv
    BY DEF Init, StreamInv, Finished
<1>2. TypeOK /\ NewInv /\ StreamInv /\ [Next]_vars => StreamInv'
    BY StreamKept
<1>3. StreamInv => StreamIsWhole
    BY DEF StreamInv, StreamIsWhole, Walked
<1> QED BY <1>1, <1>2, <1>3, ReadTypesHold, PTL DEF Spec

Joined(u, v, w) ==
    /\ Len(w) = Len(u) + Len(v) /\ Len(u) \in Nat /\ Len(v) \in Nat
    /\ DOMAIN w = 1..(Len(u) + Len(v))
    /\ \A i \in 1..Len(u) : w[i] = u[i]
    /\ \A i \in 1..Len(v) : w[Len(u) + i] = v[i]

LEMMA JoinShape ==
    ASSUME NEW S, NEW u \in Seq(S), NEW v \in Seq(S), NEW w, w = u \o v
    PROVE  w \in Seq(S) /\ Joined(u, v, w)
BY ConcatShape DEF Joined

-----------------------------------------------------------------------------
(***************************************************************************)
(* Protect events: what was returned lies above the cursor.                *)
(***************************************************************************)
Returned(i) == \E n \in DOMAIN got : got[n] = i
EventsReturned ==
    /\ \A m, n \in DOMAIN got : got[m] = got[n] => m = n
    /\ \A n \in DOMAIN got : got[n] \in Known
EventsAbove ==
    /\ \A n \in DOMAIN got : key[got[n]] > cursor
    /\ \A i \in Kept : key[i] >= Start /\ key[i] > cursor => Returned(i)
EventsSeen ==
    /\ \A m, n \in DOMAIN read : read[m].id = read[n].id => m = n
    /\ \A n \in DOMAIN read :
          /\ read[n].id \in Known /\ read[n].key = key[read[n].id] /\ read[n].key <= cursor
          /\ next # End => read[n].key > next
    /\ next # End => next <= cursor
EventsComplete ==
    \A i \in Kept : /\ key[i] >= Start /\ key[i] <= cursor
                    /\ next # End => key[i] > next
                    => i \in IdsOf(read)
EventsWalking ==
    /\ EventsAbove /\ EventsSeen
    /\ ~Passed("events") => read = << >>
    /\ Passed("events") => EventsComplete
EventsOver == \A i \in Kept : key[i] >= Start => Returned(i)

LEMMA EventInvIs ==
    EventInv <=>
        (Uses(ask.tool, "events") =>
            /\ phase \in {"walking", "done"} => EventsReturned
            /\ phase = "walking" => EventsWalking
            /\ Finished => EventsOver)
BY DEF EventInv, EventsReturned, EventsAbove, EventsSeen, EventsComplete, EventsWalking, EventsOver,
       Returned

LEMMA EventInvNext ==
    ASSUME /\ phase' \in {"walking", "done"} => EventsReturned'
           /\ phase' = "walking" => EventsWalking'
           /\ Finished' => EventsOver'
    PROVE  EventInv'
BY DEF EventInv, EventsReturned, EventsAbove, EventsSeen, EventsComplete, EventsWalking, EventsOver,
       Returned

\* The keys of rows that are or were there are numbers.
LEMMA KnownKeys ==
    ASSUME WorldOK
    PROVE  /\ \A i \in Known : i \in Ids /\ key[i] \in Nat
           /\ Kept \subseteq There /\ There \subseteq Known
<1>1. key \in [Ids -> Keys] /\ gone \subseteq Ids /\ Kept \subseteq There
    BY DEF WorldOK
<1>2. There \subseteq Ids
    BY ThereKeys
<1>3. Keys \subseteq Nat
    BY Constants
<1>4. Known \subseteq Ids
    BY <1>1, <1>2 DEF Known
<1> QED BY <1>1, <1>3, <1>4 DEF Known

\* A step that neither reads events nor answers.
LEMMA EventsQuiet ==
    ASSUME TypeOK, EventInv, Uses(ask.tool, "events"), Quiet
    PROVE  EventInv'
<1>1. /\ Busy /\ Cur.role # "events" /\ step' = step + 1 /\ phase = "walking"
      /\ UNCHANGED <<ask, rows, key, gone, phase, cursor, got, read, next>>
    BY DEF Quiet, Busy, asked, world, walk
<1>2. EventsReturned /\ EventsWalking
    BY <1>1, EventInvIs
<1>3. Passed("events")' <=> Passed("events")
    BY <1>1, PassedAdvance
<1>4. Known' = Known /\ Kept' = Kept /\ IdsOf(read)' = IdsOf(read)
    BY <1>1 DEF Known, Kept, There, IdsOf
<1>5. EventsReturned'
    BY <1>1, <1>2, <1>4 DEF EventsReturned
<1>6. EventsAbove' /\ EventsSeen' /\ (EventsComplete => EventsComplete')
    BY <1>1, <1>2, <1>4 DEF EventsWalking, EventsAbove, EventsSeen, EventsComplete, Returned
<1>7. EventsWalking'
    BY <1>1, <1>2, <1>3, <1>6 DEF EventsWalking
<1>8. ~Finished'
    BY <1>1 DEF Finished
<1> QED BY <1>1, <1>5, <1>7, <1>8, EventInvNext

LEMMA EventsPageKeeps ==
    ASSUME TypeOK, EventInv, Uses(ask.tool, "events"), NEW page, EventsPage(page)
    PROVE  EventInv'
<1>1. /\ Busy /\ Cur.role = "events" /\ step' = step + 1 /\ phase = "walking"
      /\ read' = page.events /\ next' = page.next /\ GoodPage(cursor, page.events, page.next)
      /\ UNCHANGED <<ask, rows, key, gone, phase, cursor, got>>
    BY DEF EventsPage, At, Busy, asked, world, walk
<1>2. EventsReturned /\ EventsWalking
    BY <1>1, EventInvIs
<1>3. Passed("events")'
    BY <1>1, PassedAdvance
<1>4. Known' = Known /\ Kept' = Kept
    BY <1>1 DEF Known, Kept, There
<1>5. EventsReturned'
    BY <1>1, <1>2, <1>4 DEF EventsReturned
<1>6. EventsAbove'
    BY <1>1, <1>2, <1>4 DEF EventsWalking, EventsAbove, Returned
<1>7. WorldOK /\ Kept \subseteq There /\ There \subseteq Known
    BY KnownKeys DEF TypeOK
<1>8. /\ \A m, n \in DOMAIN read' : read'[m].id = read'[n].id => m = n
      /\ \A n \in DOMAIN read' :
          /\ read'[n].id \in There /\ read'[n].key = key[read'[n].id] /\ read'[n].key <= cursor
          /\ next' # End => read'[n].key > next'
      /\ next' # End => next' <= cursor
      /\ \A i \in There : Within(cursor, Start, i) /\ (next' # End => key[i] > next') => Shows(read', i)
    BY <1>1 DEF GoodPage
<1>9. EventsSeen'
    <2>1. \A n \in DOMAIN read' : read'[n].id \in Known
        BY <1>7, <1>8
    <2> QED BY <1>1, <1>4, <1>8, <2>1 DEF EventsSeen
<1>10. EventsComplete'
    <2>1. ASSUME NEW i \in Kept, key[i] >= Start, key[i] <= cursor, next' # End => key[i] > next'
          PROVE  i \in IdsOf(read')
        <3>1. Shows(read', i)
            BY <1>7, <1>8, <2>1 DEF Within
        <3> QED BY <3>1 DEF Shows, IdsOf
    <2>2. IdsOf(read)' = IdsOf(read')
        BY DEF IdsOf
    <2> QED BY <1>1, <1>4, <2>1, <2>2 DEF EventsComplete
<1>11. EventsWalking'
    BY <1>3, <1>6, <1>9, <1>10 DEF EventsWalking
<1>12. ~Finished'
    BY <1>1 DEF Finished
<1> QED BY <1>1, <1>5, <1>11, <1>12, EventInvNext

LEMMA EventsAnswer ==
    ASSUME TypeOK, EventInv, Uses(ask.tool, "events"), Answered
    PROVE  EventInv'
<1>1. /\ phase = "walking" /\ step = Len(Course) + 1
      /\ got' = got \o IdSeq(Answers.rows) /\ cursor' = Answers.next
      /\ phase' = IF Answers.next = End THEN "done" ELSE "walking"
      /\ step' = 1 /\ read' = << >> /\ next' = End
      /\ UNCHANGED <<ask, rows, key, gone>>
    BY DEF Answered, asked, world
<1>2. /\ WorldOK /\ AskOK /\ read \in Seq(RowRecord) /\ next \in Nat \cup {End} /\ got \in Seq(Ids)
      /\ cursor \in Nat
    BY <1>1 DEF TypeOK, CallOK
<1>3. ask.tool.finish = "asRead"
    <2>1. "events" \in Sources(ask.tool.finish)
        BY <1>2, OneSource DEF RowRoles
    <2>2. ask.tool.finish \in {"record", "asRead", "section", "bounded", "window"}
        BY <1>2, ToolShape
    <2> QED BY <2>1, <2>2 DEF Sources
<1>4. Answers.rows = read /\ Answers.next = next
    BY <1>3 DEF Answers
<1>5. EventsReturned /\ EventsAbove /\ EventsSeen /\ EventsComplete
    <2>1. Passed("events")
        BY <1>1, <1>2, PassedLast
    <2> QED BY <1>1, <2>1, EventInvIs DEF EventsWalking
<1>6. /\ Len(got') = Len(got) + Len(read) /\ Len(got) \in Nat /\ Len(read) \in Nat
      /\ DOMAIN got' = 1..(Len(got) + Len(read)) /\ DOMAIN got = 1..Len(got) /\ DOMAIN read = 1..Len(read)
      /\ \A i \in 1..Len(got) : got'[i] = got[i]
      /\ \A i \in 1..Len(read) : got'[Len(got) + i] = read[i].id
    <2>1. IdSeq(read) \in Seq(Ids) /\ Len(IdSeq(read)) = Len(read)
          /\ \A n \in 1..Len(read) : IdSeq(read)[n] = read[n].id
        BY <1>2, IdSeqShape
    <2>2. got' = got \o IdSeq(read)
        BY <1>1, <1>4
    <2> DEFINE v == IdSeq(read)
    <2>3. v \in Seq(Ids) /\ Len(v) = Len(read) /\ got' = got \o v
        BY <2>1, <2>2
    <2> HIDE DEF v
    <2>4. Joined(got, v, got')
        BY <1>2, <2>3, JoinShape
    <2>5. DOMAIN got = 1..Len(got) /\ DOMAIN read = 1..Len(read)
        BY <1>2
    <2> QED BY <2>1, <2>3, <2>4, <2>5 DEF v, Joined
\* Every id comes from before, above the cursor, or from this call, not above it.
<1>7. \A n \in DOMAIN got' :
         \/ n \in DOMAIN got /\ got'[n] = got[n] /\ key[got'[n]] > cursor
         \/ /\ n - Len(got) \in DOMAIN read /\ got'[n] = read[n - Len(got)].id
            /\ key[got'[n]] <= cursor
    <2> SUFFICES ASSUME NEW n \in 1..(Len(got) + Len(read))
                 PROVE  \/ n \in DOMAIN got /\ got'[n] = got[n] /\ key[got'[n]] > cursor
                        \/ /\ n - Len(got) \in DOMAIN read /\ got'[n] = read[n - Len(got)].id
                           /\ key[got'[n]] <= cursor
        BY <1>6
    <2>1. n \in 1..Len(got) \/ (n - Len(got) \in 1..Len(read) /\ Len(got) + (n - Len(got)) = n)
        BY <1>6
    <2>2. CASE n \in 1..Len(got)
        BY <1>5, <1>6, <2>2 DEF EventsAbove
    <2>3. CASE n - Len(got) \in 1..Len(read) /\ Len(got) + (n - Len(got)) = n
        <3> DEFINE m == n - Len(got)
        <3>1. m \in DOMAIN read /\ Len(got) + m = n
            BY <1>6, <2>3
        <3>2. got'[n] = read[m].id
            BY <1>6, <3>1
        <3> HIDE DEF m
        <3>3. read[m].key = key[read[m].id] /\ read[m].key <= cursor
            BY <1>5, <3>1 DEF EventsSeen
        <3>4. key[got'[n]] <= cursor
            BY <3>2, <3>3
        <3> QED BY <3>1, <3>2, <3>4 DEF m
    <2> QED BY <2>1, <2>2, <2>3
<1>8. \A n \in DOMAIN got' : got'[n] \in Known /\ key[got'[n]] \in Nat
    BY <1>2, <1>5, <1>7, KnownKeys DEF EventsReturned, EventsSeen
<1>9. Known' = Known /\ Kept' = Kept
    BY <1>1 DEF Known, Kept, There
<1>10. EventsReturned'
    <2>1. ASSUME NEW m \in DOMAIN got', NEW n \in DOMAIN got', got'[m] = got'[n] PROVE m = n
        <3>1. m \in Nat /\ n \in Nat /\ key[got'[m]] \in Nat
            BY <1>6, <1>8
        <3>2. CASE key[got'[m]] > cursor
            <4>1. m \in DOMAIN got /\ n \in DOMAIN got /\ got[m] = got[n]
                BY <1>2, <1>7, <2>1, <3>1, <3>2
            <4> QED BY <1>5, <4>1 DEF EventsReturned
        <3>3. CASE ~(key[got'[m]] > cursor)
            <4>1. m - Len(got) \in DOMAIN read /\ n - Len(got) \in DOMAIN read
                  /\ read[m - Len(got)].id = read[n - Len(got)].id
                BY <1>2, <1>7, <2>1, <3>1, <3>3
            <4>2. m - Len(got) = n - Len(got)
                BY <1>5, <4>1 DEF EventsSeen
            <4> QED BY <1>6, <3>1, <4>2
        <3> QED BY <3>2, <3>3
    <2> QED BY <1>8, <1>9, <2>1 DEF EventsReturned
\* Whatever lies above the next cursor has been returned.
<1>11. ASSUME NEW i \in Kept, key[i] >= Start, next # End => key[i] > next
       PROVE  \E n \in DOMAIN got' : got'[n] = i
    <2>1. key[i] \in Nat
        BY <1>2, KnownKeys
    <2>2. CASE key[i] > cursor
        <3>1. PICK n \in DOMAIN got : got[n] = i
            BY <1>5, <1>11, <2>2 DEF EventsAbove, Returned
        <3>2. n \in DOMAIN got' /\ got'[n] = got[n]
            BY <1>6, <3>1
        <3> QED BY <3>1, <3>2
    <2>3. CASE ~(key[i] > cursor)
        <3>1. i \in IdsOf(read)
            BY <1>2, <1>5, <1>11, <2>1, <2>3 DEF EventsComplete
        <3>2. PICK m \in DOMAIN read : read[m].id = i
            BY <3>1 DEF IdsOf
        <3>3. Len(got) + m \in DOMAIN got' /\ got'[Len(got) + m] = i
            BY <1>6, <3>2
        <3> QED BY <3>3
    <2> QED BY <2>2, <2>3
<1>12. CASE next = End
    <2>1. phase' = "done"
        BY <1>1, <1>4, <1>12
    <2>2. EventsOver'
        BY <1>1, <1>9, <1>11, <1>12 DEF EventsOver, Returned
    <2> QED BY <1>10, <2>1, <2>2, EventInvNext
<1>13. CASE next # End
    <2>1. phase' = "walking" /\ cursor' = next /\ next \in Nat /\ next <= cursor
        BY <1>1, <1>2, <1>4, <1>5, <1>13 DEF EventsSeen
    <2>2. \A n \in DOMAIN got' : key[got'[n]] > next
        <3> SUFFICES ASSUME NEW n \in DOMAIN got' PROVE key[got'[n]] > next
            OBVIOUS
        <3>1. key[got'[n]] \in Nat
            BY <1>8
        <3>2. CASE key[got'[n]] > cursor
            BY <1>2, <2>1, <3>1, <3>2
        <3>3. CASE ~(key[got'[n]] > cursor)
            <4>1. n - Len(got) \in DOMAIN read /\ got'[n] = read[n - Len(got)].id
                BY <1>7, <3>3
            <4> QED BY <1>5, <1>13, <4>1 DEF EventsSeen
        <3> QED BY <3>2, <3>3
    <2>3. EventsAbove'
        BY <1>1, <1>9, <1>11, <2>1, <2>2 DEF EventsAbove, Returned
    <2>4. EventsSeen' /\ ~Passed("events")'
        <3>1. DOMAIN read' = {}
            BY <1>1
        <3> QED BY <1>1, <3>1, PassedFirst DEF EventsSeen
    <2>5. EventsWalking'
        BY <1>1, <2>3, <2>4 DEF EventsWalking
    <2>6. ~Finished'
        BY <2>1 DEF Finished
    <2> QED BY <1>10, <2>5, <2>6, EventInvNext
<1> QED BY <1>12, <1>13

LEMMA EventsStepKept ==
    ASSUME TypeOK, EventInv, Uses(ask.tool, "events"), CallStep
    PROVE  EventInv'
<1>1. CASE phase' = "refused"
    BY <1>1 DEF EventInv, Finished
<1>2. CASE Quiet
    BY <1>2, EventsQuiet
<1>3. CASE Answered
    BY <1>3, EventsAnswer
<1>4. CASE Busy /\ Cur.role = "events"
    <2>1. CASE EventsStep
        <3>1. PICK page : EventsPage(page)
            BY <2>1 DEF EventsStep
        <3> QED BY <3>1, EventsPageKeeps
    <2>2. ~(ReadWhole \/ ReadLocal \/ ReadNames \/ Chooses \/ Message \/ StreamEnds \/ StreamFails)
        BY <1>4 DEF ReadWhole, ReadLocal, ReadNames, Chooses, Message, StreamEnds, StreamFails, At
    <2>3. ~(PageStep \/ ScanStep \/ LogStep)
        BY <1>4 DEF PageStep, ScanStep, LogStep, PageRead, ScanRead, LogRead, At
    <2> QED BY <1>1, <1>2, <1>3, <2>1, <2>2, <2>3, StepCases
<1> QED BY <1>1, <1>2, <1>3, <1>4, StepCasesBeside DEF RowRoles

\* Somebody else's edit: what is known keeps its time, and fewer rows have
\* been there throughout.
LEMMA EventsEdited ==
    ASSUME TypeOK, EventInv, Uses(ask.tool, "events"), Edit
    PROVE  EventInv'
<1>1. WorldOK
    BY DEF TypeOK
<1>2. /\ Known \subseteq Known' /\ Kept' \subseteq Kept /\ phase = "walking"
      /\ \A j \in Known : key'[j] = key[j]
      /\ UNCHANGED asked /\ UNCHANGED walk /\ UNCHANGED call
    BY <1>1, EditShape
<1>3. UNCHANGED <<ask, phase, cursor, got, step, read, next>>
    BY <1>2 DEF asked, walk, call
<1>4. EventsReturned /\ EventsWalking
    BY <1>2, EventInvIs
<1>5. Passed("events")' <=> Passed("events")
    BY <1>3, PassedSame
<1>6. \A i \in Kept' : i \in Kept /\ key'[i] = key[i]
    BY <1>1, <1>2, KnownKeys
<1>7. EventsReturned'
    BY <1>2, <1>3, <1>4 DEF EventsReturned
<1>8. EventsAbove'
    <2>1. \A n \in DOMAIN got : got[n] \in Known /\ key'[got[n]] = key[got[n]]
        BY <1>2, <1>4 DEF EventsReturned
    <2> QED BY <1>3, <1>4, <1>6, <2>1 DEF EventsWalking, EventsAbove, Returned
<1>9. EventsSeen'
    <2>1. \A n \in DOMAIN read : read[n].id \in Known /\ key'[read[n].id] = key[read[n].id]
        BY <1>2, <1>4 DEF EventsWalking, EventsSeen
    <2> QED BY <1>2, <1>3, <1>4, <2>1 DEF EventsWalking, EventsSeen
<1>10. EventsComplete => EventsComplete'
    <2>1. IdsOf(read)' = IdsOf(read)
        BY <1>3 DEF IdsOf
    <2> QED BY <1>3, <1>6, <2>1 DEF EventsComplete
<1>11. EventsWalking'
    BY <1>3, <1>4, <1>5, <1>8, <1>9, <1>10 DEF EventsWalking
<1>12. ~Finished'
    BY <1>2, <1>3 DEF Finished
<1> QED BY <1>3, <1>7, <1>11, <1>12, EventInvNext

LEMMA EventsKept ==
    ASSUME TypeOK, NewInv, EventInv, [Next]_vars
    PROVE  EventInv'
<1>1. CASE UNCHANGED vars
    <2>1. UNCHANGED <<asked, world, walk, call, history>>
        BY <1>1 DEF vars
    <2>2. UNCHANGED <<phase, cursor, got, step, read, next, ask, rows, key, gone>>
        BY <2>1 DEF walk, call, world, asked
    <2>3. Uses(ask.tool, "events")' <=> Uses(ask.tool, "events")
        BY <2>2, SameUses
    <2>4. Passed("events")' <=> Passed("events")
        BY <2>2, PassedSame
    <2>5. Known' = Known /\ Kept' = Kept /\ IdsOf(read)' = IdsOf(read)
        BY <2>2 DEF Known, Kept, There, IdsOf
    <2> QED BY <2>2, <2>3, <2>4, <2>5 DEF EventInv, Finished
<1>2. CASE Begin
    <2>1. PICK tool \in Tools : CallUnknown(tool) \/ Call(tool)
        BY <1>2 DEF Begin
    <2>2. CASE CallUnknown(tool)
        <3>1. phase' = "unknown"
            BY <2>2 DEF CallUnknown
        <3> QED BY <3>1 DEF EventInv, Finished
    <2>3. CASE Call(tool)
        <3>1. /\ phase = "new" /\ phase' = "walking" /\ UNCHANGED world /\ UNCHANGED call
              /\ UNCHANGED <<got, flagged, chosen>>
              /\ cursor' = IF Uses(tool, "events") THEN LastKey ELSE 0
            BY <2>3 DEF Call
        <3>2. got' = << >> /\ next' = End /\ read' = << >> /\ step' = 1
            BY <3>1 DEF NewInv, call
        <3>3. ask'.tool = tool
            BY <2>3, CallTypes
        <3>4. CASE Uses(tool, "events")
            <4>1. cursor' = LastKey /\ LastKey \in Nat /\ \A k \in Keys : k <= LastKey /\ k \in Nat
                BY <3>1, <3>4, KeyBounds, Constants
            <4>2. WorldOK' /\ key' \in [Ids -> Keys]
                BY <3>1, SameWorld DEF TypeOK, WorldOK
            <4>3. \A i \in Kept' : i \in Ids
                BY Constants DEF Kept
            <4>4. \A i \in Kept' : ~(key'[i] > cursor')
                BY <4>1, <4>2, <4>3
            <4>5. DOMAIN got' = {} /\ DOMAIN read' = {}
                BY <3>2
            <4>6. EventsReturned' /\ EventsAbove' /\ EventsSeen'
                BY <3>2, <4>4, <4>5 DEF EventsReturned, EventsAbove, EventsSeen
            <4>7. ~Passed("events")'
                BY <3>2, PassedFirst
            <4>8. EventsWalking' /\ ~Finished'
                BY <3>1, <3>2, <4>6, <4>7 DEF EventsWalking, Finished
            <4> QED BY <4>6, <4>8, EventInvNext
        <3>5. CASE ~Uses(tool, "events")
            BY <3>3, <3>5 DEF EventInv, Uses
        <3> QED BY <3>4, <3>5
    <2> QED BY <2>1, <2>2, <2>3
<1>3. CASE ask' = ask /\ ~Uses(ask.tool, "events")
    BY <1>3, SameUses DEF EventInv
<1>4. CASE CallStep
    <2>1. ask' = ask
        BY <1>4, CallStepAsks
    <2> QED BY <1>3, <1>4, <2>1, EventsStepKept
<1>5. CASE Edit
    <2>1. ask' = ask
        BY <1>5 DEF Edit, asked
    <2> QED BY <1>3, <1>5, <2>1, EventsEdited
<1> QED BY <1>1, <1>2, <1>4, <1>5 DEF Next

\* How often an id is returned that is at most at one place.
LEMMA TimesReturned ==
    ASSUME NEW i, \A m, n \in DOMAIN got : got[m] = got[n] => m = n
    PROVE  /\ Times(i) <= 1 /\ Times(i) \in {0, 1}
           /\ (\E n \in DOMAIN got : got[n] = i) <=> Times(i) = 1
<1> DEFINE S == {n \in DOMAIN got : got[n] = i}
<1>1. CASE S = {}
    <2>1. Cardinality(S) = 0
        BY <1>1, FS_EmptySet
    <2> QED BY <1>1, <2>1 DEF Times
<1>2. CASE S # {}
    <2>1. PICK n \in S : TRUE
        BY <1>2
    <2>2. S = {n}
        OBVIOUS
    <2>3. Cardinality(S) = 1
        <3> HIDE DEF S
        <3> QED BY <2>2, FS_Singleton
    <2> QED BY <2>1, <2>3 DEF Times
<1> QED BY <1>1, <1>2

\* EventsOnce: a walk over Protect events returns no event twice, and each
\* one of the window that was there throughout, whatever others do to the
\* events in the meantime (finish_protect_event_page).
THEOREM EventsReturnedOnce == Spec => []EventsOnce
<1>1. Init => EventInv
    BY DEF Init, EventInv, Finished
<1>2. TypeOK /\ NewInv /\ EventInv /\ [Next]_vars => EventInv'
    BY EventsKept
<1>3. EventInv => EventsOnce
    <2> SUFFICES ASSUME EventInv, Walked("events") PROVE EventsOnce
        BY DEF EventsOnce
    <2>1. EventsReturned /\ EventsOver
        BY EventInvIs DEF Walked, Finished
    <2>2. \A i \in Ids : Times(i) <= 1 /\ (Returned(i) => Times(i) = 1)
        BY <2>1, TimesReturned DEF EventsReturned, Returned
    <2> QED BY <2>1, <2>2 DEF EventsOnce, EventsOver
<1> QED BY <1>1, <1>2, <1>3, ReadTypesHold, PTL DEF Spec

-----------------------------------------------------------------------------
(***************************************************************************)
(* What a call has read of a collection that comes in pages.               *)
(***************************************************************************)
SourceOf(role) ==
    /\ ~Passed(role) => ~cut /\ (role \notin {"scan", "section"} => read = << >>)
    /\ role \in {"scan", "section", "logWindow"} \/ ~Passed(role) => next = End
    /\ role = "scan" /\ ask.tool.finish # "window" => cursor = 0
    /\ edits = 0 /\ Trusted(role) => Prefix(Base) /\ (Passed(role) => FoundIn(role))

LEMMA SourceInvIs ==
    SourceInv <=> \A role \in PageRoles : phase = "walking" /\ Uses(ask.tool, role) => SourceOf(role)
BY DEF SourceInv, SourceOf

LEMMA SourceInvNext ==
    ASSUME \A role \in PageRoles : phase' = "walking" /\ Uses(ask.tool, role)' => SourceOf(role)'
    PROVE  SourceInv'
BY DEF SourceInv, SourceOf

LEMMA WorseIs ==
    ASSUME NEW a \in {"honest", "odd", "understated"}, NEW b \in {"honest", "odd", "understated"}
    PROVE  /\ Worse(a, b) = "honest" => a = "honest" /\ b = "honest"
           /\ Worse(a, b) = "odd" => a \in {"honest", "odd"} /\ b \in {"honest", "odd"}
BY DEF Worse

\* Trust is never regained.
LEMMA TrustStep ==
    ASSUME TypeOK, NEW b \in {"honest", "odd", "understated"}, trust' = Worse(trust, b), NEW role
    PROVE  Trusted(role)' => /\ Trusted(role)
                             /\ b = "honest" \/ (b = "odd" /\ role \in {"page", "vouchers", "log"})
<1>1. trust \in {"honest", "odd", "understated"}
    BY DEF TypeOK
<1> QED BY <1>1, WorseIs DEF Trusted

LEMMA RowsSpelled ==
    ASSUME WorldOK, NEW offset \in Nat, NEW n \in Nat, offset <= Len(rows)
    PROVE  /\ Spells(RowsAt(offset, n), rows, key, offset) /\ RowsAt(offset, n) \in Seq(RowRecord)
           /\ Len(RowsAt(offset, n)) \in Nat /\ Len(RowsAt(offset, n)) <= n
           /\ offset + Len(RowsAt(offset, n)) <= Len(rows)
           /\ Len(RowsAt(offset, n)) < n => offset + Len(RowsAt(offset, n)) = Len(rows)
<1> DEFINE r == RowsAt(offset, n)
<1>1. /\ r \in Seq(RowRecord) /\ Len(r) \in Nat /\ Len(r) <= n
      /\ offset + Len(r) <= Len(rows)
      /\ Len(r) < n => offset + Len(r) = Len(rows)
      /\ r = Reading(SubSeq(rows, offset + 1, offset + Len(r)))
    BY RowsAtShape
<1>2. rows \in Seq(Ids) /\ key \in [Ids -> Keys]
    BY DEF WorldOK
<1> HIDE DEF r
<1>3. r = ReadingBy(SubSeq(rows, offset + 1, offset + Len(r)), key)
    BY <1>1 DEF Reading, Row, ReadingBy
<1>4. Spells(r, rows, key, offset)
    BY <1>1, <1>2, <1>3, Spelled
<1> QED BY <1>1, <1>4 DEF r

\* How the answer is made of rows that were read in this way, and where they
\* begin.
LEMMA FinishOf ==
    ASSUME AskOK, NEW role \in PageRoles, Uses(ask.tool, role)
    PROVE  /\ role \in {"page", "vouchers", "catalog", "log"} => ask.tool.finish = "asRead"
           /\ role = "section" => ask.tool.finish = "section"
           /\ role = "logWindow" => ask.tool.finish = "window"
           /\ role = "scan" => ask.tool.finish # "section"
           /\ ask.tool.finish = "section" => role = "section"
           /\ ask.tool.finish = "window" => role \in {"scan", "logWindow"}
           /\ Base = IF role = "log" THEN cursor * ask.limit
                     ELSE IF ask.tool.finish = "window" THEN 0 ELSE cursor
           /\ ~Uses(ask.tool, "events")
<1>1. role \in RowRoles /\ role # "events" /\ role # "whole"
    BY DEF PageRoles, RowRoles
<1>2. role \in Sources(ask.tool.finish)
    BY <1>1, OneSource
<1>3. ask.tool.finish \in {"record", "asRead", "section", "bounded", "window"}
    BY ToolShape
<1>4. Uses(ask.tool, "log") <=> role = "log"
    BY <1>1, OneSource DEF RowRoles
<1>5. ~Uses(ask.tool, "events")
    BY <1>1, OneSource DEF RowRoles
<1> QED BY <1>1, <1>2, <1>3, <1>4, <1>5 DEF Sources, Base

LEMMA BaseType ==
    ASSUME AskOK, cursor \in Nat
    PROVE  Base \in Nat
<1>1. ask.limit \in Nat
    BY DEF AskOK
<1>2. cursor * ask.limit \in Nat
    BY <1>1
<1> QED BY <1>2 DEF Base

LEMMA SameBase ==
    ASSUME ask' = ask, cursor' = cursor
    PROVE  Base' = Base
BY DEF Base, Uses

\* Steps that leave the pages alone.
LEMMA SourceQuiet ==
    ASSUME TypeOK, NEW role \in PageRoles, Uses(ask.tool, role), SourceOf(role),
           Busy, Cur.role # role, step' = step + 1,
           UNCHANGED <<ask, cursor, read, next, cut, trust, edits>>, UNCHANGED world
    PROVE  SourceOf(role)'
<1>1. Passed(role)' <=> Passed(role)
    BY PassedAdvance
<1>2. WorldOK /\ AskOK /\ cursor \in Nat /\ read \in Seq(RowRecord)
    BY InCourse DEF TypeOK, CallOK
<1>3. Base' = Base /\ Base \in Nat
    BY <1>2, SameBase, BaseType
<1>4. Prefix(Base)' <=> Prefix(Base)
    <2>1. rows' = rows /\ key' = key
        BY DEF world
    <2> QED BY <1>3, <2>1 DEF Prefix, Reading, Row
<1>5. rows' = rows
    BY DEF world
<1>6. ToTheEnd' <=> ToTheEnd
    BY <1>3, <1>5 DEF ToTheEnd
<1>7. FoundIn(role)' <=> FoundIn(role)
    BY <1>6 DEF FoundIn
<1>8. Trusted(role)' <=> Trusted(role)
    BY DEF Trusted
<1> QED BY <1>1, <1>4, <1>7, <1>8 DEF SourceOf

\* A page that fits: what has been read now is a piece of the collection.
LEMMA SourceRead ==
    ASSUME TypeOK, NEW role \in PageRoles, Uses(ask.tool, role), SourceOf(role),
           At(role), UNCHANGED <<ask, cursor, edits>>, UNCHANGED world, TypeOK',
           step' = step + 1 \/ (role \in {"scan", "section"} /\ step' = step /\ ~cut'),
           role \in {"scan", "section", "logWindow"} => next' = End,
           Trusted(role)' => Trusted(role),
           edits = 0 /\ Trusted(role)' =>
              /\ Prefix(Base) => Spells(read', rows, key, Base)
              /\ Prefix(Base) /\ step' = step + 1 => FoundIn(role)'
    PROVE  SourceOf(role)'
<1>1. Busy /\ Cur.role = role /\ role \in RowRoles
    BY DEF At, PageRoles, RowRoles
<1>2. ~Passed(role)
    BY <1>1, NotPassedAt
<1>3. WorldOK /\ AskOK /\ cursor \in Nat /\ read \in Seq(RowRecord) /\ step \in Nat
    BY <1>1, InCourse DEF TypeOK, CallOK
<1>4. Passed(role)' <=> step' = step + 1
    <2>1. CASE step' = step + 1
        BY <1>1, <2>1, PassedAdvance
    <2>2. CASE step' = step
        <3>1. step' # step + 1
            BY <1>3, <2>2
        <3> QED BY <1>2, <2>2, <3>1, PassedSame
    <2> QED BY <2>1, <2>2
<1>5. Base' = Base /\ Base \in Nat /\ rows' = rows /\ key' = key
    BY <1>3, SameBase, BaseType DEF world
<1>6. WorldOK' /\ read' \in Seq(RowRecord)
    BY DEF TypeOK, CallOK
<1>7. ASSUME edits = 0, Trusted(role)' PROVE Prefix(Base)' /\ (Passed(role)' => FoundIn(role)')
    <2>1. Prefix(Base)
        BY <1>7 DEF SourceOf
    <2>2. Spells(read', rows', key', Base)
        BY <1>5, <1>7, <2>1
    <2>3. Prefix(Base)' <=> Spells(read', rows', key', Base)
        <3>2. Prefix(Base)' <=> /\ Base' + Len(read') <= Len(rows')
                                /\ read' = ReadingBy(SubSeq(rows', Base' + 1, Base' + Len(read')), key')
            BY DEF Prefix, Reading, Row, ReadingBy
        <3>3. rows' \in Seq(Ids) /\ key' \in [Ids -> Keys]
            BY <1>6 DEF WorldOK
        <3>4. Spells(read', rows', key', Base) => Base + Len(read') <= Len(rows')
            BY DEF Spells
        <3> QED BY <1>5, <1>6, <3>2, <3>3, <3>4, Spelled
    <2> QED BY <1>4, <1>7, <2>1, <2>2, <2>3
<1> QED BY <1>4, <1>7 DEF SourceOf

\* What a page that is accepted shows, as far as it can be trusted.
LEMMA PageFound ==
    ASSUME WorldOK, NEW how \in {"page", "vouchers", "catalog"}, At(how), NEW offset \in Nat,
           NEW limit \in Nat \ {0}, NEW reply \in Replies(offset, limit),
           Accepted(how, offset, limit, reply[1]), offset <= Len(rows),
           reply[2] = "honest" \/ (reply[2] = "odd" /\ how # "catalog")
    PROVE  /\ Spells(reply[1].rows, rows, key, offset)
           /\ PageNext(how, reply[1]) \in {End, offset + Len(reply[1].rows)}
           /\ PageNext(how, reply[1]) = End => offset + Len(reply[1].rows) = Len(rows)
<1> DEFINE p == reply[1]
<1>1. Len(rows) \in Nat /\ End \notin Nat
    BY Constants DEF WorldOK
<1>2. p.offset = offset /\ p.limit # 0 /\ p.limit <= limit /\ p.count = Len(p.rows)
    BY DEF Accepted, PageAccepted, VoucherPageAccepted, CatalogPageAccepted, AsAsked
<1> HIDE DEF p
<1>3. ASSUME NEW n \in Nat, p.rows = RowsAt(offset, n)
      PROVE  /\ Spells(p.rows, rows, key, offset) /\ Len(p.rows) \in Nat
             /\ offset + Len(p.rows) <= Len(rows)
             /\ Len(p.rows) < n => offset + Len(p.rows) = Len(rows)
    BY <1>3, RowsSpelled
<1>4. ASSUME NEW n \in Nat, p.rows = RowsAt(offset, n), p.total \in {Len(rows), Len(rows) + 1},
             how # "catalog"
      PROVE  /\ Spells(p.rows, rows, key, offset)
             /\ PageNext(how, p) \in {End, offset + Len(p.rows)}
             /\ PageNext(how, p) = End => offset + Len(p.rows) = Len(rows)
    <2>1. /\ Spells(p.rows, rows, key, offset) /\ Len(p.rows) \in Nat
          /\ offset + Len(p.rows) <= Len(rows)
        BY <1>3, <1>4
    <2>2. PageNext(how, p) = IF offset + Len(p.rows) < p.total THEN offset + Len(p.rows) ELSE End
        BY <1>2, <1>4 DEF PageNext, NextOffset
    <2>3. offset + Len(p.rows) \in Nat
        BY <2>1
    <2>4. PageNext(how, p) = End => ~(offset + Len(p.rows) < p.total)
        BY <1>1, <2>2, <2>3
    <2>5. ~(offset + Len(p.rows) < p.total) => offset + Len(p.rows) = Len(rows)
        BY <1>1, <1>4, <2>1, <2>3
    <2> QED BY <2>1, <2>2, <2>4, <2>5
<1>5. CASE how = "catalog"
    <2>1. p \in HonestReplies(offset, limit)
        BY <1>5, ReplyFrom DEF p
    <2>2. p.limit = limit /\ p.rows = RowsAt(offset, limit)
        BY <1>5, <2>1, HonestShape
    <2>3. /\ Spells(p.rows, rows, key, offset) /\ Len(p.rows) \in Nat /\ Len(p.rows) <= limit
          /\ Len(p.rows) < limit => offset + Len(p.rows) = Len(rows)
        BY <1>3, <2>2, RowsSpelled
    <2>4. PageNext(how, p) = IF Len(p.rows) = limit THEN offset + Len(p.rows) ELSE End
        BY <1>2, <1>5, <2>2 DEF PageNext, After
    <2>5. offset + Len(p.rows) \in Nat
        BY <2>3
    <2>6. PageNext(how, p) = End => Len(p.rows) < limit
        BY <1>1, <2>3, <2>4, <2>5
    <2> QED BY <2>3, <2>4, <2>6 DEF p
<1>6. CASE how # "catalog" /\ reply[2] = "honest"
    <2>1. p \in HonestReplies(offset, limit)
        BY <1>6, ReplyFrom DEF p
    <2>2. ~At("catalog")
        BY <1>6 DEF At
    <2>3. p.total = Len(rows) /\ \E n \in 1..limit : p.rows = RowsAt(offset, n)
        BY <2>1, <2>2, HonestShape
    <2> QED BY <1>4, <1>6, <2>3 DEF p
<1>7. CASE how # "catalog" /\ reply[2] = "odd"
    <2>1. p \in OddReplies(offset, limit)
        BY <1>7, ReplyFrom DEF p
    <2>2. /\ \/ p.offset # offset \/ p.limit > limit \/ p.limit = 0 \/ p.count # Len(p.rows)
             \/ /\ p.offset = offset /\ p.limit = limit
                /\ p.total \in {Len(rows), Len(rows) + 1}
                /\ p.rows = RowsAt(offset, limit) \/ (p.rows = RowsAt(offset, 0) /\ p.total = Len(rows))
          /\ p.limit \in Nat
        BY <2>1, OddShape
    <2>3. p.total \in {Len(rows), Len(rows) + 1} /\ \E n \in Nat : p.rows = RowsAt(offset, n)
        BY <1>2, <2>2
    <2> QED BY <1>4, <1>7, <2>3 DEF p
<1> QED BY <1>5, <1>6, <1>7

LEMMA PageReadSource ==
    ASSUME TypeOK, NEW how \in {"page", "vouchers", "catalog"}, NEW limit, NEW reply,
           PageRead(how, limit, reply), Uses(ask.tool, how), SourceOf(how)
    PROVE  SourceOf(how)'
<1>1. /\ At(how) /\ reply \in Replies(cursor, limit) /\ limit = NativeLimit(ask.limit, Cap)
      /\ Accepted(how, cursor, limit, reply[1])
      /\ read' = reply[1].rows /\ next' = PageNext(how, reply[1]) /\ step' = step + 1
      /\ trust' = Worse(trust, reply[2])
      /\ UNCHANGED <<ask, cursor, edits>> /\ UNCHANGED world
    BY DEF PageRead, asked, world, walk
<1>2. WorldOK /\ AskOK /\ cursor \in Nat /\ ask.limit \in Nat \ {0}
    BY <1>1, InCourse DEF At
<1>3. limit \in Nat \ {0}
    BY <1>1, <1>2, Constants, MinOfTwo DEF NativeLimit
<1>4. TypeOK'
    BY PageReadTypes
<1>5. reply[2] \in {"honest", "odd", "understated"}
    BY <1>1, <1>2, <1>3, ReplyTypes
<1>6. how \in PageRoles /\ how \notin {"scan", "section", "logWindow"}
    BY DEF PageRoles
<1>7. Base = cursor /\ Base' = Base
    <2>1. ask.tool.finish = "asRead"
        BY <1>2, <1>6, FinishOf
    <2> QED BY <1>1, <1>2, <1>6, <2>1, FinishOf, SameBase
<1>8. Trusted(how)' => /\ Trusted(how)
                       /\ reply[2] = "honest" \/ (reply[2] = "odd" /\ how # "catalog")
    BY <1>1, <1>5, TrustStep
<1>9. ASSUME edits = 0, Trusted(how)', Prefix(Base)
      PROVE  Spells(read', rows, key, Base) /\ FoundIn(how)'
    <2>1. cursor <= Len(rows)
        <3>1. read \in Seq(RowRecord) /\ Len(rows) \in Nat
            BY <1>2 DEF TypeOK, CallOK, WorldOK
        <3>2. Base + Len(read) <= Len(rows) /\ Len(read) \in Nat
            BY <1>9, <3>1 DEF Prefix
        <3> QED BY <1>2, <1>7, <3>1, <3>2
    <2>2. /\ Spells(read', rows, key, cursor)
          /\ next' \in {End, cursor + Len(read')}
          /\ next' = End => cursor + Len(read') = Len(rows)
        BY <1>1, <1>2, <1>3, <1>8, <1>9, <2>1, PageFound
    <2>3. rows' = rows
        BY <1>1 DEF world
    <2> QED BY <1>1, <1>7, <2>2, <2>3 DEF FoundIn, ToTheEnd
<1> QED BY <1>1, <1>4, <1>6, <1>8, <1>9, SourceRead

LEMMA ScanReadSource ==
    ASSUME TypeOK, NEW how \in {"scan", "section"}, NEW start, NEW reply, ScanRead(how, start, reply),
           Uses(ask.tool, how), SourceOf(how)
    PROVE  SourceOf(how)'
<1> DEFINE p == reply[1]
           offset == start + Len(read)
           over == ScanOver(offset, p)
           stop == ScanCut(start, offset, p, Ceiling)
<1>1. /\ At(how) /\ start = (IF how = "section" THEN cursor ELSE 0)
      /\ reply \in Replies(offset, ScanLimit) /\ read' = read \o p.rows
      /\ cut' = (~over /\ stop) /\ step' = IF over \/ stop THEN step + 1 ELSE step
      /\ trust' = Worse(trust, reply[2]) /\ next' = next
      /\ UNCHANGED <<ask, cursor, edits>> /\ UNCHANGED world
    BY DEF ScanRead, asked, world, walk
<1>2. WorldOK /\ AskOK /\ cursor \in Nat /\ read \in Seq(RowRecord) /\ ScanLimit \in Nat \ {0}
    BY <1>1, InCourse, Constants DEF At, TypeOK, CallOK
<1>3. how \in PageRoles /\ how \notin {"page", "vouchers", "log"}
    BY DEF PageRoles
<1>4. next = End /\ (how = "scan" /\ ask.tool.finish # "window" => cursor = 0)
    BY DEF SourceOf
<1>5. Base = start /\ Base' = Base /\ start \in Nat
    <2>1. Base = IF ask.tool.finish = "window" THEN 0 ELSE cursor
        BY <1>2, <1>3, FinishOf
    <2>2. how = "section" => ask.tool.finish = "section"
        BY <1>2, <1>3, FinishOf
    <2> QED BY <1>1, <1>2, <1>4, <2>1, <2>2, SameBase
<1>6. offset \in Nat /\ Len(read) \in Nat /\ Len(rows) \in Nat
    BY <1>2, <1>5 DEF WorldOK
<1>7. p.rows \in Seq(RowRecord) /\ Len(p.rows) \in Nat
      /\ reply[2] \in {"honest", "odd", "understated"}
    <2> HIDE DEF offset
    <2> QED BY <1>1, <1>2, <1>6, ReplyTypes
<1>8. TypeOK'
    BY ScanReadTypes
<1>9. Trusted(how)' => Trusted(how) /\ reply[2] = "honest"
    BY <1>1, <1>3, <1>7, TrustStep
<1> HIDE DEF p, offset, over, stop
<1>10. ASSUME edits = 0, Trusted(how)', Prefix(Base)
       PROVE  Spells(read', rows, key, Base) /\ (step' = step + 1 => FoundIn(how)')
    <2>1. Spells(read, rows, key, start)
        BY <1>2, <1>5, <1>10, PrefixSpells
    <2>2. offset <= Len(rows) /\ offset = start + Len(read)
        BY <2>1 DEF Spells, offset
    <2>3. p \in HonestReplies(offset, ScanLimit)
        BY <1>1, <1>9, <1>10, ReplyFrom DEF p
    <2>4. ~At("catalog")
        BY <1>1 DEF At
    <2>5. p.total = Len(rows) /\ \E n \in 1..ScanLimit : p.rows = RowsAt(offset, n)
        BY <1>2, <1>6, <2>3, <2>4, HonestShape
    <2>6. PICK n \in 1..ScanLimit : p.rows = RowsAt(offset, n)
        BY <2>5
    <2>7. n \in Nat /\ n # 0
        BY <1>2
    <2>8. /\ Spells(p.rows, rows, key, offset)
          /\ offset + Len(p.rows) <= Len(rows)
          /\ Len(p.rows) < n => offset + Len(p.rows) = Len(rows)
        BY <1>2, <1>6, <2>2, <2>6, <2>7, RowsSpelled
    <2>9. Spells(read \o p.rows, rows, key, start)
        <3>1. rows \in Seq(Ids)
            BY <1>2 DEF WorldOK
        <3> QED BY <1>2, <1>5, <1>7, <2>1, <2>2, <2>8, <3>1, SpellsMore
    <2>10. over => offset + Len(p.rows) = Len(rows)
        <3> SUFFICES ASSUME over PROVE offset + Len(p.rows) = Len(rows)
            OBVIOUS
        <3>1. p.rows = << >> \/ offset + Len(p.rows) >= Len(rows)
            BY <2>5 DEF over, ScanOver
        <3>2. CASE p.rows = << >>
            <4>1. Len(p.rows) = 0
                BY <3>2
            <4> QED BY <2>7, <2>8, <4>1
        <3>3. CASE offset + Len(p.rows) >= Len(rows)
            BY <1>6, <1>7, <2>8, <3>3
        <3> QED BY <3>1, <3>2, <3>3
    <2>11. Base + Len(read') = offset + Len(p.rows)
        <3>1. Len(read') = Len(read) + Len(p.rows)
            BY <1>1, <1>2, <1>7, ConcatShape
        <3>0. start \in Nat /\ Len(read) \in Nat /\ Len(p.rows) \in Nat
            BY <1>5, <1>6, <1>7
        <3>2. \A a, b, c \in Nat : a + (b + c) = (a + b) + c
            OBVIOUS
        <3>3. start + (Len(read) + Len(p.rows)) = (start + Len(read)) + Len(p.rows)
            BY <3>0, <3>2, Zenon
        <3> QED BY <1>5, <2>2, <3>1, <3>3
    <2>12. step' = step + 1 => (~cut' => ToTheEnd')
        <3>1. step \in Nat
            BY <1>1, InCourse DEF At
        <3>2. rows' = rows
            BY <1>1 DEF world
        <3>3. step' = step + 1 => over \/ stop
            BY <1>1, <3>1
        <3> QED BY <1>1, <1>5, <2>10, <2>11, <3>2, <3>3 DEF ToTheEnd
    <2> QED BY <1>1, <1>5, <2>9, <2>12 DEF FoundIn
<1>11. step' = step + 1 \/ (step' = step /\ ~cut')
    BY <1>1
<1> QED BY <1>1, <1>3, <1>4, <1>8, <1>9, <1>10, <1>11, SourceRead

\* Pages of the log.
LEMMA LaterPages ==
    ASSUME NEW length \in Nat, NEW size \in Nat \ {0}, NEW number \in Nat,
           number >= PagesOf(length, size)
    PROVE  number * size >= length
<1>1. CASE number = 0
    <2>1. PagesOf(length, size) \in Nat /\ (length > 0 => PagesOf(length, size) > 0)
        BY PageCount
    <2>2. length = 0
        BY <1>1, <2>1
    <2> QED BY <1>1, <2>2
<1>2. CASE number # 0
    <2> DEFINE m == number - 1
    <2>1. m \in Nat /\ m + 1 = number
        BY <1>2
    <2>2. PagesOf(length, size) \in Nat /\ m * size \in Nat
          /\ (m + 1 < PagesOf(length, size) <=> m * size + size < length)
        <3> HIDE DEF m
        <3> QED BY <2>1, PageCount
    <2>3. number * size = m * size + size
        BY <2>1
    <2> HIDE DEF m
    <2> QED BY <2>1, <2>2, <2>3
<1> QED BY <1>1, <1>2

LEMMA LogFound ==
    ASSUME WorldOK, NEW number \in Nat, NEW size \in Nat \ {0}, NEW reply \in LogReplies(number, size),
           LogPageAccepted(number, size, reply[1]), number * size <= Len(rows),
           reply[2] \in {"honest", "odd"}
    PROVE  /\ Spells(reply[1].rows, rows, key, number * size)
           /\ LogNext(reply[1]) # End => LogNext(reply[1]) = number + 1 /\ Len(reply[1].rows) = size
           /\ LogNext(reply[1]) = End =>
                 LogIncomplete(reply[1]) \/ number * size + Len(reply[1].rows) = Len(rows)
<1> DEFINE p == reply[1]
           base == number * size
           pages == PagesOf(Len(rows), size)
           right == RowsAt(base, size)
<1>0. base \in Nat /\ Len(rows) \in Nat /\ End \notin Nat /\ base <= Len(rows)
      /\ pages \in Nat /\ (number + 1 < pages <=> base + size < Len(rows))
    <2>1. Len(rows) \in Nat /\ End \notin Nat
        BY Constants DEF WorldOK
    <2> QED BY <2>1, PageCount
<1>1. /\ p.number = number /\ Len(p.rows) <= size
      /\ ~(p.rows = << >> /\ p.total # 0 /\ p.number < p.pages)
    BY DEF LogPageAccepted
<1>2. /\ p.total = Len(rows)
      /\ \/ p.rows = right /\ p.pages = pages
         \/ p.number = number + 1
         \/ p.rows = << >> /\ p.pages = pages
         \/ p.pages = pages /\ p.rows = RowsAt(base, size + 1)
         \/ number = 0 /\ p.rows = right /\ p.pages = 1
    <2>1. /\ p.total = Len(rows)
          /\ \/ /\ reply[2] = "honest" /\ p.number = number /\ p.rows = right /\ p.pages = pages
             \/ /\ reply[2] = "odd" /\ p.number = number + 1 /\ p.rows = right /\ p.pages = pages
             \/ /\ reply[2] = "odd" /\ p.number = number /\ p.rows = << >> /\ p.pages = pages
             \/ /\ reply[2] = "odd" /\ p.number = number /\ p.pages = pages
                /\ p.rows = RowsAt(base, size + 1)
             \/ /\ reply[2] = "odd" /\ p.number = number /\ number = 0 /\ p.rows = right /\ p.pages = 1
             \/ /\ reply[2] = "understated" /\ p.number = number /\ p.rows = right
                /\ p.pages = pages - 1 /\ pages # 0
        BY LogShape
    <2>2. reply[2] # "understated"
        OBVIOUS
    <2> HIDE DEF p, base, pages, right
    <2> QED BY <2>1, <2>2
<1>2a. LogNext(p) = (IF p.number + 1 < p.pages THEN p.number + 1 ELSE End)
       /\ (LogIncomplete(p) <=> p.number = 0 /\ LogNext(p) = End /\ p.total > Len(p.rows))
    BY DEF LogNext, LogIncomplete
<1> HIDE DEF p, base, pages
<1>3. /\ Spells(right, rows, key, base) /\ Len(right) \in Nat /\ Len(right) <= size
      /\ base + Len(right) <= Len(rows) /\ (Len(right) < size => base + Len(right) = Len(rows))
    BY <1>0, RowsSpelled
<1>4. number + 1 \in Nat /\ number + 1 # number
    OBVIOUS
<1> HIDE DEF right
<1>5. CASE p.rows = right /\ p.pages = pages
    <2>1. LogNext(p) # End => number + 1 < pages /\ LogNext(p) = number + 1
        BY <1>1, <1>2a, <1>5
    <2>2. LogNext(p) = End => ~(number + 1 < pages)
        BY <1>0, <1>1, <1>2a, <1>4, <1>5
    <2>3. number + 1 < pages => Len(right) = size
        BY <1>0, <1>3
    <2>4. ~(number + 1 < pages) => base + Len(right) = Len(rows)
        BY <1>0, <1>3
    <2> QED BY <1>3, <1>5, <2>1, <2>2, <2>3, <2>4 DEF p, base
<1>6. CASE p.rows = << >> /\ p.pages = pages
    <2>1. base + 0 = Len(rows)
        <3>1. Len(rows) = 0 \/ ~(number < pages)
            BY <1>1, <1>2, <1>6
        <3>2. CASE Len(rows) = 0
            BY <1>0, <3>2
        <3>3. CASE ~(number < pages)
            <4>1. number >= pages
                BY <1>0, <3>3
            <4>2. base >= Len(rows)
                BY <1>0, <4>1, LaterPages DEF base, pages
            <4> QED BY <1>0, <4>2
        <3> QED BY <3>1, <3>2, <3>3
    <2>2. ~(number + 1 < pages)
        BY <1>0, <2>1
    <2>3. LogNext(p) = End
        BY <1>1, <1>2a, <1>6, <2>2
    <2>4. Len(p.rows) = 0 /\ Spells(p.rows, rows, key, base)
        BY <1>0, <1>6, <2>1 DEF Spells
    <2> QED BY <2>1, <2>3, <2>4 DEF p, base
<1>7. CASE p.pages = pages /\ p.rows = RowsAt(base, size + 1)
    <2>1. /\ Spells(p.rows, rows, key, base) /\ Len(p.rows) \in Nat
          /\ base + Len(p.rows) <= Len(rows) /\ (Len(p.rows) < size + 1 => base + Len(p.rows) = Len(rows))
        <3>1. size + 1 \in Nat
            OBVIOUS
        <3> QED BY <1>0, <1>7, <3>1, RowsSpelled
    <2>2. base + Len(p.rows) = Len(rows)
        BY <1>1, <2>1
    <2>3. ~(number + 1 < pages)
        BY <1>0, <1>1, <2>1, <2>2
    <2>4. LogNext(p) = End
        BY <1>1, <1>2a, <1>7, <2>3
    <2> QED BY <2>1, <2>2, <2>4 DEF p, base
<1>8. CASE number = 0 /\ p.rows = right /\ p.pages = 1
    <2>1. LogNext(p) = End
        BY <1>1, <1>2a, <1>8
    <2>2. base = 0
        BY <1>8 DEF base
    <2>3. LogIncomplete(p) \/ base + Len(right) = Len(rows)
        <3>1. LogIncomplete(p) <=> Len(rows) > Len(right)
            BY <1>1, <1>2, <1>2a, <1>8, <2>1
        <3> QED BY <1>0, <1>3, <2>2, <3>1
    <2> QED BY <1>3, <1>8, <2>1, <2>3 DEF p, base
<1> QED BY <1>1, <1>2, <1>4, <1>5, <1>6, <1>7, <1>8

\* Nothing has been read yet.
LEMMA EmptyPrefix ==
    ASSUME read' = << >>, Base' \in Nat, Len(rows') \in Nat, Base' <= Len(rows')
    PROVE  Prefix(Base)'
<1> DEFINE from == Base'
<1>1. from \in Nat /\ Len(read') = 0 /\ from + Len(read') <= Len(rows')
    OBVIOUS
<1>2. SubSeq(rows', from + 1, from + Len(read')) = << >>
    <2> HIDE DEF from
    <2>2. from + Len(read') = from /\ from + 1 \in Nat /\ ~(from + 1 <= from)
        BY <1>1
    <2>3. SubSeq(rows', from + 1, from) = << >>
        BY <1>1, <2>2
    <2> QED BY <2>2, <2>3
<1>3. Reading(<< >>)' = << >>
    BY DEF Reading
<1> HIDE DEF from
<1>4. Prefix(Base)' <=> /\ from + Len(read') <= Len(rows')
                        /\ read' = Reading(SubSeq(rows, Base + 1, Base + Len(read)))'
    BY DEF Prefix, from
<1> QED BY <1>1, <1>2, <1>3, <1>4 DEF from, Reading

LEMMA LogReadSource ==
    ASSUME TypeOK, NEW how \in {"log", "logWindow"}, NEW number, NEW size, NEW served, NEW reply,
           LogRead(how, number, size, served, reply), Uses(ask.tool, how), SourceOf(how)
    PROVE  SourceOf(how)'
<1> DEFINE p == reply[1]
<1>1. /\ At(how) /\ size = (IF how = "log" THEN ask.limit ELSE LogFetch)
      /\ number = (IF how = "log" THEN cursor ELSE 0)
      /\ served \in (IF how = "log" THEN {size} ELSE 1..size) /\ reply \in LogReplies(number, served)
      /\ LogPageAccepted(number, size, p)
      /\ read' = p.rows /\ step' = step + 1
      /\ next' = (IF how = "log" THEN LogNext(p) ELSE End)
      /\ cut' = (IF how = "log" THEN LogIncomplete(p) ELSE HasMore(p))
      /\ trust' = Worse(trust, reply[2])
      /\ UNCHANGED <<ask, cursor, edits>> /\ UNCHANGED world
    BY DEF LogRead, asked, world, walk
<1>2. WorldOK /\ AskOK /\ cursor \in Nat /\ ask.limit \in Nat \ {0} /\ read \in Seq(RowRecord)
    BY <1>1, InCourse DEF At, TypeOK, CallOK
<1>3. TypeOK' /\ number \in Nat /\ size \in Nat \ {0} /\ served \in Nat \ {0}
    BY LogReadTypes
<1>4. how \in PageRoles
    BY DEF PageRoles
<1>5. reply[2] \in {"honest", "odd", "understated"} /\ p.total = Len(rows)
    BY <1>1, <1>2, <1>3, LogShape
<1>6. Base = (IF how = "log" THEN cursor * ask.limit ELSE 0) /\ Base' = Base
    <2>1. /\ how = "logWindow" => ask.tool.finish = "window"
          /\ Base = IF how = "log" THEN cursor * ask.limit
                    ELSE IF ask.tool.finish = "window" THEN 0 ELSE cursor
        BY <1>2, <1>4, FinishOf
    <2> QED BY <1>1, <2>1, SameBase
<1>7. Trusted(how)' => Trusted(how) /\ (reply[2] = "honest" \/ (reply[2] = "odd" /\ how = "log"))
    BY <1>1, <1>5, TrustStep
<1>8. Base \in Nat /\ Len(rows) \in Nat /\ rows' = rows
    BY <1>1, <1>2, BaseType DEF WorldOK, world
<1>9. ASSUME edits = 0, Trusted(how)', Prefix(Base)
      PROVE  Spells(read', rows, key, Base) /\ FoundIn(how)'
    <2>1. Base <= Len(rows)
        <3>1. Base + Len(read) <= Len(rows) /\ Len(read) \in Nat
            BY <1>2, <1>9 DEF Prefix
        <3> QED BY <1>8, <3>1
    <2>2. CASE how = "log"
        <3>1. size = ask.limit /\ number = cursor /\ served = size /\ Base = number * size
            BY <1>1, <1>6, <2>2
        <3>2. /\ Spells(p.rows, rows, key, number * size)
              /\ LogNext(p) # End => LogNext(p) = number + 1 /\ Len(p.rows) = size
              /\ LogNext(p) = End =>
                    LogIncomplete(p) \/ number * size + Len(p.rows) = Len(rows)
            <4>1. number * size <= Len(rows) /\ reply[2] \in {"honest", "odd"}
                  /\ reply \in LogReplies(number, size)
                BY <1>1, <1>7, <1>9, <2>1, <3>1
            <4>2. LogPageAccepted(number, size, reply[1])
                BY <1>1
            <4> QED BY <1>2, <1>3, <4>1, <4>2, LogFound
        <3> HIDE DEF p
        <3>3. next' = LogNext(p) /\ cut' = LogIncomplete(p) /\ read' = p.rows
            BY <1>1, <2>2
        <3>4. /\ next' = End => cut' \/ ToTheEnd'
              /\ next' # End => next' = cursor' + 1 /\ Len(read') = ask'.limit
            BY <1>1, <1>6, <1>8, <3>1, <3>2, <3>3 DEF ToTheEnd
        <3> QED BY <2>2, <3>1, <3>2, <3>3, <3>4 DEF FoundIn
    <2>3. CASE how = "logWindow"
        <3>1. number = 0 /\ Base = 0 /\ reply[2] = "honest" /\ number * served = 0
            BY <1>1, <1>3, <1>6, <1>7, <1>9, <2>3
        <3>2. p.rows = RowsAt(0, served)
            <4>1. p.rows = RowsAt(number * served, served)
                <5>1. reply \in LogReplies(number, served) /\ reply[2] = "honest"
                    BY <1>1, <3>1
                <5> QED BY <1>2, <1>3, <5>1, HonestLog
            <4> QED BY <3>1, <4>1
        <3>3. Spells(p.rows, rows, key, 0) /\ Len(p.rows) \in Nat /\ 0 + Len(p.rows) <= Len(rows)
            <4>1. 0 \in Nat /\ served \in Nat /\ 0 <= Len(rows)
                BY <1>3, <1>8
            <4> QED BY <1>2, <3>2, <4>1, RowsSpelled
        <3>4. p.number = 0
            BY <1>1, <1>2, <1>3, <3>1, LogShape
        <3>5. ~HasMore(p) => ~(Len(rows) > Len(p.rows))
            BY <1>5, <3>4 DEF HasMore
        <3>6. ~(Len(rows) > Len(p.rows)) => 0 + Len(p.rows) = Len(rows)
            BY <1>8, <3>3
        <3>7. cut' = HasMore(p) /\ read' = p.rows
            BY <1>1, <2>3
        <3> HIDE DEF p
        <3>8. ~cut' => ToTheEnd'
            BY <1>6, <1>8, <3>1, <3>5, <3>6, <3>7 DEF ToTheEnd
        <3> QED BY <2>3, <3>1, <3>3, <3>7, <3>8 DEF FoundIn
    <2> QED BY <2>2, <2>3
<1>10. how \in {"scan", "section", "logWindow"} => next' = End
    BY <1>1
<1>11. step' = step + 1 /\ (Trusted(how)' => Trusted(how)) /\ At(how)
       /\ UNCHANGED <<ask, cursor, edits>> /\ UNCHANGED world
    BY <1>1, <1>7
<1> QED BY <1>3, <1>4, <1>9, <1>10, <1>11, SourceRead

\* The next call of the walk begins where this one has ended.
LEMMA AnswerSource ==
    ASSUME TypeOK, NEW role \in PageRoles, Uses(ask.tool, role), SourceOf(role), Answered,
           phase' = "walking", TypeOK'
    PROVE  SourceOf(role)'
<1>1. /\ phase = "walking" /\ step = Len(Course) + 1
      /\ cursor' = Answers.next /\ Answers.next # End
      /\ step' = 1 /\ read' = << >> /\ next' = End /\ cut' = FALSE
      /\ UNCHANGED <<ask, edits, trust>> /\ UNCHANGED world
    BY DEF Answered, asked, world, history
<1>2. WorldOK /\ AskOK /\ cursor \in Nat /\ read \in Seq(RowRecord) /\ ask.limit \in Nat
    BY <1>1 DEF TypeOK, CallOK, AskOK
<1>3. Passed(role) /\ ~Passed(role)'
    BY <1>1, <1>2, PassedLast, PassedFirst
<1>4. ~(role = "scan" /\ ask.tool.finish # "window")
    <2> SUFFICES ASSUME role = "scan", ask.tool.finish # "window" PROVE Answers.next = End
        BY <1>1
    <2>1. next = End
        BY DEF SourceOf
    <2>2. ask.tool.finish # "section" /\ ask.tool.finish \in {"record", "asRead", "bounded"}
        BY <1>2, FinishOf, ToolShape
    <2> QED BY <2>1, <2>2 DEF Answers
<1>5. ASSUME edits = 0, Trusted(role) PROVE Base' \in Nat /\ Base' <= Len(rows)
    <2>1. Prefix(Base) /\ FoundIn(role)
        BY <1>3, <1>5 DEF SourceOf
    <2>2. Base + Len(read) <= Len(rows) /\ Len(read) \in Nat /\ Len(rows) \in Nat
        BY <1>2, <2>1 DEF Prefix, WorldOK
    <2>3. Base' = IF role = "log" THEN Answers.next * ask.limit
                  ELSE IF ask.tool.finish = "window" THEN 0 ELSE Answers.next
        <3>1. Uses(ask.tool, "log") <=> role = "log"
            BY <1>2, OneSource DEF RowRoles, PageRoles
        <3> QED BY <1>1, <3>1, SameUses DEF Base
    <2>4. /\ role \in {"page", "vouchers", "catalog", "log"} => ask.tool.finish = "asRead"
          /\ role = "section" => ask.tool.finish = "section"
          /\ role = "logWindow" => ask.tool.finish = "window"
          /\ Base = IF role = "log" THEN cursor * ask.limit
                     ELSE IF ask.tool.finish = "window" THEN 0 ELSE cursor
        BY <1>2, FinishOf
    <2>5. CASE role \in {"page", "vouchers", "catalog"}
        <3>1. Answers.next = next
            BY <2>4, <2>5 DEF Answers
        <3>2. next = cursor + Len(read)
            BY <1>1, <2>1, <2>5, <3>1 DEF FoundIn
        <3> QED BY <1>2, <2>2, <2>3, <2>4, <2>5, <3>1, <3>2
    <2>6. CASE role = "section"
        <3>1. Answers.next = cursor + Len(read)
            BY <1>1, <2>4, <2>6 DEF Answers
        <3> QED BY <1>2, <2>2, <2>3, <2>4, <2>6, <3>1
    <2>7. CASE role = "log"
        <3>1. Answers.next = next
            BY <2>4, <2>7 DEF Answers
        <3>2. next = cursor + 1 /\ Len(read) = ask.limit
            BY <1>1, <2>1, <2>7, <3>1 DEF FoundIn
        <3>3. (cursor + 1) * ask.limit = cursor * ask.limit + ask.limit /\ cursor * ask.limit \in Nat
            BY <1>2
        <3>4. Base' = cursor * ask.limit + ask.limit /\ Base = cursor * ask.limit
            BY <2>3, <2>4, <2>7, <3>1, <3>2, <3>3
        <3> QED BY <1>2, <2>2, <3>2, <3>3, <3>4
    <2>8. CASE ask.tool.finish = "window" /\ role # "log"
        BY <2>2, <2>3, <2>8
    <2>9. role = "scan" => ask.tool.finish = "window"
        BY <1>4
    <2> QED BY <2>4, <2>5, <2>6, <2>7, <2>8, <2>9 DEF PageRoles
<1>6. ASSUME edits = 0, Trusted(role) PROVE Prefix(Base)'
    <2>1. Base' \in Nat /\ Base' <= Len(rows)
        BY <1>5, <1>6
    <2> QED BY <1>1, <1>2, <2>1, EmptyPrefix DEF WorldOK, world
<1>7. Trusted(role)' <=> Trusted(role)
    BY <1>1 DEF Trusted
<1> QED BY <1>1, <1>3, <1>4, <1>6, <1>7 DEF SourceOf

LEMMA CallSource ==
    ASSUME TypeOK, NewInv, NEW tool \in Tools, Call(tool), NEW role \in PageRoles, Uses(ask.tool, role)'
    PROVE  SourceOf(role)'
<1>1. /\ phase = "new" /\ phase' = "walking" /\ UNCHANGED world /\ UNCHANGED call /\ UNCHANGED history
      /\ cursor' = IF Uses(tool, "events") THEN LastKey ELSE 0
    BY DEF Call
<1>2. /\ next' = End /\ read' = << >> /\ step' = 1 /\ ~cut'
    BY <1>1 DEF NewInv, call
<1>3. ask'.tool = tool /\ TypeOK' /\ AskOK'
    BY <1>1, CallTypes DEF TypeOK
<1>4. cursor' = 0
    <2>1. ~Uses(tool, "events")
        <3> SUFFICES ASSUME Uses(tool, "events") PROVE FALSE
            OBVIOUS
        <3>1. Uses(tool, role) /\ role \in RowRoles /\ "events" \in RowRoles /\ role # "events"
            BY <1>3 DEF Uses, PageRoles, RowRoles
        <3>2. CourseFits(tool)
            BY CourseAssumption
        <3>3. PICK m \in DOMAIN tool.course : tool.course[m].role = role
            BY <3>1 DEF Uses
        <3>4. PICK n \in DOMAIN tool.course : tool.course[n].role = "events"
            BY DEF Uses
        <3>5. StepFits(tool, n)
            BY <3>2, <3>4 DEF CourseFits
        <3>6. m = n
            BY <3>1, <3>3, <3>4, <3>5 DEF StepFits
        <3> QED BY <3>1, <3>3, <3>4, <3>6
    <2> QED BY <1>1, <2>1
<1>5. ~Passed(role)'
    BY <1>2, PassedFirst
<1>6. Base' = 0
    <2>1. ask'.limit \in Nat
        BY <1>3 DEF AskOK
    <2>2. 0 * ask'.limit = 0
        BY <2>1
    <2> QED BY <1>4, <2>2 DEF Base
<1>7. Prefix(Base)'
    <2>1. WorldOK'
        BY <1>3 DEF TypeOK
    <2>2. Len(rows') \in Nat
        BY <2>1 DEF WorldOK
    <2>3. Base' \in Nat /\ Base' <= Len(rows')
        BY <1>6, <2>2
    <2> QED BY <1>2, <2>1, <2>3, EmptyPrefix
<1> QED BY <1>2, <1>4, <1>5, <1>7 DEF SourceOf

LEMMA SourceStep ==
    ASSUME TypeOK, NEW role \in PageRoles, Uses(ask.tool, role), SourceOf(role), CallStep,
           phase' = "walking", TypeOK'
    PROVE  SourceOf(role)'
<1>0. role \in RowRoles \ {"whole"} /\ role # "events" /\ role # "socket"
    BY DEF PageRoles, RowRoles
<1>1. CASE Quiet
    <2>1. /\ Busy /\ Cur.role # role /\ step' = step + 1
          /\ UNCHANGED <<ask, cursor, read, next, cut, trust, edits>> /\ UNCHANGED world
        BY <1>0, <1>1 DEF Quiet, asked, walk, world, history, RowRoles
    <2> QED BY <2>1, SourceQuiet
<1>2. CASE Chooses
    <2>1. /\ Busy /\ Cur.role # role /\ step' = step + 1
          /\ UNCHANGED <<ask, cursor, read, next, cut, trust, edits>> /\ UNCHANGED world
        BY <1>0, <1>2 DEF Chooses, At, asked, world, history, RowRoles
    <2> QED BY <2>1, SourceQuiet
<1>3. CASE Answered
    BY <1>3, AnswerSource
<1>4. CASE Busy /\ Cur.role = role
    <2>1. CASE PageStep
        <3>0. PICK how \in {"page", "vouchers", "catalog"} : \E limit, reply : PageRead(how, limit, reply)
            BY <2>1 DEF PageStep
        <3>1. PICK limit, reply : PageRead(how, limit, reply)
            BY <3>0
        <3>2. how = role
            BY <1>4, <3>1 DEF PageRead, At
        <3>3. SourceOf(how) /\ Uses(ask.tool, how)
            BY <3>2
        <3>4. SourceOf(how)'
            BY <3>1, <3>3, PageReadSource
        <3> QED BY <3>2, <3>4
    <2>2. CASE ScanStep
        <3>0. PICK how \in {"scan", "section"} : \E start, reply : ScanRead(how, start, reply)
            BY <2>2 DEF ScanStep
        <3>1. PICK start, reply : ScanRead(how, start, reply)
            BY <3>0
        <3>2. how = role
            BY <1>4, <3>1 DEF ScanRead, At
        <3>3. SourceOf(how) /\ Uses(ask.tool, how)
            BY <3>2
        <3>4. SourceOf(how)'
            BY <3>1, <3>3, ScanReadSource
        <3> QED BY <3>2, <3>4
    <2>3. CASE LogStep
        <3>0. PICK how \in {"log", "logWindow"} : \E number, size, served, reply : LogRead(how, number, size, served, reply)
            BY <2>3 DEF LogStep
        <3>1. PICK number, size, served, reply : LogRead(how, number, size, served, reply)
            BY <3>0
        <3>2. how = role
            BY <1>4, <3>1 DEF LogRead, At
        <3>3. SourceOf(how) /\ Uses(ask.tool, how)
            BY <3>2
        <3>4. SourceOf(how)'
            BY <3>1, <3>3, LogReadSource
        <3> QED BY <3>2, <3>4
    <2>4. ~(ReadWhole \/ ReadLocal \/ ReadNames \/ Message \/ StreamEnds \/ StreamFails)
        BY <1>0, <1>4 DEF ReadWhole, ReadLocal, ReadNames, Message, StreamEnds, StreamFails, At, RowRoles
    <2>5. ~EventsStep
        BY <1>0, <1>4 DEF EventsStep, EventsPage, At
    <2> QED BY <1>1, <1>2, <1>3, <2>1, <2>2, <2>3, <2>4, <2>5, StepCases
<1> QED BY <1>0, <1>1, <1>2, <1>3, <1>4, StepCasesBeside

LEMMA SourceKept ==
    ASSUME TypeOK, NewInv, SourceInv, [Next]_vars
    PROVE  SourceInv'
<1>0. TypeOK'
    BY NextTypes
<1> SUFFICES ASSUME NEW role \in PageRoles, phase' = "walking", Uses(ask.tool, role)'
             PROVE  SourceOf(role)'
    BY SourceInvNext
<1>1. ASSUME ask' = ask, phase = "walking" PROVE Uses(ask.tool, role) /\ SourceOf(role)
    BY <1>1, SameUses, SourceInvIs
<1>2. CASE UNCHANGED vars
    <2>1. UNCHANGED <<asked, world, walk, call, history>>
        BY <1>2 DEF vars
    <2>2. UNCHANGED <<phase, cursor, step, read, next, cut, ask, rows, key, edits, trust>>
        BY <2>1 DEF walk, call, world, asked, history
    <2>3. SourceOf(role)
        BY <1>1, <2>2
    <2>4. Passed(role)' <=> Passed(role)
        BY <2>2, PassedSame
    <2>5. Base' = Base
        BY <2>2, SameBase
    <2>6. (Prefix(Base)' <=> Prefix(Base)) /\ (ToTheEnd' <=> ToTheEnd)
        BY <2>2, <2>5 DEF Prefix, Reading, Row, ToTheEnd
    <2>7. (FoundIn(role)' <=> FoundIn(role)) /\ (Trusted(role)' <=> Trusted(role))
        BY <2>2, <2>6 DEF FoundIn, Trusted
    <2> QED BY <2>2, <2>3, <2>4, <2>6, <2>7 DEF SourceOf
<1>3. CASE Begin
    <2>1. PICK tool \in Tools : CallUnknown(tool) \/ Call(tool)
        BY <1>3 DEF Begin
    <2>2. ~CallUnknown(tool)
        BY DEF CallUnknown
    <2> QED BY <2>1, <2>2, CallSource
<1>4. CASE CallStep
    <2>1. ask' = ask /\ phase = "walking"
        BY <1>4, CallStepAsks, CallStepTypes
    <2> QED BY <1>0, <1>1, <1>4, <2>1, SourceStep
<1>5. CASE Edit
    <2>1. /\ phase = "walking" /\ edits' # 0
          /\ UNCHANGED asked /\ UNCHANGED walk /\ UNCHANGED call /\ UNCHANGED history
        BY <1>5, EditShape DEF TypeOK
    <2>2. UNCHANGED <<cursor, step, read, next, cut, ask>>
        BY <2>1 DEF walk, call, asked
    <2>3. SourceOf(role)
        BY <1>1, <2>1, <2>2
    <2>4. Passed(role)' <=> Passed(role)
        BY <2>2, PassedSame
    <2> QED BY <2>1, <2>2, <2>3, <2>4 DEF SourceOf
<1> QED BY <1>2, <1>3, <1>4, <1>5 DEF Next

-----------------------------------------------------------------------------
(***************************************************************************)
(* Lists that come whole, and the second view of the cameras.              *)
(***************************************************************************)
WholeRead == read = Reading(rows) \/ (shuffled /\ read = Reading(Reverse(rows)))
LocalKnown == local.state = "full" => ask.local /\ local.ids = There
LocalShape == local.state \in {"off", "part", "full", "down"} /\ (local.state = "off" => local.ids = {})
WholeOf ==
    /\ ~Passed("whole") => read = << >>
    /\ ~cut /\ next = End
    /\ edits = 0 => (Passed("whole") => WholeRead) /\ LocalKnown
    /\ LocalShape
    /\ Passed("local") /\ local.state = "off" => ~ask.local

LEMMA WholeInvIs == WholeInv <=> (phase = "walking" /\ Uses(ask.tool, "whole") => WholeOf)
BY DEF WholeInv, WholeOf, WholeRead, LocalKnown, LocalShape

LEMMA WholeInvNext ==
    ASSUME phase' = "walking" /\ Uses(ask.tool, "whole")' => WholeOf'
    PROVE  WholeInv'
BY DEF WholeInv, WholeOf, WholeRead, LocalKnown, LocalShape

\* What was read shows every row that is there, with its key.
ShowsAll == IdsOf(read) = There /\ \A n \in DOMAIN read : read[n].key = key[read[n].id]

LEMMA WholeShowsAll ==
    ASSUME WorldOK, WholeRead
    PROVE  ShowsAll
<1>1. rows \in Seq(Ids) /\ key \in [Ids -> Keys] /\ DOMAIN rows = 1..Len(rows)
    BY DEF WorldOK
<1>2. ASSUME NEW s \in Seq(Ids), read = Reading(s), {s[n] : n \in DOMAIN s} = There PROVE ShowsAll
    <2>1. /\ DOMAIN Reading(s) = 1..Len(s)
          /\ \A n \in 1..Len(s) : Reading(s)[n].id = s[n] /\ Reading(s)[n].key = key[s[n]]
          /\ IdsOf(Reading(s)) = {s[n] : n \in DOMAIN s}
        BY <1>1, ReadingShape
    <2> QED BY <1>2, <2>1 DEF ShowsAll
<1>3. {rows[n] : n \in DOMAIN rows} = There
    BY DEF There
<1>4. CASE read = Reading(rows)
    BY <1>1, <1>2, <1>3, <1>4
<1>5. CASE read = Reading(Reverse(rows))
    <2> DEFINE s == Reverse(rows)
    <2>1. /\ s \in Seq(Ids) /\ Len(s) = Len(rows) /\ Len(rows) \in Nat
          /\ \A i \in 1..Len(rows) : s[i] = rows[(Len(rows) - i) + 1] /\ (Len(rows) - i) + 1 \in 1..Len(rows)
        BY <1>1, ReverseShape
    <2> HIDE DEF s
    <2>2. DOMAIN s = 1..Len(rows)
        BY <2>1
    <2>3. \A n \in DOMAIN s : s[n] \in There
        BY <1>1, <2>1, <2>2 DEF There
    <2>4. \A i \in There : \E n \in DOMAIN s : s[n] = i
        <3> SUFFICES ASSUME NEW m \in DOMAIN rows PROVE \E n \in DOMAIN s : s[n] = rows[m]
            BY DEF There
        <3> DEFINE k == (Len(rows) - m) + 1
        <3>1. k \in 1..Len(rows) /\ (Len(rows) - k) + 1 = m
            BY <1>1, <2>1
        <3> HIDE DEF k
        <3>2. s[k] = rows[m]
            BY <2>1, <3>1
        <3> QED BY <2>2, <3>1, <3>2
    <2>5. {s[n] : n \in DOMAIN s} = There
        BY <2>3, <2>4
    <2>6. read = Reading(s)
        BY <1>5 DEF s
    <2> QED BY <1>2, <2>1, <2>5, <2>6
<1> QED BY <1>4, <1>5 DEF WholeRead

LEMMA ViewState ==
    ASSUME NEW listed, NEW view \in Views(listed)
    PROVE  /\ view.state \in {"off", "part", "full", "down"}
           /\ view.state = "off" => view.ids = {}
<1>1. CASE ~ask.local
    <2>1. view = NoLocal
        BY <1>1 DEF Views
    <2> QED BY <2>1 DEF NoLocal
<1>2. CASE ask.local
    <2>1. view \in LocalViews(listed)
        BY <1>2 DEF Views
    <2>2. \/ \E known : view = [state |-> LocalState(known, listed), ids |-> known]
          \/ view = [state |-> "down", ids |-> {}]
        BY <2>1 DEF LocalViews
    <2> QED BY <2>2 DEF LocalState
<1> QED BY <1>1, <1>2

\* Beside a list that comes whole, no other rows are read.
LEMMA BesideWhole ==
    ASSUME TypeOK, Busy, Uses(ask.tool, "whole")
    PROVE  Cur.role \notin RowRoles \ {"whole"}
<1>1. AskOK
    BY InCourse
<1> QED BY <1>1, CurIsUsed, OneSource DEF RowRoles

LEMMA WholeQuiet ==
    ASSUME TypeOK, WholeOf, Busy, Cur.role \notin {"whole", "local"}, step' = step + 1,
           UNCHANGED <<ask, read, next, cut, local, shuffled, edits>>, UNCHANGED world
    PROVE  WholeOf'
<1>1. (Passed("whole")' <=> Passed("whole")) /\ (Passed("local")' <=> Passed("local"))
    BY PassedAdvance
<1>2. rows' = rows /\ key' = key /\ There' = There
    BY DEF world, There
<1>3. (WholeRead' <=> WholeRead) /\ (LocalKnown' <=> LocalKnown) /\ (LocalShape' <=> LocalShape)
    BY <1>2 DEF WholeRead, LocalKnown, LocalShape, Reading, Row
<1> QED BY <1>1, <1>3 DEF WholeOf

LEMMA WholeStep ==
    ASSUME TypeOK, Uses(ask.tool, "whole"), WholeOf, CallStep, phase' = "walking"
    PROVE  WholeOf'
<1>1. CASE Quiet
    <2>1. /\ Busy /\ Cur.role \notin {"whole", "local"} /\ step' = step + 1
          /\ UNCHANGED <<ask, read, next, cut, local, shuffled, edits>> /\ UNCHANGED world
        BY <1>1 DEF Quiet, asked, walk, world, history
    <2> QED BY <2>1, WholeQuiet
<1>2. CASE Chooses
    <2>1. /\ Busy /\ Cur.role \notin {"whole", "local"} /\ step' = step + 1
          /\ UNCHANGED <<ask, read, next, cut, local, shuffled, edits>> /\ UNCHANGED world
        BY <1>2 DEF Chooses, At, asked, world, history
    <2> QED BY <2>1, WholeQuiet
<1>3. CASE ReadWhole
    <2>1. /\ Busy /\ Cur.role = "whole" /\ step' = step + 1
          /\ UNCHANGED <<ask, next, cut, local, edits>> /\ UNCHANGED world
        BY <1>3 DEF ReadWhole, At, Advance, asked, world, walk
    <2>2. PICK order \in {rows, Reverse(rows)} :
              read' = Reading(order) /\ shuffled' = (shuffled \/ order # rows)
        BY <1>3 DEF ReadWhole
    <2>3. Passed("whole")' /\ (Passed("local")' <=> Passed("local"))
        BY <2>1, PassedAdvance
    <2>4. rows' = rows /\ key' = key /\ There' = There
        BY <2>1 DEF world, There
    <2>5. WholeRead'
        <3>1. CASE order = rows
            BY <2>2, <2>4, <3>1 DEF WholeRead, Reading, Row
        <3>2. CASE order # rows
            <4>1. order = Reverse(rows) /\ shuffled'
                BY <2>2, <3>2
            <4> QED BY <2>2, <2>4, <4>1 DEF WholeRead, Reading, Row
        <3> QED BY <3>1, <3>2
    <2>6. (LocalKnown' <=> LocalKnown) /\ (LocalShape' <=> LocalShape)
        BY <2>1, <2>4 DEF LocalKnown, LocalShape
    <2> QED BY <2>1, <2>3, <2>5, <2>6 DEF WholeOf
<1>4. CASE ReadLocal
    <2>1. /\ Busy /\ Cur.role = "local" /\ step' = step + 1 /\ local' \in Views(IdsOf(read))
          /\ UNCHANGED <<ask, read, next, cut, shuffled, edits>> /\ UNCHANGED world
        BY <1>4 DEF ReadLocal, At, Advance, asked, world, walk, history
    <2>2. (Passed("whole")' <=> Passed("whole")) /\ Passed("local")'
        BY <2>1, PassedAdvance
    <2>3. Passed("whole")
        <3>1. StepFits(ask.tool, step)
            BY <2>1, InCourse
        <3>2. Behind(ask.tool, step, "whole")
            BY <2>1, <3>1 DEF StepFits, Cur, Course
        <3> QED BY <3>2 DEF Behind, Passed, Course
    <2>4. rows' = rows /\ key' = key /\ There' = There /\ WorldOK
        BY <2>1 DEF world, There, TypeOK
    <2>5. /\ local'.state = "full" => ask.local /\ local'.ids = IdsOf(read)
          /\ ask.local => local'.state # "off"
        BY <2>1, <2>4, ViewTypes
    <2>6. LocalShape'
        <3>1. local'.state \in {"off", "part", "full", "down"} /\ (local'.state = "off" => local'.ids = {})
            BY <2>1, ViewState
        <3> QED BY <3>1 DEF LocalShape
    <2>7. ASSUME edits = 0 PROVE WholeRead' /\ LocalKnown'
        <3>1. WholeRead
            BY <2>3, <2>7 DEF WholeOf
        <3>2. IdsOf(read) = There
            BY <2>4, <3>1, WholeShowsAll DEF ShowsAll
        <3>3. WholeRead'
            BY <2>1, <2>4, <3>1 DEF WholeRead, Reading, Row
        <3>4. LocalKnown'
            BY <2>1, <2>4, <2>5, <3>2 DEF LocalKnown
        <3> QED BY <3>3, <3>4
    <2> QED BY <2>1, <2>2, <2>3, <2>5, <2>6, <2>7 DEF WholeOf
<1>5. CASE ReadNames
    <2>1. /\ Busy /\ Cur.role = "names" /\ step' = step + 1 /\ local' \in Views(There)
          /\ read' = Reading(rows)
          /\ UNCHANGED <<ask, next, cut, shuffled, edits>> /\ UNCHANGED world
        BY <1>5 DEF ReadNames, At, Advance, asked, world, walk, history
    <2>2. (Passed("whole")' <=> Passed("whole")) /\ (Passed("local")' <=> Passed("local"))
        BY <2>1, PassedAdvance
    <2>3. Passed("whole") /\ ~Passed("local")
        <3>1. StepFits(ask.tool, step) /\ step \in DOMAIN Course /\ AskOK /\ step \in Nat
            BY <2>1, InCourse
        <3>2. Behind(ask.tool, step, "whole") /\ ~Uses(ask.tool, "local")
            BY <2>1, <3>1 DEF StepFits, Cur, Course
        <3>3. 1..(step - 1) \subseteq DOMAIN Course
            BY <3>1, ToolShape
        <3> QED BY <3>2, <3>3 DEF Behind, Passed, Course, Uses
    <2>4. rows' = rows /\ key' = key /\ There' = There /\ WorldOK
        BY <2>1 DEF world, There, TypeOK
    <2>5. local'.state = "full" => ask.local /\ local'.ids = There
        BY <2>1, <2>4, ViewTypes
    <2>6. LocalShape'
        <3>1. local'.state \in {"off", "part", "full", "down"} /\ (local'.state = "off" => local'.ids = {})
            BY <2>1, ViewState
        <3> QED BY <3>1 DEF LocalShape
    <2>7. WholeRead' /\ LocalKnown'
        BY <2>1, <2>4, <2>5 DEF WholeRead, LocalKnown, Reading, Row
    <2> QED BY <2>1, <2>2, <2>3, <2>6, <2>7 DEF WholeOf
<1>6. CASE Answered
    <2>1. step' = 1 /\ read' = << >> /\ next' = End /\ cut' = FALSE /\ local' = NoLocal
        BY <1>6 DEF Answered
    <2>2. ~Passed("whole")' /\ ~Passed("local")'
        BY <2>1, PassedFirst
    <2>3. LocalShape' /\ LocalKnown'
        BY <2>1 DEF LocalShape, LocalKnown, NoLocal
    <2> QED BY <2>1, <2>2, <2>3 DEF WholeOf
<1>7. ~(PageStep \/ ScanStep \/ LogStep \/ EventsStep)
    BY BesideWhole DEF PageStep, ScanStep, LogStep, EventsStep, PageRead, ScanRead, LogRead, EventsPage,
                       At, RowRoles
<1>8. ~(Message \/ StreamEnds \/ StreamFails)
    BY BesideWhole DEF Message, StreamEnds, StreamFails, At, RowRoles
<1> QED BY <1>1, <1>2, <1>3, <1>4, <1>5, <1>6, <1>7, <1>8, StepCases

LEMMA WholeKept ==
    ASSUME TypeOK, NewInv, WholeInv, [Next]_vars
    PROVE  WholeInv'
<1> SUFFICES ASSUME phase' = "walking", Uses(ask.tool, "whole")' PROVE WholeOf'
    BY WholeInvNext
<1>1. ASSUME ask' = ask, phase = "walking" PROVE Uses(ask.tool, "whole") /\ WholeOf
    BY <1>1, SameUses, WholeInvIs
<1>2. CASE UNCHANGED vars
    <2>1. UNCHANGED <<asked, world, walk, call, history>>
        BY <1>2 DEF vars
    <2>2. UNCHANGED <<phase, cursor, step, read, next, cut, local, ask, rows, key, edits, shuffled>>
        BY <2>1 DEF walk, call, world, asked, history
    <2>3. WholeOf
        BY <1>1, <2>2
    <2>4. (Passed("whole")' <=> Passed("whole")) /\ (Passed("local")' <=> Passed("local"))
        BY <2>2, PassedSame
    <2>5. There' = There
        BY <2>2 DEF There
    <2>6. (WholeRead' <=> WholeRead) /\ (LocalKnown' <=> LocalKnown) /\ (LocalShape' <=> LocalShape)
        BY <2>2, <2>5 DEF WholeRead, LocalKnown, LocalShape, Reading, Row
    <2> QED BY <2>2, <2>3, <2>4, <2>6 DEF WholeOf
<1>3. CASE Begin
    <2>1. PICK tool \in Tools : CallUnknown(tool) \/ Call(tool)
        BY <1>3 DEF Begin
    <2>2. Call(tool)
        BY <2>1 DEF CallUnknown
    <2>3. UNCHANGED call /\ phase = "new"
        BY <2>2 DEF Call
    <2>4. next' = End /\ read' = << >> /\ step' = 1 /\ ~cut' /\ local' = NoLocal
        BY <2>3 DEF NewInv, call
    <2>5. ~Passed("whole")' /\ ~Passed("local")'
        BY <2>4, PassedFirst
    <2>6. LocalShape' /\ LocalKnown'
        BY <2>4 DEF LocalShape, LocalKnown, NoLocal
    <2> QED BY <2>4, <2>5, <2>6 DEF WholeOf
<1>4. CASE CallStep
    <2>1. ask' = ask /\ phase = "walking"
        BY <1>4, CallStepAsks, CallStepTypes
    <2> QED BY <1>1, <1>4, <2>1, WholeStep
<1>5. CASE Edit
    <2>1. /\ phase = "walking" /\ edits' # 0
          /\ UNCHANGED asked /\ UNCHANGED walk /\ UNCHANGED call /\ UNCHANGED history
        BY <1>5, EditShape DEF TypeOK
    <2>2. UNCHANGED <<step, read, next, cut, local, ask>>
        BY <2>1 DEF call, asked
    <2>3. WholeOf
        BY <1>1, <2>1, <2>2
    <2>4. (Passed("whole")' <=> Passed("whole")) /\ (Passed("local")' <=> Passed("local"))
        BY <2>2, PassedSame
    <2>5. LocalShape' <=> LocalShape
        BY <2>2 DEF LocalShape
    <2> QED BY <2>1, <2>2, <2>3, <2>4, <2>5 DEF WholeOf
<1> QED BY <1>2, <1>3, <1>4, <1>5 DEF Next

-----------------------------------------------------------------------------
(***************************************************************************)
(* A name selects a row only when no other row bears it.                   *)
(***************************************************************************)

\* A scan that came to its end shows every row.
LEMMA ScanShowsAll ==
    ASSUME TypeOK, phase = "walking", edits = 0, trust = "honest", ~cut, ask.tool.finish = "record",
           Uses(ask.tool, "scan"), Passed("scan"), SourceInv
    PROVE  ShowsAll
<1>1. SourceOf("scan")
    BY SourceInvIs DEF PageRoles
<1>2. AskOK /\ WorldOK /\ cursor \in Nat /\ read \in Seq(RowRecord)
    BY DEF TypeOK, CallOK
<1>3. Base = 0
    BY <1>1, <1>2, FinishOf DEF SourceOf, PageRoles
<1>4. Prefix(0) /\ Len(read) = Len(rows)
    <2>1. Trusted("scan")
        BY DEF Trusted
    <2>2. Prefix(Base) /\ FoundIn("scan")
        BY <1>1, <2>1 DEF SourceOf
    <2>3. ToTheEnd
        BY <2>2 DEF FoundIn
    <2>4. Len(read) \in Nat
        BY <1>2
    <2> QED BY <1>3, <2>2, <2>3, <2>4 DEF ToTheEnd
<1>5. Spells(read, rows, key, 0)
    BY <1>2, <1>4, PrefixSpells
<1>6. rows \in Seq(Ids) /\ DOMAIN rows = 1..Len(rows) /\ DOMAIN read = 1..Len(rows)
    BY <1>2, <1>4 DEF WorldOK
<1>7. \A n \in 1..Len(rows) : read[n].id = rows[n] /\ read[n].key = key[rows[n]]
    <2>1. \A n \in 1..Len(rows) : 0 + n = n
        BY <1>6
    <2> QED BY <1>4, <1>5, <2>1 DEF Spells
<1>8. IdsOf(read) = There
    BY <1>6, <1>7 DEF IdsOf, There
<1>9. \A n \in DOMAIN read : read[n].key = key[read[n].id]
    BY <1>6, <1>7
<1> QED BY <1>8, <1>9 DEF ShowsAll

\* Where every row is shown, the bearers of the selector are known.
LEMMA BearersKnown ==
    ASSUME ShowsAll, NEW rule
    PROVE  Bearers(rule) = {i \in There : /\ key[i] = ask.selector
                                          /\ rule \in CameraRules => i \in ask.public \cup local.ids}
<1>1. ASSUME NEW i \in There PROVE read[KeyRead(i)].key = key[i]
    <2>1. \E n \in DOMAIN read : read[n].id = i
        BY DEF ShowsAll, IdsOf
    <2>2. KeyRead(i) \in DOMAIN read /\ read[KeyRead(i)].id = i
        BY <2>1 DEF KeyRead
    <2> QED BY <2>2 DEF ShowsAll
<1>2. Named(rule) = {i \in There : rule \in CameraRules => i \in ask.public \cup local.ids}
    BY DEF Named, ShowsAll
<1> QED BY <1>1, <1>2 DEF Bearers

\* The rows a rule looks at are those that UniqueChoice speaks of.
LEMMA RuleShowsAll ==
    ASSUME TypeOK, SourceInv, WholeInv, At("pick"), edits = 0, trust = "honest",
           NamesAreComplete(Cur.rule)
    PROVE  /\ ShowsAll
           /\ \A i \in There : (Cur.rule \in CameraRules => i \in ask.public \cup local.ids)
                                  <=> (ask.local \/ i \in ask.public)
<1> DEFINE rule == Cur.rule
<1>1. Busy /\ Cur.role = "pick"
    BY DEF At
<1>2. /\ AskOK /\ WorldOK /\ phase = "walking" /\ step \in DOMAIN Course /\ step \in Nat
      /\ Cur \in StepRecord /\ StepFits(ask.tool, step)
    BY <1>1, InCourse
<1>3. There \subseteq Ids
    <2>1. rows \in Seq(Ids)
        BY <1>2 DEF WorldOK
    <2> QED BY <2>1 DEF There
<1>4. /\ ask.tool.finish = "record" /\ rule # "none"
      /\ rule \in {"client", "camera", "eventCamera"} => Behind(ask.tool, step, "whole")
      /\ rule \in {"device", "address"} => Behind(ask.tool, step, "scan")
      /\ rule \in {"client", "device"} => ~Uses(ask.tool, "local") /\ ~Uses(ask.tool, "names")
      /\ rule = "camera" => Behind(ask.tool, step, "local")
    BY <1>1, <1>2 DEF StepFits, Cur, Course
<1>5. rule \in {"client", "device", "camera", "eventCamera", "address"}
    BY <1>2, <1>4 DEF StepRecord
<1>6. \A role : Behind(ask.tool, step, role) => Passed(role) /\ Uses(ask.tool, role)
    <2>1. 1..(step - 1) \subseteq DOMAIN Course
        BY <1>2, ToolShape
    <2> QED BY <2>1 DEF Behind, Passed, Uses, Course
<1>7. ASSUME Behind(ask.tool, step, "whole") PROVE WholeOf /\ WholeRead
    <2>1. Passed("whole") /\ Uses(ask.tool, "whole")
        BY <1>6, <1>7
    <2>2. WholeOf
        BY <1>2, <2>1, WholeInvIs
    <2> QED BY <2>1, <2>2 DEF WholeOf
<1> HIDE DEF rule
<1>8. CASE rule \in {"client", "device"}
    <2>1. ~ask.local /\ ask.public = Ids
        BY <1>2, <1>4, <1>8 DEF AskOK
    <2>2. ShowsAll
        <3>1. CASE rule = "client"
            BY <1>2, <1>4, <1>7, <3>1, WholeShowsAll
        <3>2. CASE rule = "device"
            <4>1. ~cut
                BY <3>2 DEF NamesAreComplete, rule
            <4> QED BY <1>2, <1>4, <1>6, <3>2, <4>1, ScanShowsAll
        <3> QED BY <1>8, <3>1, <3>2
    <2>3. rule \notin CameraRules
        BY <1>8 DEF CameraRules
    <2> QED BY <1>3, <2>1, <2>2, <2>3 DEF rule
<1>9. CASE rule \in {"camera", "eventCamera"}
    <2>1. ShowsAll /\ WholeOf
        BY <1>2, <1>4, <1>7, <1>9, WholeShowsAll
    <2>2. rule \in CameraRules
        BY <1>9 DEF CameraRules
    <2>3. CASE local.state = "full"
        <3>1. ask.local /\ local.ids = There
            BY <2>1, <2>3 DEF WholeOf, LocalKnown
        <3> QED BY <2>1, <2>2, <3>1 DEF rule
    <2>4. CASE local.state # "full"
        <3>1. rule = "camera" /\ local.state \notin {"part", "down"}
            BY <1>9, <2>4 DEF NamesAreComplete, rule
        <3>2. local.state = "off" /\ local.ids = {}
            BY <2>1, <2>4, <3>1 DEF WholeOf, LocalShape
        <3>3. ~ask.local
            BY <1>4, <1>6, <2>1, <3>1, <3>2 DEF WholeOf
        <3> QED BY <2>1, <2>2, <3>2, <3>3 DEF rule
    <2> QED BY <2>3, <2>4
<1>10. rule # "address"
    BY DEF NamesAreComplete, rule
<1> QED BY <1>5, <1>8, <1>9, <1>10

LEMMA ChoiceIsUnique ==
    ASSUME TypeOK, SourceInv, WholeInv, Chooses, edits = 0, trust = "honest"
    PROVE  UniqueChoice'
<1>1. /\ At("pick") /\ chosen' \in Picked(Cur.rule)
      /\ ask' = ask /\ rows' = rows /\ key' = key
    BY DEF Chooses, asked, world
<1>2. There' = There
    BY <1>1 DEF There
<1>3. CASE ask.selector \in IdsOf(read)
    BY <1>1, <1>3 DEF Picked, UniqueChoice
<1>4. CASE ask.selector \notin IdsOf(read)
    <2>1. NamesAreComplete(Cur.rule) /\ Cardinality(Bearers(Cur.rule)) = 1 /\ chosen' \in Bearers(Cur.rule)
        BY <1>1, <1>4 DEF Picked
    <2>2. /\ ShowsAll
          /\ \A i \in There : (Cur.rule \in CameraRules => i \in ask.public \cup local.ids)
                                 <=> (ask.local \/ i \in ask.public)
        BY <1>1, <2>1, RuleShowsAll
    <2>3. Bearers(Cur.rule) = {i \in There : /\ key[i] = ask.selector
                                             /\ Cur.rule \in CameraRules => i \in ask.public \cup local.ids}
        BY <2>2, BearersKnown
    <2>4. Bearers(Cur.rule) = {i \in There : key[i] = ask.selector /\ (ask.local \/ i \in ask.public)}
        BY <2>2, <2>3
    <2>5. Bearers(Cur.rule) \subseteq Ids /\ IsFiniteSet(Ids)
        BY <2>4, ReadToolsAssumption DEF There, TypeOK, WorldOK
    <2>6. IsFiniteSet(Bearers(Cur.rule))
        BY <2>5, FS_Subset
    <2>7. \E x : Bearers(Cur.rule) = {x}
        BY <2>1, <2>6, FS_Singleton
    <2>8. Bearers(Cur.rule) = {chosen'}
        BY <2>1, <2>7
    <2>9. ask.selector \notin There
        BY <1>4, <2>2 DEF ShowsAll
    <2> QED BY <1>1, <1>2, <2>4, <2>8, <2>9 DEF UniqueChoice
<1> QED BY <1>3, <1>4

\* What every step of a call leaves alone: the collection and, but for one
\* step, the choice.  Pages that were wrong and lists that came in another
\* order are not forgotten.
Unforgotten ==
    /\ UNCHANGED world /\ (chosen' = chosen \/ Chooses)
    /\ trust' = "honest" => trust = "honest"
    /\ trust' \in {"honest", "odd"} => trust \in {"honest", "odd"}
    /\ shuffled => shuffled'

LEMMA CallStepKeeps ==
    ASSUME TypeOK, CallStep, phase' # "refused"
    PROVE  Unforgotten
<1>1. ASSUME UNCHANGED <<trust, shuffled, chosen>>, UNCHANGED world PROVE Unforgotten
    BY <1>1 DEF Unforgotten
<1>2. ASSUME NEW b, trust' = Worse(trust, b), UNCHANGED <<shuffled, chosen>>, UNCHANGED world
      PROVE  Unforgotten
    <2>1. trust \in {"honest", "odd", "understated"}
        BY DEF TypeOK
    <2>2. /\ trust' = "honest" => trust = "honest"
          /\ trust' \in {"honest", "odd"} => trust \in {"honest", "odd"}
        BY <1>2, <2>1 DEF Worse
    <2> QED BY <1>2, <2>2 DEF Unforgotten
<1>3. CASE Quiet \/ ReadLocal \/ ReadNames \/ EventsStep \/ StreamEnds \/ StreamFails
    BY <1>1, <1>3 DEF Quiet, ReadLocal, ReadNames, EventsStep, EventsPage, StreamEnds, StreamFails, walk, history
<1>4. CASE Chooses
    BY <1>4 DEF Unforgotten, Chooses, history
<1>5. CASE Message
    BY <1>1, <1>5 DEF Message, walk
<1>6. CASE Answered
    BY <1>1, <1>6 DEF Answered, history
<1>7. CASE ReadWhole
    BY <1>7 DEF ReadWhole, Unforgotten, walk
<1>8. CASE PageStep
    BY <1>2, <1>8 DEF PageStep, PageRead, walk
<1>9. CASE ScanStep
    BY <1>2, <1>9 DEF ScanStep, ScanRead, walk
<1>10. CASE LogStep
    BY <1>2, <1>10 DEF LogStep, LogRead, walk
<1> QED BY <1>3, <1>4, <1>5, <1>6, <1>7, <1>8, <1>9, <1>10, StepCases

LEMMA SelectKept ==
    ASSUME TypeOK, NewInv, SourceInv, WholeInv, SelectInv, [Next]_vars
    PROVE  SelectInv'
<1> SUFFICES ASSUME phase' \in {"walking", "done"}, edits' = 0, trust' = "honest", chosen' # None
             PROVE  UniqueChoice'
    BY DEF SelectInv
<1>1. ASSUME phase \in {"walking", "done"}, edits = 0, trust = "honest",
             UNCHANGED <<chosen, ask, rows, key>>
      PROVE  UniqueChoice'
    <2>1. UniqueChoice
        BY <1>1 DEF SelectInv
    <2>2. There' = There
        BY <1>1 DEF There
    <2> QED BY <1>1, <2>1, <2>2 DEF UniqueChoice
<1>2. CASE UNCHANGED vars
    <2>1. UNCHANGED <<asked, world, walk, call, history>>
        BY <1>2 DEF vars
    <2>2. UNCHANGED <<phase, edits, trust, chosen, ask, rows, key>>
        BY <2>1 DEF walk, world, asked, history
    <2> QED BY <1>1, <2>2
<1>3. ~Begin
    <2> SUFFICES ASSUME Begin PROVE FALSE
        OBVIOUS
    <2>1. PICK tool \in Tools : CallUnknown(tool) \/ Call(tool)
        BY DEF Begin
    <2>2. phase = "new" /\ chosen' = chosen
        BY <2>1 DEF CallUnknown, Call
    <2> QED BY <2>2 DEF NewInv
<1>4. ~Edit
    BY EditShape DEF TypeOK
<1>5. CASE CallStep
    <2>1. ask' = ask /\ phase = "walking" /\ Unforgotten
        BY <1>5, CallStepAsks, CallStepTypes, CallStepKeeps
    <2>2. UNCHANGED <<rows, key, edits>> /\ trust = "honest"
        BY <2>1 DEF Unforgotten, world
    <2>3. CASE Chooses
        BY <2>2, <2>3, ChoiceIsUnique
    <2>4. CASE chosen' = chosen
        BY <1>1, <2>1, <2>2, <2>4
    <2> QED BY <2>1, <2>3, <2>4 DEF Unforgotten
<1> QED BY <1>2, <1>3, <1>4, <1>5 DEF Next

\* What a selector picks is unique among all rows (SelectedIsUnique):
\* select_devices, select_clients, camera_by_selector_ref and
\* resolve_camera_id refuse a name as long as an unread row could bear it.
THEOREM SelectionsUnique == Spec => []SelectedIsUnique
<1>1. Init => SourceInv /\ WholeInv /\ SelectInv
    BY DEF Init, SourceInv, WholeInv, SelectInv
<1>2. /\ TypeOK /\ NewInv /\ SourceInv /\ WholeInv /\ SelectInv /\ [Next]_vars
      => SourceInv' /\ WholeInv' /\ SelectInv'
    BY SourceKept, WholeKept, SelectKept
<1>3. SelectInv => SelectedIsUnique
    BY DEF SelectInv, SelectedIsUnique, UniqueChoice, Finished
<1> QED BY <1>1, <1>2, <1>3, ReadTypesHold, PTL DEF Spec

-----------------------------------------------------------------------------
(***************************************************************************)
(* A sort that leaves no tie has one result, in whatever order the rows    *)
(* came.                                                                   *)
(***************************************************************************)
Precedes(order, x, y) ==
    CASE order = "nameAndId" -> ByNameAndId(x, y)
      [] order = "name" -> ByName(x, y)
      [] order = "newest" -> NewestFirst(x, y)
      [] order = "none" -> FALSE
Rising(t, order) == \A m, n \in 1..Len(t) : m < n => Precedes(order, t[m], t[n])
SameRows(t, u) ==
    /\ \A m \in 1..Len(t) : \E n \in 1..Len(u) : t[m] = u[n]
    /\ \A n \in 1..Len(u) : \E m \in 1..Len(t) : t[m] = u[n]

LEMMA PrecedesOnce ==
    ASSUME NEW order \in {"none", "name", "nameAndId", "newest"}, NEW x \in RowRecord, NEW y \in RowRecord,
           Precedes(order, x, y)
    PROVE  ~Precedes(order, y, x)
<1>1. x.key \in Nat /\ y.key \in Nat /\ x.id \in Nat /\ y.id \in Nat
    BY Constants DEF RowRecord
<1>2. CASE order = "nameAndId"
    BY <1>1, <1>2 DEF Precedes, ByNameAndId
<1>3. CASE order = "name"
    BY <1>1, <1>3 DEF Precedes, ByName
<1>4. CASE order = "newest"
    BY <1>1, <1>4 DEF Precedes, NewestFirst
<1>5. CASE order = "none"
    BY <1>5 DEF Precedes
<1> QED BY <1>2, <1>3, <1>4, <1>5

\* Of two rising sequences of the same rows, the first begins the second.
LEMMA RisingAgrees ==
    ASSUME NEW order \in {"none", "name", "nameAndId", "newest"},
           NEW t \in Seq(RowRecord), NEW u \in Seq(RowRecord),
           Rising(t, order), Rising(u, order), SameRows(t, u)
    PROVE  \A n \in 1..Len(t) : n <= Len(u) /\ t[n] = u[n]
<1> DEFINE Bad == {n \in 1..Len(t) : ~(n <= Len(u) /\ t[n] = u[n])}
<1>1. Len(t) \in Nat /\ Len(u) \in Nat
    OBVIOUS
<1>2. (\A n \in 1..Len(t) : t[n] \in RowRecord) /\ (\A n \in 1..Len(u) : u[n] \in RowRecord)
    OBVIOUS
<1> SUFFICES ASSUME Bad # {} PROVE FALSE
    OBVIOUS
<1>3. PICK n \in Bad : \A m \in Bad : n <= m
    <2>1. Bad \subseteq Nat
        BY <1>1
    <2> HIDE DEF Bad
    <2> QED BY <2>1, LeastNatural
<1>4. n \in 1..Len(t) /\ n \in Nat /\ ~(n <= Len(u) /\ t[n] = u[n])
    BY <1>1, <1>3
<1>5. \A m \in 1..Len(t) : m < n => m <= Len(u) /\ t[m] = u[m]
    <2>1. \A m \in 1..Len(t) : m < n => m \notin Bad
        BY <1>1, <1>3, <1>4
    <2> QED BY <2>1
<1> HIDE DEF Bad
<1>6. PICK k \in 1..Len(u) : t[n] = u[k]
    BY <1>4 DEF SameRows
<1>7. \A x \in RowRecord : ~Precedes(order, x, x)
    BY PrecedesOnce
<1>8. ~(k < n)
    <2> SUFFICES ASSUME k < n PROVE FALSE
        OBVIOUS
    <2>1. k \in 1..Len(t)
        BY <1>1, <1>4, <1>6
    <2>2. t[k] = t[n] /\ Precedes(order, t[k], t[n])
        BY <1>4, <1>5, <1>6, <2>1 DEF Rising
    <2> QED BY <1>2, <1>4, <1>7, <2>2
<1>9. n \in 1..Len(u) /\ n < k
    <2>1. k # n
        BY <1>4, <1>6
    <2> QED BY <1>1, <1>4, <1>6, <1>8, <2>1
<1>10. PICK j \in 1..Len(t) : t[j] = u[n]
    BY <1>9 DEF SameRows
<1>11. ~(j < n)
    <2> SUFFICES ASSUME j < n PROVE FALSE
        OBVIOUS
    <2>1. j \in 1..Len(u)
        BY <1>1, <1>9, <1>10
    <2>2. u[j] = u[n] /\ Precedes(order, u[j], u[n])
        BY <1>5, <1>9, <1>10, <2>1 DEF Rising
    <2> QED BY <1>2, <1>7, <1>9, <2>2
<1>12. n < j
    <2>1. j # n
        BY <1>1, <1>4, <1>9, <1>10
    <2> QED BY <1>1, <1>4, <1>10, <1>11, <2>1
<1>13. Precedes(order, t[n], t[j])
    BY <1>4, <1>10, <1>12 DEF Rising
<1>14. Precedes(order, t[j], t[n])
    <2>1. Precedes(order, u[n], u[k])
        BY <1>6, <1>9 DEF Rising
    <2> QED BY <1>6, <1>10, <2>1
<1> QED BY <1>2, <1>4, <1>10, <1>13, <1>14, PrecedesOnce

LEMMA OneRising ==
    ASSUME NEW order \in {"none", "name", "nameAndId", "newest"},
           NEW t \in Seq(RowRecord), NEW u \in Seq(RowRecord),
           Rising(t, order), Rising(u, order), SameRows(t, u)
    PROVE  t = u
<1>1. \A n \in 1..Len(t) : n <= Len(u) /\ t[n] = u[n]
    BY RisingAgrees
<1>2. SameRows(u, t)
    BY DEF SameRows
<1>3. \A n \in 1..Len(u) : n <= Len(t)
    BY <1>2, RisingAgrees
<1>4. Len(t) = Len(u)
    <2>1. Len(t) \in Nat /\ Len(u) \in Nat
        OBVIOUS
    <2>2. Len(t) <= Len(u)
        BY <1>1, <2>1
    <2>3. Len(u) <= Len(t)
        BY <1>3, <2>1
    <2> QED BY <2>1, <2>2, <2>3
<1> QED BY <1>1, <1>4

\* A sort without ties rises, and shows what is at the places.
LEMMA SortedRises ==
    ASSUME NEW order \in {"name", "nameAndId", "newest"}, NEW s \in Seq(RowRecord),
           NEW P, P \subseteq 1..Len(s),
           \A i, j \in P : i # j => Precedes(order, s[i], s[j]) \/ Precedes(order, s[j], s[i])
    PROVE  /\ Sorted(s, P, order) \in Seq(RowRecord) /\ Rising(Sorted(s, P, order), order)
           /\ \A n \in 1..Len(Sorted(s, P, order)) : \E i \in P : Sorted(s, P, order)[n] = s[i]
           /\ \A i \in P : \E n \in 1..Len(Sorted(s, P, order)) : Sorted(s, P, order)[n] = s[i]
<1> DEFINE t == Sorted(s, P, order)
           R == PlacesInOrder(order, s, P)
<1>1. t \in Seq(RowRecord) /\ \E at : Shown(s, P, R, t, at)
    BY SortedShape
<1>2. PICK at : Shown(s, P, R, t, at)
    BY <1>1
<1>3. ASSUME NEW i \in P, NEW j \in P, <<i, j>> \in R
      PROVE  Precedes(order, s[i], s[j]) \/ ~Precedes(order, s[j], s[i])
    <2> DEFINE x == <<i, j>>
    <2>1. x \in P \X P /\ x[1] = i /\ x[2] = j /\ x \in R
        BY <1>3
    <2> HIDE DEF x
    <2>2. CASE order = "nameAndId"
        BY <2>1, <2>2 DEF PlacesInOrder, NameAndIdOrder, Precedes
    <2>3. CASE order = "name"
        BY <2>1, <2>3 DEF PlacesInOrder, NameOrder, Precedes, ByName
    <2>4. CASE order = "newest"
        BY <2>1, <2>4 DEF PlacesInOrder, NewestOrder, Precedes, NewestFirst
    <2> QED BY <2>2, <2>3, <2>4
<1> HIDE DEF t, R
<1>4. \A n \in 1..Len(t) : at[n] \in P /\ t[n] = s[at[n]]
    BY <1>2, Zenon DEF Shown
<1>5. \A i \in P : \E n \in 1..Len(t) : at[n] = i
    BY <1>2, Zenon DEF Shown
<1>6. \A m, n \in 1..Len(t) : m < n => <<at[m], at[n]>> \in R
    BY <1>2, Zenon DEF Shown
<1>7. \A m, n \in 1..Len(t) : at[m] = at[n] => m = n
    BY <1>2, Zenon DEF Shown
<1>8. ASSUME NEW m \in 1..Len(t), NEW n \in 1..Len(t), m < n PROVE Precedes(order, t[m], t[n])
    <2>1. m # n
        BY <1>1, <1>8
    <2>2. at[m] \in P /\ at[n] \in P /\ at[m] # at[n] /\ <<at[m], at[n]>> \in R
        BY <1>4, <1>6, <1>7, <1>8, <2>1
    <2>3. Precedes(order, s[at[m]], s[at[n]])
        BY <1>3, <2>2
    <2> QED BY <1>4, <2>3
<1>9. Rising(t, order)
    BY <1>8 DEF Rising
<1>10. ASSUME NEW i \in P PROVE \E n \in 1..Len(t) : t[n] = s[i]
    <2>1. PICK n \in 1..Len(t) : at[n] = i
        BY <1>5
    <2> QED BY <1>4, <2>1
<1>11. \A n \in 1..Len(t) : \E i \in P : t[n] = s[i]
    BY <1>4
<1> QED BY <1>1, <1>9, <1>10, <1>11 DEF t

-----------------------------------------------------------------------------
(***************************************************************************)
(* Lists that the server cuts: what a call sorts is the same in every      *)
(* call.                                                                   *)
(***************************************************************************)
LEMMA KeptIsThere ==
    ASSUME WorldOK, edits = 0
    PROVE  Kept = There
<1>1. gone = {}
    BY DEF WorldOK
<1>2. rows = [n \in 1..Present |-> n]
    BY DEF WorldOK
<1>3. There = 1..Present
    BY <1>2 DEF There
<1> QED BY <1>1, <1>3 DEF Kept

\* s lists the collection: every row once, with its key.
Listing(s) ==
    /\ s \in Seq(RowRecord)
    /\ \A m, n \in 1..Len(s) : s[m].id = s[n].id => m = n
    /\ \A n \in 1..Len(s) : s[n].id \in There /\ s[n].key = key[s[n].id]
    /\ \A i \in There : \E n \in 1..Len(s) : s[n].id = i
Matches(s) == {n \in DOMAIN s : Matching(s[n])}

LEMMA ReadingLists ==
    ASSUME WorldOK, NEW s \in {rows, Reverse(rows)}
    PROVE  Listing(Reading(s))
<1>1. /\ rows \in Seq(Ids) /\ key \in [Ids -> Keys] /\ Len(rows) \in Nat /\ DOMAIN rows = 1..Len(rows)
    BY DEF WorldOK
<1>2. \A m, n \in 1..Len(rows) : rows[m] = rows[n] => m = n
    BY <1>1, Zenon DEF WorldOK
<1>3. /\ s \in Seq(Ids) /\ Len(s) = Len(rows)
      /\ \A m, n \in 1..Len(s) : s[m] = s[n] => m = n
      /\ \A n \in 1..Len(s) : s[n] \in There
      /\ \A i \in There : \E n \in 1..Len(s) : s[n] = i
    <2>1. CASE s = rows
        <3>1. \A n \in 1..Len(rows) : rows[n] \in There
            BY <1>1 DEF There
        <3>2. \A i \in There : \E n \in 1..Len(rows) : rows[n] = i
            BY <1>1 DEF There
        <3> QED BY <1>1, <1>2, <2>1, <3>1, <3>2
    <2>2. CASE s = Reverse(rows)
        <3> DEFINE back(i) == (Len(rows) - i) + 1
        <3>1. /\ s \in Seq(Ids) /\ Len(s) = Len(rows)
              /\ \A i \in 1..Len(rows) : s[i] = rows[back(i)] /\ back(i) \in 1..Len(rows)
            BY <1>1, <2>2, ReverseShape
        <3>2. \A i, j \in 1..Len(rows) : back(i) = back(j) => i = j
            BY <1>1
        <3>3. \A i \in 1..Len(rows) : back(back(i)) = i
            BY <1>1
        <3> HIDE DEF back
        <3>4. \A m, n \in 1..Len(s) : s[m] = s[n] => m = n
            BY <1>2, <3>1, <3>2
        <3>5. \A n \in 1..Len(s) : s[n] \in There
            BY <1>1, <3>1 DEF There
        <3>6. ASSUME NEW i \in There PROVE \E n \in 1..Len(s) : s[n] = i
            <4>1. PICK m \in 1..Len(rows) : rows[m] = i
                BY <1>1 DEF There
            <4>2. s[back(m)] = i /\ back(m) \in 1..Len(s)
                BY <3>1, <3>3, <4>1
            <4> QED BY <4>2
        <3> QED BY <3>1, <3>4, <3>5, <3>6
    <2> QED BY <2>1, <2>2
<1>4. /\ Reading(s) \in Seq(RowRecord) /\ Len(Reading(s)) = Len(s)
      /\ \A n \in 1..Len(s) : Reading(s)[n].id = s[n] /\ Reading(s)[n].key = key[s[n]]
    BY <1>1, <1>3, ReadingShape
<1> DEFINE r == Reading(s)
<1> HIDE DEF r
<1>5. /\ r \in Seq(RowRecord) /\ Len(r) = Len(s)
      /\ \A n \in 1..Len(s) : r[n].id = s[n] /\ r[n].key = key[s[n]]
    BY <1>4 DEF r
<1>6. Listing(r)
    BY <1>3, <1>5 DEF Listing
<1> QED BY <1>6 DEF r

\* Rows that came in another order are told apart by what they are sorted by.
LEMMA Untied ==
    ASSUME WorldOK, edits = 0, OrderHeld, shuffled, AskOK,
           NEW x \in RowRecord, NEW y \in RowRecord, x.id \in There, y.id \in There, x.id # y.id,
           x.key = key[x.id], y.key = key[y.id]
    PROVE  Precedes(ask.tool.order, x, y) \/ Precedes(ask.tool.order, y, x)
<1>1. x.key \in Nat /\ y.key \in Nat /\ x.id \in Nat /\ y.id \in Nat
    BY Constants DEF RowRecord
<1>2. ask.tool.order \in {"none", "name", "nameAndId", "newest"}
    BY ToolShape
<1>3. CASE ask.tool.order = "nameAndId"
    BY <1>1, <1>3 DEF Precedes, ByNameAndId
<1>4. CASE ask.tool.order # "nameAndId"
    <2>1. ask.tool.order # "none" /\ \A i, j \in Kept : i # j => key[i] # key[j]
        BY <1>4 DEF OrderHeld
    <2>2. Kept = There
        BY KeptIsThere
    <2>3. x.key # y.key
        BY <2>1, <2>2
    <2>4. CASE ask.tool.order = "name"
        BY <1>1, <2>3, <2>4 DEF Precedes, ByName
    <2>5. CASE ask.tool.order = "newest"
        BY <1>1, <2>3, <2>5 DEF Precedes, NewestFirst
    <2> QED BY <1>2, <1>4, <2>1, <2>4, <2>5
<1> QED BY <1>3, <1>4

\* Two listings, filtered alike and sorted, show the same rows.
LEMMA ListingsMatch ==
    ASSUME NEW s, NEW u, Listing(s), Listing(u), NEW m \in Matches(s)
    PROVE  \E n \in Matches(u) : u[n] = s[m]
<1>1. /\ s \in Seq(RowRecord) /\ u \in Seq(RowRecord)
      /\ \A n \in 1..Len(s) : s[n].id \in There /\ s[n].key = key[s[n].id]
      /\ \A n \in 1..Len(u) : u[n].id \in There /\ u[n].key = key[u[n].id]
      /\ \A i \in There : \E n \in 1..Len(u) : u[n].id = i
    BY DEF Listing
<1>2. m \in 1..Len(s) /\ Matching(s[m])
    BY <1>1 DEF Matches
<1>3. PICK n \in 1..Len(u) : u[n].id = s[m].id
    BY <1>1, <1>2
<1>4. u[n].key = s[m].key /\ u[n] \in RowRecord /\ s[m] \in RowRecord
    BY <1>1, <1>2, <1>3
<1>5. \A x, y \in RowRecord : x.id = y.id /\ x.key = y.key => x = y
    BY DEF RowRecord
<1>6. u[n] = s[m]
    BY <1>3, <1>4, <1>5
<1>7. n \in Matches(u)
    BY <1>1, <1>2, <1>6 DEF Matches
<1> QED BY <1>6, <1>7

LEMMA ListingRises ==
    ASSUME WorldOK, edits = 0, OrderHeld, shuffled, AskOK, NEW s, Listing(s)
    PROVE  LET t == Sorted(s, Matches(s), ask.tool.order)
           IN  /\ t \in Seq(RowRecord) /\ Rising(t, ask.tool.order)
               /\ \A n \in 1..Len(t) : \E i \in Matches(s) : t[n] = s[i]
               /\ \A i \in Matches(s) : \E n \in 1..Len(t) : t[n] = s[i]
<1>1. /\ s \in Seq(RowRecord)
      /\ \A m, n \in 1..Len(s) : s[m].id = s[n].id => m = n
      /\ \A n \in 1..Len(s) : s[n].id \in There /\ s[n].key = key[s[n].id]
    BY DEF Listing
<1>2. Matches(s) \subseteq 1..Len(s)
    BY <1>1 DEF Matches
<1>3. ask.tool.order \in {"name", "nameAndId", "newest"}
    BY ToolShape DEF OrderHeld
<1>4. ASSUME NEW i \in Matches(s), NEW j \in Matches(s), i # j
      PROVE  Precedes(ask.tool.order, s[i], s[j]) \/ Precedes(ask.tool.order, s[j], s[i])
    <2>1. i \in 1..Len(s) /\ j \in 1..Len(s) /\ s[i] \in RowRecord /\ s[j] \in RowRecord
        BY <1>1, <1>2
    <2>2. /\ s[i].id # s[j].id /\ s[i].id \in There /\ s[j].id \in There
          /\ s[i].key = key[s[i].id] /\ s[j].key = key[s[j].id]
        BY <1>1, <1>4, <2>1
    <2> QED BY <2>1, <2>2, Untied
<1> QED BY <1>1, <1>2, <1>3, <1>4, SortedRises

LEMMA ListingsSortAlike ==
    ASSUME WorldOK, edits = 0, OrderHeld, shuffled, AskOK, NEW s, NEW u, Listing(s), Listing(u)
    PROVE  Sorted(s, Matches(s), ask.tool.order) = Sorted(u, Matches(u), ask.tool.order)
<1> DEFINE t == Sorted(s, Matches(s), ask.tool.order)
           v == Sorted(u, Matches(u), ask.tool.order)
<1>1. /\ t \in Seq(RowRecord) /\ Rising(t, ask.tool.order)
      /\ \A n \in 1..Len(t) : \E i \in Matches(s) : t[n] = s[i]
      /\ \A i \in Matches(s) : \E n \in 1..Len(t) : t[n] = s[i]
    BY ListingRises
<1>2. /\ v \in Seq(RowRecord) /\ Rising(v, ask.tool.order)
      /\ \A n \in 1..Len(v) : \E i \in Matches(u) : v[n] = u[i]
      /\ \A i \in Matches(u) : \E n \in 1..Len(v) : v[n] = u[i]
    BY ListingRises
<1>3. /\ \A m \in Matches(s) : \E n \in Matches(u) : u[n] = s[m]
      /\ \A m \in Matches(u) : \E n \in Matches(s) : s[n] = u[m]
    BY ListingsMatch
<1> HIDE DEF t, v
<1>4. ASSUME NEW m \in 1..Len(t) PROVE \E n \in 1..Len(v) : t[m] = v[n]
    <2>1. PICK i \in Matches(s) : t[m] = s[i]
        BY <1>1
    <2>2. PICK j \in Matches(u) : u[j] = s[i]
        BY <1>3
    <2>3. PICK n \in 1..Len(v) : v[n] = u[j]
        BY <1>2
    <2> QED BY <2>1, <2>2, <2>3
<1>5. ASSUME NEW n \in 1..Len(v) PROVE \E m \in 1..Len(t) : t[m] = v[n]
    <2>1. PICK i \in Matches(u) : v[n] = u[i]
        BY <1>2
    <2>2. PICK j \in Matches(s) : s[j] = u[i]
        BY <1>3
    <2>3. PICK m \in 1..Len(t) : t[m] = s[j]
        BY <1>1
    <2> QED BY <2>1, <2>2, <2>3
<1>6. SameRows(t, v)
    BY <1>4, <1>5 DEF SameRows
<1>7. ask.tool.order \in {"none", "name", "nameAndId", "newest"}
    BY ToolShape
<1> QED BY <1>1, <1>2, <1>6, <1>7, OneRising DEF t, v

\* How the rows of a walk that counts are read, and that they can be trusted.
LEMMA CountedSource ==
    ASSUME TypeOK, AskOK, Counted
    PROVE  \E role \in RowRoles \ {"events", "socket"} :
              Uses(ask.tool, role) /\ role \in Sources(ask.tool.finish) /\ Trusted(role)
<1>1. CourseFits(ask.tool) /\ ask.tool.finish # "record"
    BY ToolShape DEF Counted
<1>2. PICK role \in RowRoles : Uses(ask.tool, role)
    BY <1>1 DEF CourseFits
<1>3. role \in Sources(ask.tool.finish)
    BY <1>2, OneSource
<1>4. role \notin {"events", "socket"}
    BY <1>2 DEF Counted
<1>5. Trusted(role)
    <2>1. CASE trust = "honest"
        BY <2>1 DEF Trusted
    <2>2. CASE trust # "honest"
        <3>1. trust = "odd" /\ \E how \in {"page", "vouchers", "log"} : Uses(ask.tool, how)
            BY <2>2 DEF Counted, PagesHeld
        <3>2. PICK how \in {"page", "vouchers", "log"} : Uses(ask.tool, how)
            BY <3>1
        <3>3. how = role
            BY <1>2, <3>2, OneSource DEF RowRoles
        <3> QED BY <3>1, <3>2, <3>3 DEF Trusted
    <2> QED BY <2>1, <2>2
<1> QED BY <1>2, <1>3, <1>4, <1>5

\* What was read in pages and to the end is the collection.
LEMMA AllRead ==
    ASSUME WorldOK, read \in Seq(RowRecord), Prefix(0), Len(read) = Len(rows)
    PROVE  read = Reading(rows)
<1>1. rows \in Seq(Ids) /\ Len(rows) \in Nat
    BY DEF WorldOK
<1>2. read = Reading(SubSeq(rows, 0 + 1, 0 + Len(rows)))
    BY DEF Prefix
<1>3. SubSeq(rows, 0 + 1, 0 + Len(rows)) = rows
    BY <1>1
<1> QED BY <1>2, <1>3

\* A filter on local data is only answered when it can see every row.
LEMMA AllVisible ==
    ASSUME TypeOK, phase = "walking", WholeInv, edits = 0, step = Len(Course) + 1,
           FilterAnswerable(ask.filter), NEW n \in DOMAIN read
    PROVE  Visible(read[n])
<1>1. CASE ask.filter # "local"
    BY <1>1 DEF Visible
<1>2. CASE ask.filter = "local"
    <2>1. AskOK /\ WorldOK /\ CourseFits(ask.tool)
        BY ToolShape DEF TypeOK
    <2>2. Uses(ask.tool, "local")
        BY <1>2, <2>1 DEF AskOK, CourseFits
    <2>3. PICK m \in DOMAIN Course : Course[m].role = "local"
        BY <2>2 DEF Uses, Course
    <2>4. StepFits(ask.tool, m)
        BY <2>1, <2>3 DEF CourseFits, Course
    <2>5. Behind(ask.tool, m, "whole")
        BY <2>3, <2>4 DEF StepFits, Course
    <2>6. Uses(ask.tool, "whole")
        <3>1. DOMAIN Course = 1..Len(Course) /\ Len(Course) \in Nat
            BY <2>1, ToolShape
        <3>2. 1..(m - 1) \subseteq DOMAIN Course
            BY <2>3, <3>1
        <3> QED BY <2>5, <3>2 DEF Behind, Uses, Course
    <2>7. WholeOf /\ Passed("whole")
        BY <2>1, <2>6, WholeInvIs, PassedLast
    <2>8. WholeRead /\ LocalKnown
        BY <2>7 DEF WholeOf
    <2>9. local.ids = There
        BY <1>2, <2>8 DEF LocalKnown, FilterAnswerable
    <2>10. IdsOf(read) = There
        BY <2>1, <2>8, WholeShowsAll DEF ShowsAll
    <2>11. read[n].id \in IdsOf(read)
        BY DEF IdsOf
    <2> QED BY <2>9, <2>10, <2>11 DEF Visible
<1> QED BY <1>1, <1>2

\* What such a list is cut from is WindowGoal, in every call.
LEMMA WindowIsGoal ==
    ASSUME TypeOK, phase = "walking", SourceInv, WholeInv, Counted, ask.tool.finish = "window",
           step = Len(Course) + 1, FilterAnswerable(ask.filter), ~cut
    PROVE  WindowRows = WindowGoal
<1>1. /\ AskOK /\ WorldOK /\ cursor \in Nat /\ read \in Seq(RowRecord) /\ edits = 0 /\ OrderHeld
      /\ key \in [Ids -> Keys] /\ rows \in Seq(Ids)
    BY DEF TypeOK, CallOK, Counted, WorldOK
<1>2. Chosen = Matches(read)
    BY <1>1, AllVisible DEF Chosen, Matches
<1>3. WindowRows = Sorted(read, Matches(read), ask.tool.order)
    BY <1>2 DEF WindowRows, Chosen
<1>4. WindowGoal = Sorted(Reading(rows), Matches(Reading(rows)), ask.tool.order)
    <2>1. DOMAIN Reading(rows) = DOMAIN rows /\ \A n \in DOMAIN rows : Reading(rows)[n] = Row(rows[n])
        BY DEF Reading
    <2>2. Matches(Reading(rows)) = {n \in DOMAIN rows : Matching(Row(rows[n]))}
        BY <2>1 DEF Matches
    <2> QED BY <2>2 DEF WindowGoal
<1>5. CASE read = Reading(rows)
    BY <1>3, <1>4, <1>5
<1>6. CASE shuffled /\ read = Reading(Reverse(rows))
    <2>1. Listing(Reading(rows)) /\ Listing(read)
        BY <1>1, <1>6, ReadingLists
    <2> QED BY <1>1, <1>3, <1>4, <1>6, <2>1, ListingsSortAlike
<1>7. PICK role \in RowRoles \ {"events", "socket"} :
          Uses(ask.tool, role) /\ role \in Sources(ask.tool.finish) /\ Trusted(role)
    BY <1>1, CountedSource
<1>8. role \in {"whole", "scan", "logWindow"}
    BY <1>7 DEF Sources
<1>9. Passed(role)
    BY <1>1, <1>7, PassedLast
<1>10. CASE role = "whole"
    <2>1. WholeOf
        BY <1>7, <1>10, WholeInvIs
    <2>2. WholeRead
        BY <1>1, <1>9, <1>10, <2>1 DEF WholeOf
    <2> QED BY <1>5, <1>6, <2>2 DEF WholeRead
<1>11. CASE role \in {"scan", "logWindow"}
    <2>1. role \in PageRoles
        BY <1>11 DEF PageRoles
    <2>2. SourceOf(role)
        BY <1>7, <2>1, SourceInvIs
    <2>3. Prefix(Base) /\ FoundIn(role)
        BY <1>1, <1>7, <1>9, <2>2 DEF SourceOf
    <2>4. Base = 0
        BY <1>1, <1>7, <1>11, <2>1, FinishOf
    <2>5. ToTheEnd
        BY <1>11, <2>3 DEF FoundIn
    <2>6. Len(read) \in Nat
        BY <1>1
    <2>7. Prefix(0) /\ Len(read) = Len(rows)
        BY <2>3, <2>4, <2>5, <2>6 DEF ToTheEnd
    <2> QED BY <1>1, <1>5, <2>7, AllRead
<1> QED BY <1>8, <1>10, <1>11

-----------------------------------------------------------------------------
(***************************************************************************)
(* A walk returns every row that matches exactly once.                     *)
(***************************************************************************)
LEMMA GoalEachOnce ==
    ASSUME WorldOK, AskOK
    PROVE  WindowGoal \in Seq(RowRecord) /\ EachOnce(IdSeq(WindowGoal), Matched)
<1> DEFINE s == Reading(rows)
           P == Matches(s)
           t == Sorted(s, P, ask.tool.order)
<1>1. Listing(s)
    BY ReadingLists
<1>2. t = WindowGoal
    <2>1. DOMAIN Reading(rows) = DOMAIN rows /\ \A n \in DOMAIN rows : Reading(rows)[n] = Row(rows[n])
        BY DEF Reading
    <2>2. Matches(Reading(rows)) = {n \in DOMAIN rows : Matching(Row(rows[n]))}
        BY <2>1 DEF Matches
    <2> QED BY <2>2 DEF WindowGoal
<1> HIDE DEF s
<1>3. /\ s \in Seq(RowRecord)
      /\ \A m, n \in 1..Len(s) : s[m].id = s[n].id => m = n
      /\ \A n \in 1..Len(s) : s[n].id \in There
      /\ \A i \in There : \E n \in 1..Len(s) : s[n].id = i
    BY <1>1 DEF Listing
<1>4. P \subseteq 1..Len(s) /\ \A n \in 1..Len(s) : n \in P <=> Matching(s[n])
    BY <1>3 DEF Matches
<1>5. ask.tool.order \in {"none", "name", "nameAndId", "newest"}
    BY ToolShape
<1>6. t \in Seq(RowRecord) /\ \E at : Shown(s, P, PlacesInOrder(ask.tool.order, s, P), t, at)
    BY <1>3, <1>4, <1>5, SortedShape
<1>7. PICK at : Shown(s, P, PlacesInOrder(ask.tool.order, s, P), t, at)
    BY <1>6
<1> HIDE DEF t, P
<1>8. \A n \in 1..Len(t) : at[n] \in P /\ t[n] = s[at[n]]
    BY <1>7, Zenon DEF Shown
<1>9. \A i \in P : \E n \in 1..Len(t) : at[n] = i
    BY <1>7, Zenon DEF Shown
<1>10. \A m, n \in 1..Len(t) : at[m] = at[n] => m = n
    BY <1>7, Zenon DEF Shown
<1> DEFINE q == IdSeq(t)
<1>11. DOMAIN q = 1..Len(t) /\ \A n \in 1..Len(t) : q[n] = t[n].id
    BY <1>6 DEF IdSeq
<1> HIDE DEF q
<1>12. ASSUME NEW m \in DOMAIN q, NEW n \in DOMAIN q, q[m] = q[n] PROVE m = n
    <2>1. at[m] \in 1..Len(s) /\ at[n] \in 1..Len(s) /\ s[at[m]].id = s[at[n]].id
        BY <1>4, <1>8, <1>11, <1>12
    <2>2. at[m] = at[n]
        BY <1>3, <2>1
    <2> QED BY <1>10, <1>11, <2>2
<1>13. ASSUME NEW n \in DOMAIN q PROVE q[n] \in Matched
    <2>1. at[n] \in P /\ at[n] \in 1..Len(s) /\ q[n] = s[at[n]].id
        BY <1>4, <1>8, <1>11
    <2>2. Matching(s[at[n]]) /\ q[n] \in There
        BY <1>3, <1>4, <2>1
    <2> QED BY <2>1, <2>2 DEF Matched, Matching
<1>14. ASSUME NEW i \in Matched PROVE \E n \in DOMAIN q : q[n] = i
    <2>1. i \in There /\ (ask.filter = "none" \/ i \in Wanted)
        BY DEF Matched
    <2>2. PICK k \in 1..Len(s) : s[k].id = i
        BY <1>3, <2>1
    <2>3. k \in P
        BY <1>4, <2>1, <2>2 DEF Matching
    <2>4. PICK n \in 1..Len(t) : at[n] = k
        BY <1>9, <2>3
    <2> QED BY <1>8, <1>11, <2>2, <2>4
<1>15. EachOnce(q, Matched)
    <2>1. {q[n] : n \in DOMAIN q} = Matched
        BY <1>13, <1>14
    <2> QED BY <1>12, <2>1 DEF EachOnce
<1> QED BY <1>2, <1>6, <1>15 DEF q

\* wifi.diagnose lists every device it has read once, the carriers first.
LEMMA SiftedLength ==
    ASSUME NEW S, NEW s \in Seq(S), NEW P, P \subseteq 1..Len(s)
    PROVE  Len(Sifted(s, P)) = Cardinality(P) /\ Cardinality(P) \in Nat /\ IsFiniteSet(P)
<1> DEFINE t == Sifted(s, P)
           c == Cardinality(P)
<1>1. IsFiniteSet(P)
    <2>1. 1 \in Int /\ Len(s) \in Int
        OBVIOUS
    <2>2. IsFiniteSet(1..Len(s))
        BY <2>1, FS_Interval
    <2> QED BY <2>2, FS_Subset
<1>2. c \in Nat
    BY <1>1, FS_CardinalityType
<1>3. DOMAIN t = 1..c
    BY DEF Sifted, Arranged
<1>4. Len(t) \in Nat /\ DOMAIN t = 1..Len(t)
    BY SiftedShape
<1> HIDE DEF t, c
<1>5. Len(t) = c
    BY <1>2, <1>3, <1>4
<1> QED BY <1>1, <1>2, <1>5 DEF t, c

LEMMA CarriersEachOnce ==
    ASSUME WorldOK, read = Reading(rows)
    PROVE  /\ CarriersFirst \in Seq(RowRecord) /\ Len(CarriersFirst) = Len(read)
           /\ EachOnce(IdSeq(CarriersFirst), There)
<1> DEFINE A == {n \in DOMAIN read : read[n].id \in Wanted}
           B == {n \in DOMAIN read : read[n].id \notin Wanted}
           u == Sifted(read, A)
           v == Sifted(read, B)
           w == CarriersFirst
<1>1. w = u \o v
    BY DEF CarriersFirst, Filtered, Sifted
<1>2. Listing(read)
    BY ReadingLists
<1>3. /\ read \in Seq(RowRecord) /\ DOMAIN read = 1..Len(read) /\ Len(read) \in Nat
      /\ \A m, n \in 1..Len(read) : read[m].id = read[n].id => m = n
      /\ \A n \in 1..Len(read) : read[n].id \in There
      /\ \A i \in There : \E n \in 1..Len(read) : read[n].id = i
    BY <1>2 DEF Listing
<1>4. /\ A \subseteq 1..Len(read) /\ B \subseteq 1..Len(read) /\ A \cup B = 1..Len(read) /\ A \cap B = {}
      /\ \A n \in A : read[n].id \in Wanted
      /\ \A n \in B : read[n].id \notin Wanted
    BY <1>3
<1> HIDE DEF A, B
<1>5. /\ u \in Seq(RowRecord) /\ Len(u) \in Nat
      /\ \A n \in DOMAIN u : \E m \in A : u[n] = read[m]
      /\ \A m \in A : \E n \in DOMAIN u : u[n] = read[m]
      /\ \A m, n \in DOMAIN u : u[m].id = u[n].id => m = n
    BY <1>3, <1>4, SiftedRows
<1>6. /\ v \in Seq(RowRecord) /\ Len(v) \in Nat
      /\ \A n \in DOMAIN v : \E m \in B : v[n] = read[m]
      /\ \A m \in B : \E n \in DOMAIN v : v[n] = read[m]
      /\ \A m, n \in DOMAIN v : v[m].id = v[n].id => m = n
    BY <1>3, <1>4, SiftedRows
<1>7. Len(u) + Len(v) = Len(read)
    <2>1. /\ Len(u) = Cardinality(A) /\ Cardinality(A) \in Nat /\ IsFiniteSet(A)
          /\ Len(v) = Cardinality(B) /\ Cardinality(B) \in Nat /\ IsFiniteSet(B)
        BY <1>3, <1>4, SiftedLength
    <2>2. Cardinality(A \cup B) = Cardinality(A) + Cardinality(B) - Cardinality(A \cap B)
        BY <2>1, FS_Union
    <2>3. Cardinality(A \cap B) = 0
        BY <1>4, FS_EmptySet
    <2>4. Cardinality(1..Len(read)) = Len(read)
        <3>1. 1 \in Int /\ Len(read) \in Int
            BY <1>3
        <3>2. Cardinality(1..Len(read)) = IF 1 > Len(read) THEN 0 ELSE Len(read) - 1 + 1
            BY <3>1, FS_Interval
        <3> QED BY <1>3, <3>2
    <2>5. \A a, b \in Nat : a + b - 0 = a + b
        OBVIOUS
    <2>6. Cardinality(A \cup B) = Cardinality(A) + Cardinality(B)
        BY <2>1, <2>2, <2>3, <2>5, Zenon
    <2> HIDE DEF u, v
    <2> QED BY <1>4, <2>1, <2>4, <2>6, Zenon
<1> HIDE DEF u, v, w
<1>8. w \in Seq(RowRecord) /\ Joined(u, v, w)
    BY <1>1, <1>5, <1>6, JoinShape
<1>9. /\ Len(w) = Len(u) + Len(v) /\ DOMAIN w = 1..(Len(u) + Len(v))
      /\ \A i \in 1..Len(u) : w[i] = u[i]
      /\ \A i \in 1..Len(v) : w[Len(u) + i] = v[i]
    BY <1>8 DEF Joined
<1>10. DOMAIN u = 1..Len(u) /\ DOMAIN v = 1..Len(v)
    BY <1>5, <1>6
<1> DEFINE q == IdSeq(w)
<1>11. DOMAIN q = DOMAIN w /\ \A n \in DOMAIN w : q[n] = w[n].id
    BY DEF IdSeq
<1> HIDE DEF q
<1>12. ASSUME NEW n \in DOMAIN w
       PROVE  \/ n \in DOMAIN u /\ w[n] = u[n]
              \/ n - Len(u) \in DOMAIN v /\ w[n] = v[n - Len(u)] /\ n > Len(u)
    <2>1. n \in 1..(Len(u) + Len(v))
        BY <1>9
    <2>2. CASE n <= Len(u)
        BY <1>5, <1>9, <1>10, <2>1, <2>2
    <2>3. CASE n > Len(u)
        <3>1. n - Len(u) \in 1..Len(v) /\ Len(u) + (n - Len(u)) = n
            BY <1>5, <1>6, <2>1, <2>3
        <3>2. w[Len(u) + (n - Len(u))] = v[n - Len(u)]
            BY <1>9, <3>1
        <3> QED BY <1>10, <2>3, <3>1, <3>2
    <2> QED BY <1>5, <2>1, <2>2, <2>3
<1>13. (\A n \in DOMAIN u : u[n].id \in Wanted) /\ (\A n \in DOMAIN v : v[n].id \notin Wanted)
    <2>1. ASSUME NEW n \in DOMAIN u PROVE u[n].id \in Wanted
        <3>1. PICK m \in A : u[n] = read[m]
            BY <1>5
        <3> QED BY <1>4, <3>1
    <2>2. ASSUME NEW n \in DOMAIN v PROVE v[n].id \notin Wanted
        <3>1. PICK m \in B : v[n] = read[m]
            BY <1>6
        <3> QED BY <1>4, <3>1
    <2> QED BY <2>1, <2>2
<1>14. ASSUME NEW m \in DOMAIN q, NEW n \in DOMAIN q, q[m] = q[n] PROVE m = n
    <2>1. w[m].id = w[n].id /\ m \in DOMAIN w /\ n \in DOMAIN w /\ m \in Int /\ n \in Int
        BY <1>9, <1>11, <1>14
    <2>2. CASE w[m].id \in Wanted
        <3>1. m \in DOMAIN u /\ n \in DOMAIN u /\ w[m] = u[m] /\ w[n] = u[n]
            BY <1>12, <1>13, <2>1, <2>2
        <3> QED BY <1>5, <2>1, <3>1
    <2>3. CASE w[m].id \notin Wanted
        <3>1. /\ m - Len(u) \in DOMAIN v /\ n - Len(u) \in DOMAIN v
              /\ w[m] = v[m - Len(u)] /\ w[n] = v[n - Len(u)]
            BY <1>12, <1>13, <2>1, <2>3
        <3>2. m - Len(u) = n - Len(u)
            BY <1>6, <2>1, <3>1
        <3> QED BY <1>5, <2>1, <3>2
    <2> QED BY <2>2, <2>3
<1>15. ASSUME NEW n \in DOMAIN q PROVE q[n] \in There
    <2>1. n \in DOMAIN w /\ q[n] = w[n].id
        BY <1>11
    <2>2. \E m \in A \cup B : w[n] = read[m]
        <3>1. CASE n \in DOMAIN u /\ w[n] = u[n]
            <4>1. PICK m \in A : u[n] = read[m]
                BY <1>5, <3>1
            <4> QED BY <3>1, <4>1
        <3>2. CASE n - Len(u) \in DOMAIN v /\ w[n] = v[n - Len(u)]
            <4>1. PICK m \in B : v[n - Len(u)] = read[m]
                BY <1>6, <3>2
            <4> QED BY <3>2, <4>1
        <3> QED BY <1>12, <2>1, <3>1, <3>2
    <2> QED BY <1>3, <1>4, <2>1, <2>2
<1>16. ASSUME NEW i \in There PROVE \E n \in DOMAIN q : q[n] = i
    <2>1. PICK m \in 1..Len(read) : read[m].id = i
        BY <1>3
    <2>2. CASE m \in A
        <3>1. PICK n \in DOMAIN u : u[n] = read[m]
            BY <1>5, <2>2
        <3>2. n \in DOMAIN w /\ w[n] = u[n]
            BY <1>5, <1>6, <1>9, <1>10
        <3> QED BY <1>11, <2>1, <3>1, <3>2
    <2>3. CASE m \in B
        <3>1. PICK n \in DOMAIN v : v[n] = read[m]
            BY <1>6, <2>3
        <3>2. Len(u) + n \in DOMAIN w /\ w[Len(u) + n] = v[n]
            BY <1>5, <1>6, <1>9, <1>10
        <3> QED BY <1>11, <2>1, <3>1, <3>2
    <2> QED BY <1>4, <2>2, <2>3
<1>17. EachOnce(q, There)
    <2>1. {q[n] : n \in DOMAIN q} = There
        BY <1>15, <1>16
    <2> QED BY <1>14, <2>1 DEF EachOnce
<1> QED BY <1>7, <1>8, <1>9, <1>17 DEF q, w

\* WalkInv of a walk that goes on.
WalkGoing ==
    IF ask.tool.finish = "window"
    THEN ~flagged => cursor <= Len(WindowGoal) /\ got = IdSeq(SubSeq(WindowGoal, 1, cursor))
    ELSE got = SubSeq(rows, 1, Base)

LEMMA WalkInvIs ==
    WalkInv <=> /\ phase = "walking" /\ Counted => WalkGoing
                /\ phase = "done" /\ Counted /\ ~flagged => EachOnce(got, Matched)
BY DEF WalkInv, WalkGoing, Finished

LEMMA WalkInvNext ==
    ASSUME phase' = "walking" /\ Counted' => WalkGoing',
           phase' = "done" /\ Counted' /\ ~flagged' => EachOnce(got, Matched)'
    PROVE  WalkInv'
BY DEF WalkInv, WalkGoing, Finished

LEMMA SameGoal ==
    ASSUME ask' = ask, rows' = rows, key' = key
    PROVE  WindowGoal' = WindowGoal /\ Matched' = Matched
<1>1. Reading(rows)' = Reading(rows)
    BY DEF Reading, Row
<1>2. {n \in DOMAIN rows : Matching(Row(rows[n]))}' = {n \in DOMAIN rows : Matching(Row(rows[n]))}
    BY DEF Matching, Row
<1>3. WindowGoal' = WindowGoal
    BY <1>1, <1>2 DEF WindowGoal
<1>4. Matched' = Matched
    BY DEF Matched, There
<1> QED BY <1>3, <1>4

\* A walk that counts has counted all along.
LEMMA CountedBefore ==
    ASSUME ask' = ask, UNCHANGED <<rows, key, gone, edits>>, Counted',
           trust' = "honest" => trust = "honest",
           trust' \in {"honest", "odd"} => trust \in {"honest", "odd"},
           shuffled => shuffled'
    PROVE  Counted
<1>1. \A role : Uses(ask.tool, role)' <=> Uses(ask.tool, role)
    BY SameUses
<1>2. edits = 0 /\ ask.tool.finish # "record" /\ ~Uses(ask.tool, "events") /\ ~Uses(ask.tool, "socket")
    BY <1>1 DEF Counted
<1>3. Kept' = Kept
    BY DEF Kept
<1>4. OrderHeld
    <2>1. OrderHeld'
        BY DEF Counted
    <2> QED BY <1>3, <2>1 DEF OrderHeld
<1>5. PagesHeld
    <2>1. PagesHeld'
        BY DEF Counted
    <2>2. \/ trust' = "honest"
          \/ trust' = "odd" /\ \E how \in {"page", "vouchers", "log"} : Uses(ask.tool, how)'
        BY <2>1 DEF PagesHeld
    <2>3. CASE trust' = "honest"
        BY <2>3 DEF PagesHeld
    <2>4. CASE trust' = "odd" /\ \E how \in {"page", "vouchers", "log"} : Uses(ask.tool, how)'
        BY <1>1, <2>4 DEF PagesHeld
    <2> QED BY <2>2, <2>3, <2>4
<1> QED BY <1>2, <1>4, <1>5 DEF Counted

LEMMA IdSeqJoin ==
    ASSUME NEW u \in Seq(RowRecord), NEW v \in Seq(RowRecord)
    PROVE  IdSeq(u) \o IdSeq(v) = IdSeq(u \o v)
<1> DEFINE a == IdSeq(u)
           b == IdSeq(v)
           w == u \o v
           c == IdSeq(w)
           z == a \o b
<1>1. /\ a \in Seq(Ids) /\ Len(a) = Len(u) /\ Len(u) \in Nat
      /\ \A n \in 1..Len(u) : a[n] = u[n].id
    BY IdSeqShape
<1>2. /\ b \in Seq(Ids) /\ Len(b) = Len(v) /\ Len(v) \in Nat
      /\ \A n \in 1..Len(v) : b[n] = v[n].id
    BY IdSeqShape
<1>3. w \in Seq(RowRecord) /\ Joined(u, v, w)
    BY JoinShape
<1> HIDE DEF w
<1>4. /\ c \in Seq(Ids) /\ Len(c) = Len(w)
      /\ \A n \in 1..Len(w) : c[n] = w[n].id
    BY <1>3, IdSeqShape
<1> HIDE DEF a, b, c
<1>5. z \in Seq(Ids) /\ Joined(a, b, z)
    BY <1>1, <1>2, JoinShape
<1> HIDE DEF z
<1>6. Len(z) = Len(u) + Len(v) /\ Len(c) = Len(u) + Len(v)
    BY <1>1, <1>2, <1>3, <1>4, <1>5 DEF Joined
<1>7. ASSUME NEW n \in 1..(Len(u) + Len(v)) PROVE z[n] = c[n]
    <2>1. c[n] = w[n].id
        BY <1>4, <1>6
    <2>2. CASE n <= Len(u)
        <3>1. n \in 1..Len(u)
            BY <1>1, <1>2, <2>2
        <3>2. w[n] = u[n] /\ z[n] = a[n]
            BY <1>1, <1>3, <1>5, <3>1 DEF Joined
        <3> QED BY <1>1, <2>1, <3>1, <3>2
    <2>3. CASE n > Len(u)
        <3> DEFINE k == n - Len(u)
        <3>1. k \in 1..Len(v) /\ Len(u) + k = n
            BY <1>1, <1>2, <2>3
        <3> HIDE DEF k
        <3>2. w[Len(u) + k] = v[k] /\ z[Len(u) + k] = b[k]
            BY <1>1, <1>2, <1>3, <1>5, <3>1 DEF Joined
        <3> QED BY <1>2, <2>1, <3>1, <3>2
    <2> QED BY <1>1, <2>2, <2>3
<1>8. z = c
    BY <1>4, <1>5, <1>6, <1>7
<1> QED BY <1>8 DEF a, b, c, w, z

\* The answer of a list that the server cuts.
LEMMA WindowAnswer ==
    ASSUME TypeOK, phase = "walking", SourceInv, WholeInv, Counted, WalkGoing, Answered,
           ask.tool.finish = "window", ~flagged'
    PROVE  /\ phase' = "walking" => cursor' <= Len(WindowGoal) /\ got' = IdSeq(SubSeq(WindowGoal, 1, cursor'))
           /\ phase' = "done" => EachOnce(got', Matched)
<1> DEFINE g == WindowGoal
           page == SkipTake(g, cursor, ask.limit)
           u == SubSeq(g, 1, cursor)
           end == cursor + Len(page)
<1>1. AskOK /\ WorldOK /\ cursor \in Nat /\ ask.limit \in Nat
    BY DEF TypeOK, CallOK, AskOK
<1>2. ~flagged /\ ~Answers.gap
    BY DEF Answered
<1>3. Answers.gap = cut
    BY DEF Answers
<1>4. WindowRows = g
    BY <1>2, <1>3, WindowIsGoal DEF Answered
<1>5. Answers.rows = page /\ Answers.next = NextOffset(cursor, Len(page), Len(g))
    BY <1>4 DEF Answers
<1>6. cursor <= Len(g) /\ got = IdSeq(u)
    BY <1>2 DEF WalkGoing
<1>7. g \in Seq(RowRecord) /\ Len(g) \in Nat /\ EachOnce(IdSeq(g), Matched)
    BY <1>1, GoalEachOnce
<1>8. got' = IdSeq(u) \o IdSeq(page)
    <2>1. got' = got \o IdSeq(Answers.rows)
        BY DEF Answered
    <2> HIDE DEF u, page
    <2> QED BY <1>5, <1>6, <2>1
<1> HIDE DEF g
<1>9. /\ page \in Seq(RowRecord) /\ end <= Len(g)
      /\ page = SubSeq(g, cursor + 1, end)
    <2>1. /\ page \in Seq(RowRecord)
          /\ cursor <= Len(g) => /\ cursor + Len(page) <= Len(g)
                                /\ page = SubSeq(g, cursor + 1, cursor + Len(page))
        <3> DEFINE limit == ask.limit
        <3>1. limit \in Nat /\ g \in Seq(RowRecord) /\ cursor \in Nat
            BY <1>1, <1>7
        <3> HIDE DEF limit
        <3>2. /\ SkipTake(g, cursor, limit) \in Seq(RowRecord)
              /\ cursor <= Len(g) =>
                    /\ cursor + Len(SkipTake(g, cursor, limit)) <= Len(g)
                    /\ SkipTake(g, cursor, limit) =
                          SubSeq(g, cursor + 1, cursor + Len(SkipTake(g, cursor, limit)))
            BY <3>1, SkipTakeShape
        <3> QED BY <3>2 DEF limit
    <2> HIDE DEF page
    <2> QED BY <1>6, <2>1
<1>10. Len(page) \in Nat /\ end \in Nat
    <2>1. Len(page) \in Nat
        BY <1>9
    <2> HIDE DEF page
    <2> QED BY <1>1, <2>1
<1> HIDE DEF page
<1>11. u \o page = SubSeq(g, 1, end)
    <2>1. 0 \in 0..Len(g) /\ cursor \in 0..Len(g) /\ end \in cursor..Len(g) /\ 0 + 1 = 1
        BY <1>1, <1>6, <1>7, <1>9, <1>10
    <2>2. SubSeq(g, 0 + 1, cursor) \o SubSeq(g, cursor + 1, end) = SubSeq(g, 0 + 1, end)
        BY <1>7, <2>1, SubSeqJoin
    <2> HIDE DEF end
    <2> QED BY <1>9, <2>1, <2>2
<1>12. u \in Seq(RowRecord)
    BY <1>1, <1>6, <1>7
<1>13. got' = IdSeq(SubSeq(g, 1, end))
    <2>1. IdSeq(u) \o IdSeq(page) = IdSeq(u \o page)
        BY <1>9, <1>12, IdSeqJoin
    <2> HIDE DEF u, end
    <2> QED BY <1>8, <1>11, <2>1
<1>14. cursor' = Answers.next /\ phase' = (IF Answers.next = End THEN "done" ELSE "walking")
    BY DEF Answered
<1>15. CASE end < Len(g)
    <2>1. Answers.next = end /\ end # End
        BY <1>5, <1>10, <1>15, EndAssumption DEF NextOffset
    <2> HIDE DEF end
    <2> QED BY <1>9, <1>13, <1>14, <2>1 DEF g
<1>16. CASE ~(end < Len(g))
    <2>1. Answers.next = End
        BY <1>5, <1>16 DEF NextOffset
    <2>2. end = Len(g)
        BY <1>7, <1>9, <1>10, <1>16
    <2>3. SubSeq(g, 1, Len(g)) = g
        BY <1>7
    <2>4. got' = IdSeq(g)
        BY <1>13, <2>2, <2>3
    <2> QED BY <1>7, <1>14, <2>1, <2>4
<1> QED BY <1>15, <1>16

LEMMA RowsEachOnce ==
    ASSUME WorldOK
    PROVE  EachOnce(rows, There) /\ SubSeq(rows, 1, Len(rows)) = rows /\ SubSeq(rows, 1, 0) = << >>
<1>1. rows \in Seq(Ids)
    BY DEF WorldOK
<1>2. \A m, n \in DOMAIN rows : rows[m] = rows[n] => m = n
    BY Zenon DEF WorldOK
<1>3. EachOnce(rows, There)
    BY <1>2 DEF EachOnce, There
<1> QED BY <1>1, <1>3

\* What was read follows what was returned.
LEMMA ReturnedNext ==
    ASSUME WorldOK, read \in Seq(RowRecord), NEW from \in Nat, got = SubSeq(rows, 1, from), Prefix(from)
    PROVE  /\ got \o IdSeq(read) = SubSeq(rows, 1, from + Len(read))
           /\ from + Len(read) <= Len(rows) /\ Len(read) \in Nat
<1>1. rows \in Seq(Ids) /\ Len(rows) \in Nat /\ Len(read) \in Nat
    BY DEF WorldOK
<1>2. Spells(read, rows, key, from)
    BY PrefixSpells
<1>3. IdSeq(read) = SubSeq(rows, from + 1, from + Len(read))
    BY <1>1, <1>2, SpelledIds
<1>4. from + Len(read) <= Len(rows)
    BY DEF Prefix
<1> DEFINE end == from + Len(read)
<1>5. 0 \in 0..Len(rows) /\ from \in 0..Len(rows) /\ end \in from..Len(rows) /\ 0 + 1 = 1
    BY <1>1, <1>4
<1> HIDE DEF end
<1>6. SubSeq(rows, 0 + 1, from) \o SubSeq(rows, from + 1, end) = SubSeq(rows, 0 + 1, end)
    BY <1>1, <1>5, SubSeqJoin
<1> QED BY <1>1, <1>3, <1>4, <1>5, <1>6 DEF end

LEMMA BaseNext ==
    ASSUME ask' = ask
    PROVE  Base' = IF Uses(ask.tool, "log") THEN cursor' * ask.limit
                   ELSE IF ask.tool.finish = "window" THEN 0 ELSE cursor'
BY SameUses DEF Base

\* An answer that hands on what was read.
LEMMA PagesAnswer ==
    ASSUME TypeOK, phase = "walking", Answered, got = SubSeq(rows, 1, Base),
           NEW role \in PageRoles, Uses(ask.tool, role), Prefix(Base), FoundIn(role),
           role = "scan" => next = End,
           ask.tool.finish \in {"asRead", "section"}
    PROVE  /\ phase' = "walking" => got' = SubSeq(rows, 1, Base')
           /\ phase' = "done" /\ ~flagged' => got' = rows
<1>1. /\ AskOK /\ WorldOK /\ cursor \in Nat /\ read \in Seq(RowRecord) /\ next \in Nat \cup {End}
      /\ cut \in BOOLEAN /\ ask.limit \in Nat
    BY DEF TypeOK, CallOK, AskOK
<1>2. Base \in Nat
    BY <1>1, BaseType
<1>3. /\ got \o IdSeq(read) = SubSeq(rows, 1, Base + Len(read))
      /\ Base + Len(read) <= Len(rows) /\ Len(read) \in Nat
    BY <1>1, <1>2, ReturnedNext
<1>4. /\ got' = got \o IdSeq(Answers.rows) /\ flagged' = (flagged \/ Answers.gap)
      /\ cursor' = Answers.next /\ phase' = (IF Answers.next = End THEN "done" ELSE "walking")
      /\ ask' = ask
    BY DEF Answered, asked
<1>5. Answers.rows = read
    BY DEF Answers
<1>6. got' = SubSeq(rows, 1, Base + Len(read))
    BY <1>3, <1>4, <1>5
<1>7. ToTheEnd => got' = rows
    BY <1>1, <1>6, RowsEachOnce DEF ToTheEnd
<1>8. /\ role \in {"page", "vouchers", "catalog", "log"} => ask.tool.finish = "asRead"
      /\ role = "section" <=> ask.tool.finish = "section"
      /\ role # "logWindow"
      /\ Base = IF role = "log" THEN cursor * ask.limit
                ELSE IF ask.tool.finish = "window" THEN 0 ELSE cursor
    BY <1>1, FinishOf
<1>9. Base' = IF role = "log" THEN cursor' * ask.limit
              ELSE IF ask.tool.finish = "window" THEN 0 ELSE cursor'
    <2>1. Uses(ask.tool, "log") <=> role = "log"
        BY <1>1, OneSource DEF PageRoles, RowRoles
    <2> QED BY <1>4, <2>1, BaseNext
<1>10. CASE ask.tool.finish = "section"
    <2>1. Answers.next = IF cut THEN cursor + Len(read) ELSE End
        BY <1>10 DEF Answers
    <2>2. role = "section" /\ Base = cursor
        BY <1>8, <1>10
    <2>3. ~cut => ToTheEnd
        BY <2>2 DEF FoundIn
    <2>4. CASE cut
        <3>1. cursor' = cursor + Len(read)
            BY <1>4, <2>1, <2>4
        <3>2. Base' = cursor'
            BY <1>9, <1>10, <2>2
        <3>3. cursor + Len(read) # End
            BY <1>1, <1>3, EndAssumption
        <3> QED BY <1>4, <1>6, <2>1, <2>2, <2>4, <3>1, <3>2, <3>3
    <2>5. CASE ~cut
        BY <1>4, <1>7, <2>1, <2>3, <2>5
    <2> QED BY <2>4, <2>5
<1>11. CASE ask.tool.finish = "asRead"
    <2>1. Answers.next = next /\ Answers.gap = cut
        BY <1>11 DEF Answers
    <2>2. role \in {"page", "vouchers", "catalog", "scan", "log"}
        BY <1>8, <1>11 DEF PageRoles
    <2>3. next = End /\ ~cut => ToTheEnd
        BY <2>2 DEF FoundIn
    <2>4. CASE next = End
        BY <1>4, <1>7, <2>1, <2>3, <2>4
    <2>5. CASE next # End
        <3>1. phase' = "walking" /\ cursor' = next
            BY <1>4, <2>1, <2>5
        <3>2. Base' = Base + Len(read)
            <4>1. CASE role = "log"
                <5>1. next = cursor + 1 /\ Len(read) = ask.limit
                    BY <2>5, <4>1 DEF FoundIn
                <5>2. Base = cursor * ask.limit /\ Base' = (cursor + 1) * ask.limit
                    BY <1>8, <1>9, <3>1, <4>1, <5>1
                <5>3. \A a, b \in Nat : (a + 1) * b = a * b + b
                    OBVIOUS
                <5>4. (cursor + 1) * ask.limit = cursor * ask.limit + ask.limit
                    BY <1>1, <5>3, Zenon
                <5> QED BY <5>1, <5>2, <5>4, Zenon
            <4>2. CASE role # "log"
                <5>1. role \in {"page", "vouchers", "catalog"}
                    BY <2>2, <2>5, <4>2
                <5>2. next = cursor + Len(read)
                    BY <2>5, <5>1 DEF FoundIn
                <5>3. Base = cursor /\ Base' = cursor'
                    BY <1>8, <1>9, <1>11, <4>2
                <5> QED BY <3>1, <5>2, <5>3
            <4> QED BY <4>1, <4>2
        <3> QED BY <1>6, <3>1, <3>2
    <2> QED BY <2>4, <2>5
<1> QED BY <1>10, <1>11

\* The answer of wifi.diagnose.
LEMMA BoundedAnswer ==
    ASSUME TypeOK, phase = "walking", Answered, got = SubSeq(rows, 1, 0), ask.tool.finish = "bounded",
           ~flagged', ~cut => read = Reading(rows)
    PROVE  EachOnce(got', There)
<1>1. WorldOK /\ Ceiling \in Nat /\ 0 \in Nat
    BY Constants DEF TypeOK
<1>2. /\ Answers.rows = SkipTake(CarriersFirst, 0, Ceiling)
      /\ Answers.gap = (cut \/ Len(read) > Ceiling)
    BY DEF Answers
<1>3. ~cut /\ ~(Len(read) > Ceiling)
    BY <1>2 DEF Answered
<1> DEFINE w == CarriersFirst
<1>4. w \in Seq(RowRecord) /\ Len(w) = Len(read) /\ EachOnce(IdSeq(w), There)
    BY <1>1, <1>3, CarriersEachOnce
<1> HIDE DEF w
<1>5. Len(w) \in Nat
    BY <1>4
<1>6. SkipTake(w, 0, Ceiling) = w
    <2>1. Len(w) <= Ceiling
        BY <1>1, <1>3, <1>4, <1>5
    <2>2. Min({0 + Ceiling, Len(w)}) = Len(w)
        BY <1>1, <1>5, <2>1, MinOfTwo
    <2>3. SkipTake(w, 0, Ceiling) = SubSeq(w, 0 + 1, Len(w))
        BY <2>2 DEF SkipTake
    <2> QED BY <1>4, <2>3
<1>7. got' = << >> \o IdSeq(w)
    <2>1. got = << >>
        BY <1>1, RowsEachOnce
    <2>2. got' = got \o IdSeq(Answers.rows)
        BY DEF Answered
    <2> QED BY <1>2, <1>6, <2>1, <2>2 DEF w
<1>8. IdSeq(w) \in Seq(Ids)
    BY <1>4, IdSeqShape
<1>9. got' = IdSeq(w)
    BY <1>7, <1>8
<1> QED BY <1>4, <1>9

\* Whatever an answer is made of, it leads on.
LEMMA AnswerWalks ==
    ASSUME TypeOK, phase = "walking", SourceInv, WholeInv, Counted, WalkGoing, Answered
    PROVE  /\ phase' = "walking" => WalkGoing'
           /\ phase' = "done" /\ ~flagged' => EachOnce(got, Matched)'
<1>1. /\ AskOK /\ WorldOK /\ cursor \in Nat /\ read \in Seq(RowRecord) /\ edits = 0
      /\ ask.tool.finish # "record"
    BY DEF TypeOK, CallOK, Counted
<1>2. ask' = ask /\ rows' = rows /\ key' = key
    BY DEF Answered, asked, world
<1>3. WindowGoal' = WindowGoal /\ Matched' = Matched
    BY <1>2, SameGoal
<1>4. EachOnce(got, Matched)' <=> EachOnce(got', Matched)
    BY <1>3 DEF EachOnce
<1>5. CASE ask.tool.finish = "window"
    <2>1. ~flagged' =>
             /\ phase' = "walking" => cursor' <= Len(WindowGoal) /\ got' = IdSeq(SubSeq(WindowGoal, 1, cursor'))
             /\ phase' = "done" => EachOnce(got', Matched)
        BY <1>5, WindowAnswer
    <2>2. IdSeq(SubSeq(WindowGoal, 1, cursor))' = IdSeq(SubSeq(WindowGoal, 1, cursor'))
        BY <1>3 DEF IdSeq
    <2>3. phase' = "walking" => WalkGoing'
        BY <1>2, <1>3, <1>5, <2>1, <2>2 DEF WalkGoing
    <2> QED BY <1>4, <2>1, <2>3
<1>6. CASE ask.tool.finish # "window"
    <2>1. PICK role \in RowRoles \ {"events", "socket"} :
              Uses(ask.tool, role) /\ role \in Sources(ask.tool.finish) /\ Trusted(role)
        BY <1>1, CountedSource
    <2>2. ask.tool.finish \in {"asRead", "section", "bounded"} /\ CourseFits(ask.tool)
        BY <1>1, <1>6, ToolShape
    <2>3. role \in PageRoles
        BY <2>1, <2>2 DEF Sources, PageRoles, RowRoles
    <2>4. SourceOf(role) /\ Passed(role)
        BY <1>1, <2>1, <2>3, SourceInvIs, PassedLast DEF Answered
    <2>5. Prefix(Base) /\ FoundIn(role) /\ (role = "scan" => next = End)
        BY <1>1, <2>1, <2>4 DEF SourceOf
    <2>6. got = SubSeq(rows, 1, Base)
        BY <1>6 DEF WalkGoing
    <2>7. Matched = There
        BY <1>1, <1>6, <2>2 DEF Matched, AskOK, CourseFits
    <2>8. CASE ask.tool.finish = "bounded"
        <3>1. role = "scan" /\ Base = 0
            BY <1>1, <2>1, <2>3, <2>4, <2>8, FinishOf DEF Sources, SourceOf
        <3>2. ~cut => read = Reading(rows)
            <4>1. ~cut => ToTheEnd
                BY <2>5, <3>1 DEF FoundIn
            <4>2. Len(read) \in Nat
                BY <1>1
            <4>3. ~cut => Len(read) = Len(rows)
                BY <3>1, <4>1, <4>2 DEF ToTheEnd
            <4> QED BY <1>1, <2>5, <3>1, <4>3, AllRead
        <3>3. phase' = "done"
            <4>1. Answers.next = End
                BY <2>8 DEF Answers
            <4> QED BY <4>1 DEF Answered
        <3> QED BY <1>4, <2>6, <2>7, <2>8, <3>1, <3>2, <3>3, BoundedAnswer
    <2>9. CASE ask.tool.finish \in {"asRead", "section"}
        <3>1. /\ phase' = "walking" => got' = SubSeq(rows, 1, Base')
              /\ phase' = "done" /\ ~flagged' => got' = rows
            BY <2>1, <2>3, <2>5, <2>6, <2>9, PagesAnswer
        <3>2. EachOnce(rows, There)
            BY <1>1, RowsEachOnce
        <3>3. phase' = "walking" => WalkGoing'
            BY <1>2, <1>6, <3>1 DEF WalkGoing
        <3> QED BY <1>4, <2>7, <3>1, <3>2, <3>3
    <2> QED BY <2>2, <2>8, <2>9
<1> QED BY <1>5, <1>6

\* Steps that leave the walk where it is.
LEMMA WalkSame ==
    ASSUME WalkInv, UNCHANGED <<ask, rows, key, gone, edits, phase, cursor, got, flagged>>,
           trust' = "honest" => trust = "honest",
           trust' \in {"honest", "odd"} => trust \in {"honest", "odd"},
           shuffled => shuffled'
    PROVE  WalkInv'
<1>1. Counted' => Counted
    BY CountedBefore
<1>2. WindowGoal' = WindowGoal /\ Matched' = Matched
    BY SameGoal
<1>3. Base' = Base
    BY SameBase
<1>4. WalkGoing => WalkGoing'
    BY <1>2, <1>3 DEF WalkGoing, IdSeq
<1>5. EachOnce(got, Matched) => EachOnce(got, Matched)'
    BY <1>2 DEF EachOnce
<1> QED BY <1>1, <1>4, <1>5, WalkInvIs, WalkInvNext

\* A walk begins with nothing returned.
LEMMA CallWalks ==
    ASSUME TypeOK, NewInv, NEW tool \in Tools, Call(tool), ~Uses(tool, "events")
    PROVE  WalkGoing'
<1>1. /\ phase = "new" /\ UNCHANGED <<got, flagged>> /\ UNCHANGED world
      /\ cursor' = IF Uses(tool, "events") THEN LastKey ELSE 0
    BY DEF Call
<1>2. cursor' = 0 /\ got' = << >> /\ rows' = rows /\ key' = key
    BY <1>1 DEF NewInv, world
<1>3. /\ WorldOK /\ rows \in Seq(Ids) /\ key \in [Ids -> Keys] /\ Len(rows) \in Nat
      /\ DOMAIN rows = 1..Len(rows) /\ ask'.tool = tool
    BY CallTypes DEF TypeOK, WorldOK
<1> DEFINE s == Reading(rows)
           P == {n \in DOMAIN rows : Matching(Row(rows[n]))}'
           g == Sorted(s, P, tool.order)
<1>4. WindowGoal' = g
    <2>1. Reading(rows)' = s
        BY <1>2 DEF Reading, Row
    <2> HIDE DEF s
    <2> QED BY <1>3, <2>1 DEF WindowGoal
<1>5. P \subseteq 1..Len(rows)
    <2>1. P \subseteq DOMAIN rows
        BY <1>2
    <2> QED BY <1>3, <2>1
<1>6. s \in Seq(RowRecord) /\ Len(s) = Len(rows)
    BY <1>3, ReadingShape
<1>7. tool.order \in {"none", "name", "nameAndId", "newest"}
    BY CourseAssumption DEF ToolRecord
<1> HIDE DEF s, P
<1>8. g \in Seq(RowRecord)
    BY <1>5, <1>6, <1>7, SortedShape
<1> HIDE DEF g
<1>9. 0 <= Len(g) /\ SubSeq(g, 1, 0) = << >>
    BY <1>8
<1>10. IdSeq(SubSeq(g, 1, 0)) = << >>
    BY <1>9 DEF IdSeq
<1>11. SubSeq(rows, 1, 0) = << >>
    BY <1>3
<1>12. CASE tool.finish = "window"
    <2>1. IdSeq(SubSeq(WindowGoal, 1, cursor))' = << >>
        BY <1>2, <1>4, <1>10 DEF IdSeq
    <2> QED BY <1>2, <1>3, <1>4, <1>9, <1>12, <2>1 DEF WalkGoing
<1>13. CASE tool.finish # "window"
    <2>1. Base' = 0
        <3>1. ask'.limit \in Nat
            BY CallTypes DEF TypeOK, AskOK
        <3>2. 0 * ask'.limit = 0
            BY <3>1
        <3>3. Base' = IF Uses(ask.tool, "log")' THEN cursor' * ask'.limit
                      ELSE IF ask'.tool.finish = "window" THEN 0 ELSE cursor'
            BY DEF Base
        <3> QED BY <1>2, <1>3, <1>13, <3>2, <3>3
    <2> QED BY <1>2, <1>3, <1>11, <1>13, <2>1 DEF WalkGoing
<1> QED BY <1>12, <1>13

LEMMA WalkKept ==
    ASSUME TypeOK, NewInv, SourceInv, WholeInv, WalkInv, [Next]_vars
    PROVE  WalkInv'
<1>1. CASE UNCHANGED vars
    <2>1. UNCHANGED <<asked, world, walk, call, history>>
        BY <1>1 DEF vars
    <2>2. /\ UNCHANGED <<ask, rows, key, gone, edits, phase, cursor, got, flagged>>
          /\ UNCHANGED <<trust, shuffled>>
        BY <2>1 DEF walk, world, asked, history
    <2> QED BY <2>2, WalkSame
<1>2. CASE Begin
    <2>1. PICK tool \in Tools : CallUnknown(tool) \/ Call(tool)
        BY <1>2 DEF Begin
    <2>2. CASE CallUnknown(tool)
        <3>1. phase' = "unknown"
            BY <2>2 DEF CallUnknown
        <3> QED BY <3>1, WalkInvNext
    <2>3. CASE Call(tool)
        <3>1. phase' = "walking" /\ ask'.tool = tool
            BY <2>3, CallTypes
        <3>2. Counted' => ~Uses(tool, "events")
            BY <3>1 DEF Counted, Uses
        <3>3. Counted' => WalkGoing'
            BY <2>3, <3>2, CallWalks
        <3> QED BY <3>1, <3>3, WalkInvNext
    <2> QED BY <2>1, <2>2, <2>3
<1>3. CASE Edit
    <2>1. edits' # 0
        BY <1>3, EditShape DEF TypeOK
    <2>2. ~Counted'
        BY <2>1 DEF Counted
    <2> QED BY <2>2, WalkInvNext
<1>4. CASE CallStep
    <2>1. ask' = ask /\ phase = "walking" /\ phase' \in {"walking", "done", "refused"}
        BY <1>4, CallStepAsks, CallStepTypes
    <2>2. CASE phase' = "refused"
        BY <2>2, WalkInvNext
    <2>3. CASE phase' # "refused"
        <3>1. /\ UNCHANGED <<rows, key, gone, edits>>
              /\ trust' = "honest" => trust = "honest"
              /\ trust' \in {"honest", "odd"} => trust \in {"honest", "odd"}
              /\ shuffled => shuffled'
            BY <1>4, <2>3, CallStepKeeps DEF Unforgotten, world
        <3>2. CASE Answered
            <4>1. Counted' => Counted
                BY <2>1, <3>1, CountedBefore
            <4>2. Counted => WalkGoing
                BY <2>1, WalkInvIs
            <4>3. Counted' => /\ phase' = "walking" => WalkGoing'
                              /\ phase' = "done" /\ ~flagged' => EachOnce(got, Matched)'
                BY <2>1, <3>2, <4>1, <4>2, AnswerWalks
            <4> QED BY <4>3, WalkInvNext
        <3>3. CASE ~Answered
            <4>1. UNCHANGED <<phase, cursor, got, flagged>>
                <5>1. CASE Quiet \/ ReadWhole \/ ReadLocal \/ ReadNames
                    BY <5>1 DEF Quiet, ReadWhole, ReadLocal, ReadNames, walk
                <5>2. CASE Chooses
                    BY <5>2 DEF Chooses
                <5>3. CASE PageStep \/ ScanStep \/ LogStep \/ EventsStep
                    <6>1. UNCHANGED walk
                        <7>1. PageStep => UNCHANGED walk
                            BY DEF PageStep, PageRead
                        <7>2. ScanStep => UNCHANGED walk
                            BY DEF ScanStep, ScanRead
                        <7>3. LogStep => UNCHANGED walk
                            BY DEF LogStep, LogRead
                        <7>4. EventsStep => UNCHANGED walk
                            BY DEF EventsStep, EventsPage
                        <7> QED BY <5>3, <7>1, <7>2, <7>3, <7>4
                    <6> QED BY <6>1 DEF walk
                <5>4. CASE Message \/ StreamEnds \/ StreamFails
                    BY <5>4 DEF Message, StreamEnds, StreamFails, walk
                <5> QED BY <1>4, <2>3, <3>3, <5>1, <5>2, <5>3, <5>4, StepCases
            <4> QED BY <2>1, <3>1, <4>1, WalkSame
        <3> QED BY <3>2, <3>3
    <2> QED BY <2>2, <2>3
<1> QED BY <1>1, <1>2, <1>3, <1>4 DEF Next

\* WalkIsComplete: a walk that came to its end without an answer that
\* mentions a gap has returned every row that matches exactly once: the
\* cursors and page checks of all list and search tools, the sorted lists
\* the server cuts, and the scans with a ceiling.
THEOREM WalksComplete == Spec => []WalkIsComplete
<1>1. Init => SourceInv /\ WholeInv /\ WalkInv
    BY DEF Init, SourceInv, WholeInv, WalkInv, Finished
<1>2. /\ TypeOK /\ NewInv /\ SourceInv /\ WholeInv /\ WalkInv /\ [Next]_vars
      => SourceInv' /\ WholeInv' /\ WalkInv'
    BY SourceKept, WholeKept, WalkKept
<1>3. TypeOK /\ WalkInv => WalkIsComplete
    <2> SUFFICES ASSUME TypeOK, WalkInv, Finished, ~flagged, Counted, NEW i \in Ids
                 PROVE  Times(i) = IF i \in Kept /\ (ask.filter = "none" \/ i \in Wanted) THEN 1 ELSE 0
        BY DEF WalkIsComplete, Counted
    <2>1. EachOnce(got, Matched)
        BY WalkInvIs DEF Finished
    <2>2. Kept = There
        BY KeptIsThere DEF TypeOK, Counted
    <2>3. (\E n \in DOMAIN got : got[n] = i) <=> i \in Matched
        BY <2>1 DEF EachOnce
    <2>4. /\ Times(i) \in {0, 1}
          /\ (\E n \in DOMAIN got : got[n] = i) <=> Times(i) = 1
        BY <2>1, TimesReturned DEF EachOnce
    <2> QED BY <2>2, <2>3, <2>4 DEF Matched
<1> QED BY <1>1, <1>2, <1>3, ReadTypesHold, PTL DEF Spec

-----------------------------------------------------------------------------
(***************************************************************************)
(* A walk moves on.                                                        *)
(***************************************************************************)
\* What the course of the call says about the way its rows are read.
LEMMA SourceAtStep ==
    ASSUME TypeOK, Busy, Cur.role \in RowRoles
    PROVE  /\ Cur.role \in Sources(ask.tool.finish)
           /\ Uses(ask.tool, "events") <=> Cur.role = "events"
           /\ ask.tool.finish = "section" => Cur.role = "section"
<1>1. AskOK /\ Uses(ask.tool, Cur.role)
    BY InCourse, CurIsUsed
<1>2. Cur.role \in Sources(ask.tool.finish)
    BY <1>1, OneSource
<1>3. Uses(ask.tool, "events") => Cur.role = "events"
    BY <1>1, OneSource DEF RowRoles
<1>4. ask.tool.finish = "section" => Cur.role = "section"
    BY <1>2 DEF Sources
<1> QED BY <1>1, <1>2, <1>3, <1>4

\* What WalkMovesOn says of one step.
MovesOn ==
    \/ cursor' = cursor /\ step' = step + 1
    \/ cursor' = cursor /\ step' = step /\ (Len(read') > Len(read) \/ taken' > taken)
    \/ step' = 1 /\ Further(cursor, cursor')
    \/ edits' > edits /\ cursor' = cursor /\ step' = step

LEMMA SameFurther ==
    ASSUME ask' = ask, cursor' = cursor, NEW to
    PROVE  Further(cursor, to)' <=> Further(cursor, to')
<1> QED
    BY DEF Further, Uses

\* A page that was accepted leads on.
LEMMA PageMoves ==
    ASSUME TypeOK, MoveInv, PageStep
    PROVE  MoveInv' /\ MovesOn
<1>1. PICK how \in {"page", "vouchers", "catalog"} : \E limit, reply : PageRead(how, limit, reply)
    BY DEF PageStep
<1>2. PICK limit, reply : PageRead(how, limit, reply)
    BY <1>1
<1> DEFINE page == reply[1]
<1>3. /\ Busy /\ Cur.role = how /\ reply \in Replies(cursor, limit) /\ limit = NativeLimit(ask.limit, Cap)
      /\ Accepted(how, cursor, limit, page) /\ next' = PageNext(how, page) /\ step' = step + 1
      /\ ask' = ask /\ cursor' = cursor /\ phase' = phase
    BY <1>2 DEF PageRead, At, asked, walk
<1>4. /\ phase = "walking" /\ WorldOK /\ cursor \in Nat /\ ask.limit \in Nat \ {0}
      /\ ~Uses(ask.tool, "events") /\ ask.tool.finish # "section"
    BY <1>3, InCourse, SourceAtStep DEF RowRoles
<1>5. limit \in Nat \ {0}
    BY <1>3, <1>4, Constants, MinOfTwo DEF NativeLimit
<1>6. /\ Len(page.rows) \in Nat /\ page.rows \in Seq(RowRecord)
      /\ page.offset \in Nat /\ page.limit \in Nat /\ page.total \in Nat
    BY <1>3, <1>4, <1>5, ReplyTypes
<1>7. page.rows = << >> <=> Len(page.rows) = 0
    BY <1>6
<1>8. page.offset = cursor /\ page.limit # 0
    BY <1>3 DEF Accepted, PageAccepted, VoucherPageAccepted, CatalogPageAccepted, AsAsked
<1>9. how # "catalog" => ~(Len(page.rows) = 0 /\ page.offset + Len(page.rows) < page.total)
    BY <1>3, <1>7 DEF Accepted, PageAccepted, VoucherPageAccepted, EmptyTooEarly, After
<1> HIDE DEF page
<1>10. next' # End => next' > cursor
    <2>1. CASE how = "catalog"
        BY <1>3, <1>4, <1>6, <1>8, <2>1 DEF PageNext, After
    <2>2. CASE how # "catalog"
        BY <1>3, <1>4, <1>6, <1>8, <1>9, <2>2 DEF PageNext, NextOffset
    <2> QED BY <2>1, <2>2
<1>11. ~Uses(ask.tool, "events")' /\ ask'.tool.finish # "section"
    BY <1>3, <1>4 DEF Uses
<1> QED BY <1>3, <1>10, <1>11 DEF MoveInv, MovesOn, Further

\* A scan that goes on has taken rows, and so has one that was cut.
LEMMA ScanMoves ==
    ASSUME TypeOK, MoveInv, ScanStep
    PROVE  MoveInv' /\ MovesOn
<1>1. PICK how \in {"scan", "section"} : \E start, reply : ScanRead(how, start, reply)
    BY DEF ScanStep
<1>2. PICK start, reply : ScanRead(how, start, reply)
    BY <1>1
<1> DEFINE page == reply[1]
           over == ScanOver(start + Len(read), page)
           stop == ScanCut(start, start + Len(read), page, Ceiling)
<1>3. /\ Busy /\ start = (IF how = "section" THEN cursor ELSE 0)
      /\ reply \in Replies(start + Len(read), ScanLimit)
      /\ read' = read \o page.rows /\ cut' = (~over /\ stop)
      /\ step' = (IF over \/ stop THEN step + 1 ELSE step)
      /\ ask' = ask /\ cursor' = cursor /\ phase' = phase /\ next' = next
    BY <1>2 DEF ScanRead, At, asked, walk
<1>4. phase = "walking" /\ WorldOK /\ cursor \in Nat /\ step \in Nat
    BY <1>3, InCourse
<1>5. read \in Seq(RowRecord) /\ Len(read) \in Nat
    BY DEF TypeOK, CallOK
<1>6. start + Len(read) \in Nat /\ ScanLimit \in Nat \ {0}
    BY <1>3, <1>4, <1>5, Constants
<1>7. page.rows \in Seq(RowRecord)
    BY <1>3, <1>4, <1>6, ReplyTypes
<1>8. ~over => page.rows # << >>
    BY DEF ScanOver
<1> HIDE DEF page, over, stop
<1>9. ~over => Len(read') > Len(read) /\ read' # << >>
    BY <1>3, <1>5, <1>7, <1>8
<1>10. MovesOn
    BY <1>3, <1>9 DEF MovesOn
<1>11. cut' => read' # << >>
    BY <1>3, <1>9
<1>12. next' # End => Further(cursor, next)'
    BY <1>3, <1>4, SameFurther DEF MoveInv
<1> QED BY <1>10, <1>11, <1>12 DEF MoveInv

\* The next page of the log has the next number.
LEMMA LogMoves ==
    ASSUME TypeOK, MoveInv, LogStep
    PROVE  MoveInv' /\ MovesOn
<1>1. PICK how \in {"log", "logWindow"} : \E number, size, served, reply :
           LogRead(how, number, size, served, reply)
    BY DEF LogStep
<1>2. PICK number, size, served, reply : LogRead(how, number, size, served, reply)
    BY <1>1
<1>3. /\ Busy /\ Cur.role = how /\ number = (IF how = "log" THEN cursor ELSE 0)
      /\ LogPageAccepted(number, size, reply[1]) /\ step' = step + 1
      /\ next' = (IF how = "log" THEN LogNext(reply[1]) ELSE End)
      /\ ask' = ask /\ cursor' = cursor /\ phase' = phase
    BY <1>2 DEF LogRead, At, asked, walk
<1>4. cursor \in Nat /\ ~Uses(ask.tool, "events") /\ ask.tool.finish # "section"
    BY <1>3, InCourse, SourceAtStep DEF RowRoles
<1>5. next' # End => next' > cursor
    BY <1>3, <1>4 DEF LogNext, LogPageAccepted
<1>6. ~Uses(ask.tool, "events")' /\ ask'.tool.finish # "section"
    BY <1>3, <1>4 DEF Uses
<1> QED BY <1>3, <1>5, <1>6 DEF MoveInv, MovesOn, Further

\* The events of the next page are older.
LEMMA EventsMove ==
    ASSUME TypeOK, MoveInv, EventsStep
    PROVE  MoveInv' /\ MovesOn
<1>1. PICK page : EventsPage(page)
    BY DEF EventsStep
<1>2. /\ Busy /\ Cur.role = "events" /\ step' = step + 1 /\ next' = page.next
      /\ GoodPage(cursor, page.events, page.next)
      /\ ask' = ask /\ cursor' = cursor /\ phase' = phase
    BY <1>1 DEF EventsPage, At, asked, walk
<1>3. Uses(ask.tool, "events") /\ ask.tool.finish # "section"
    BY <1>2, SourceAtStep DEF RowRoles
<1>4. next' # End => next' < cursor
    BY <1>2 DEF GoodPage
<1>5. Uses(ask.tool, "events")' /\ ask'.tool.finish # "section"
    BY <1>2, <1>3 DEF Uses
<1> QED BY <1>2, <1>4, <1>5 DEF MoveInv, MovesOn, Further

\* The answer hands the continuation to the caller, who comes back with it.
LEMMA AnswerMoves ==
    ASSUME TypeOK, MoveInv, Answered, phase' = "walking"
    PROVE  MoveInv' /\ MovesOn
<1>1. /\ phase = "walking" /\ cursor' = Answers.next /\ Answers.next # End
      /\ step' = 1 /\ next' = End /\ cut' = FALSE /\ ask' = ask
    BY DEF Answered, asked
<1>2. MoveInv'
    BY <1>1 DEF MoveInv
<1>3. /\ AskOK /\ cursor \in Nat /\ ask.limit \in Nat \ {0} /\ read \in Seq(RowRecord)
      /\ Len(read) \in Nat
    BY <1>1 DEF TypeOK, CallOK, AskOK
<1>4. /\ ask.tool.finish \in {"record", "asRead", "section", "bounded", "window"}
      /\ CourseFits(ask.tool)
    BY <1>3, ToolShape
<1>5. ask.tool.finish \notin {"record", "bounded"}
    BY <1>1 DEF Answers
<1>6. CASE ask.tool.finish = "asRead"
    <2>1. Answers.next = next
        BY <1>6 DEF Answers
    <2> QED BY <1>1, <1>2, <2>1 DEF MoveInv, MovesOn
<1>7. ask.tool.finish \in {"section", "window"} => ~Uses(ask.tool, "events")
    BY <1>3, OneSource DEF Sources, RowRoles
<1>8. CASE ask.tool.finish = "section"
    <2>1. cut /\ Answers.next = cursor + Len(read)
        BY <1>1, <1>8 DEF Answers
    <2>2. Len(read) > 0
        BY <1>1, <1>3, <1>8, <2>1 DEF MoveInv
    <2>3. cursor' > cursor
        BY <1>1, <1>3, <2>1, <2>2
    <2> QED BY <1>1, <1>2, <1>7, <1>8, <2>3 DEF MovesOn, Further
<1>9. CASE ask.tool.finish = "window"
    <2> DEFINE w == WindowRows
               page == SkipTake(w, cursor, ask.limit)
    <2>1. Answers.next = NextOffset(cursor, Len(page), Len(w))
        BY <1>9 DEF Answers
    <2>2. w \in Seq(RowRecord)
        BY <1>1, AnswerTypes
    <2> HIDE DEF w
    <2>3. ask.limit \in Nat /\ Len(w) \in Nat
        BY <1>3, <2>2
    <2>4. /\ Len(page) \in Nat
          /\ cursor >= Len(w) => page = << >>
          /\ cursor <= Len(w) /\ Len(page) < ask.limit => cursor + Len(page) = Len(w)
        <3>1. page \in Seq(RowRecord)
            BY <1>3, <2>2, <2>3, SkipTakeShape
        <3> QED BY <1>3, <2>2, <2>3, <3>1, SkipTakeShape
    <2> HIDE DEF page
    <2>5. cursor + Len(page) < Len(w) /\ Answers.next = cursor + Len(page)
        BY <1>1, <2>1 DEF NextOffset
    <2>6. Len(page) > 0
        BY <1>3, <2>3, <2>4, <2>5
    <2>7. cursor' > cursor
        BY <1>1, <1>3, <2>4, <2>5, <2>6
    <2> QED BY <1>1, <1>2, <1>7, <1>9, <2>7 DEF MovesOn, Further
<1> QED BY <1>4, <1>5, <1>6, <1>8, <1>9

LEMMA CallMoves ==
    ASSUME TypeOK, MoveInv, CallStep, phase' = "walking"
    PROVE  MoveInv' /\ MovesOn
<1>1. phase = "walking" /\ ask' = ask /\ step \in Nat /\ taken \in Nat
    BY CallStepTypes, CallStepAsks DEF TypeOK, CallOK
<1>2. ASSUME step' = step + 1, cursor' = cursor, next' = next,
             ask.tool.finish = "section" => read' = read /\ cut' = cut
      PROVE  MoveInv' /\ MovesOn
    <2>1. next' # End => Further(cursor, next)'
        BY <1>1, <1>2, SameFurther DEF MoveInv
    <2>2. ask'.tool.finish = "section" /\ cut' => read' # << >>
        BY <1>1, <1>2 DEF MoveInv
    <2> QED BY <1>2, <2>1, <2>2 DEF MoveInv, MovesOn
<1>3. CASE Quiet \/ ReadLocal \/ Chooses
    <2>1. /\ step' = step + 1 /\ cursor' = cursor /\ next' = next
          /\ read' = read /\ cut' = cut
        BY <1>3 DEF Quiet, ReadLocal, Chooses, walk, Advance
    <2> QED BY <1>2, <2>1
<1>4. CASE ReadNames
    <2>1. Busy /\ Cur.role = "names" /\ step' = step + 1 /\ cursor' = cursor /\ next' = next
        BY <1>4 DEF ReadNames, walk, Advance, At
    <2>2. ask.tool.finish = "record"
        BY <2>1, InCourse DEF StepFits, Cur, Course
    <2> QED BY <1>2, <2>1, <2>2
<1>5. CASE ReadWhole \/ StreamEnds \/ StreamFails
    <2>1. step' = step + 1 /\ cursor' = cursor /\ next' = next
        BY <1>5 DEF ReadWhole, StreamEnds, StreamFails, walk, Advance
    <2>2. Busy /\ Cur.role \in {"whole", "socket"}
        BY <1>5 DEF ReadWhole, StreamEnds, StreamFails, At
    <2>3. ask.tool.finish # "section"
        BY <2>2, SourceAtStep DEF RowRoles
    <2> QED BY <1>2, <2>1, <2>3
<1>6. CASE Message
    <2>1. taken' = taken + 1 /\ (step' = step \/ step' = step + 1) /\ cursor' = cursor /\ next' = next
        BY <1>6 DEF Message, walk
    <2>2. Busy /\ Cur.role = "socket"
        BY <1>6 DEF Message, At
    <2>3. ask.tool.finish # "section" /\ ask' = ask
        BY <1>1, <2>2, SourceAtStep DEF RowRoles
    <2>4. next' # End => Further(cursor, next)'
        BY <1>1, <2>1, SameFurther DEF MoveInv
    <2>5. taken' > taken
        BY <1>1, <2>1
    <2> QED BY <2>1, <2>3, <2>4, <2>5 DEF MoveInv, MovesOn
<1> QED
    BY <1>3, <1>4, <1>5, <1>6, StepCases, PageMoves, ScanMoves, LogMoves, EventsMove, AnswerMoves

LEMMA MoveKept ==
    ASSUME TypeOK, NewInv, MoveInv, [Next]_vars
    PROVE  /\ MoveInv'
           /\ phase = "walking" /\ phase' = "walking" => MovesOn \/ UNCHANGED vars
<1>1. CASE Begin
    <2>1. PICK tool \in Tools : CallUnknown(tool) \/ Call(tool)
        BY <1>1 DEF Begin
    <2>2. phase = "new" /\ next' = next /\ cut' = cut
        BY <2>1 DEF CallUnknown, Call, call
    <2>3. next' = End /\ ~cut'
        BY <2>2 DEF NewInv
    <2> QED BY <2>2, <2>3 DEF MoveInv
<1>2. CASE CallStep
    <2>1. phase' # "walking" => MoveInv'
        BY DEF MoveInv
    <2> QED BY <1>2, <2>1, CallMoves
<1>3. CASE Edit
    <2>1. /\ UNCHANGED <<ask, phase, cursor, step, read, next, cut>> /\ edits' = edits + 1
          /\ edits \in Nat
        BY <1>3, EditShape DEF TypeOK, WorldOK, asked, walk, call
    <2>2. MoveInv'
        BY <2>1, SameFurther DEF MoveInv
    <2>3. MovesOn
        BY <2>1 DEF MovesOn
    <2> QED BY <2>2, <2>3
<1>4. CASE UNCHANGED vars
    <2>1. UNCHANGED <<ask, phase, cursor, step, read, next, cut>>
        BY <1>4 DEF vars, asked, walk, call
    <2> QED BY <1>4, <2>1, SameFurther DEF MoveInv
<1> QED BY <1>1, <1>2, <1>3, <1>4 DEF Next

\* WalkMovesOn: no answer sends the caller back or to the same page again,
\* and no loop inside a call turns without taking rows or messages, whatever
\* the controller replies.
THEOREM WalksMoveOn == Spec => WalkMovesOn
<1>1. Init => MoveInv
    BY DEF Init, MoveInv
<1>2. TypeOK /\ NewInv /\ MoveInv /\ [Next]_vars => MoveInv'
    BY MoveKept
<1>3. TypeOK /\ NewInv /\ MoveInv /\ [Next]_vars =>
          [phase = "walking" /\ phase' = "walking" =>
             \/ cursor' = cursor /\ step' = step + 1
             \/ cursor' = cursor /\ step' = step /\ (Len(read') > Len(read) \/ taken' > taken)
             \/ step' = 1 /\ Further(cursor, cursor')
             \/ edits' > edits /\ cursor' = cursor /\ step' = step]_vars
    BY MoveKept DEF MovesOn
<1> QED BY <1>1, <1>2, <1>3, ReadTypesHold, PTL DEF Spec, WalkMovesOn

-----------------------------------------------------------------------------
(***************************************************************************)
(* The registry and the handlers: a table of tools and the courses the     *)
(* handlers take, compared entry by entry.                                 *)
(***************************************************************************)
\* A request that changes nothing and goes through the client of the surface.
PlainRequest(surface, r) == r.retries = TRUE /\ ClientOf(r) = surface
PlainStep(surface, s) == s.request # None => PlainRequest(surface, s.request)
PlainCourse(surface, course) ==
    \E S : course \in Seq(S) /\ \A s \in S : PlainStep(surface, s)

LEMMA PlainJoined ==
    ASSUME NEW surface, NEW a, NEW b, PlainCourse(surface, a), PlainCourse(surface, b)
    PROVE  PlainCourse(surface, a \o b)
<1>1. PICK S : a \in Seq(S) /\ \A s \in S : PlainStep(surface, s)
    BY DEF PlainCourse
<1>2. PICK T : b \in Seq(T) /\ \A s \in T : PlainStep(surface, s)
    BY DEF PlainCourse
<1>3. a \in Seq(S \cup T) /\ b \in Seq(S \cup T)
    BY <1>1, <1>2
<1>4. a \o b \in Seq(S \cup T)
    BY <1>3
<1>5. \A s \in S \cup T : PlainStep(surface, s)
    BY <1>1, <1>2
<1> QED BY <1>4, <1>5 DEF PlainCourse

\* A course that is written out is plain when its steps are.
LEMMA PlainTuples ==
    ASSUME NEW surface
    PROVE  /\ PlainCourse(surface, << >>)
           /\ \A a :
                 /\ PlainStep(surface, a)
              => PlainCourse(surface, <<a>>)
           /\ \A a, b :
                 /\ PlainStep(surface, a) /\ PlainStep(surface, b)
              => PlainCourse(surface, <<a, b>>)
           /\ \A a, b, c :
                 /\ PlainStep(surface, a) /\ PlainStep(surface, b) /\ PlainStep(surface, c)
              => PlainCourse(surface, <<a, b, c>>)
           /\ \A a, b, c, d :
                 /\ PlainStep(surface, a) /\ PlainStep(surface, b) /\ PlainStep(surface, c)
                 /\ PlainStep(surface, d)
              => PlainCourse(surface, <<a, b, c, d>>)
           /\ \A a, b, c, d, e :
                 /\ PlainStep(surface, a) /\ PlainStep(surface, b) /\ PlainStep(surface, c)
                 /\ PlainStep(surface, d) /\ PlainStep(surface, e)
              => PlainCourse(surface, <<a, b, c, d, e>>)
           /\ \A a, b, c, d, e, f, g :
                 /\ PlainStep(surface, a) /\ PlainStep(surface, b) /\ PlainStep(surface, c)
                 /\ PlainStep(surface, d) /\ PlainStep(surface, e) /\ PlainStep(surface, f)
                 /\ PlainStep(surface, g)
              => PlainCourse(surface, <<a, b, c, d, e, f, g>>)
<1> DEFINE P(s) == PlainStep(surface, s)
<1>1. PlainCourse(surface, << >>)
    <2> DEFINE S == {}
               q == << >>
    <2>1. q \in Seq(S) /\ \A s \in S : P(s)
        OBVIOUS
    <2> HIDE DEF S, q
    <2>2. PlainCourse(surface, q)
        BY <2>1 DEF PlainCourse
    <2> QED BY <2>2 DEF q
<1>2. ASSUME NEW a,
             P(a)
      PROVE  PlainCourse(surface, <<a>>)
    <2> DEFINE S == {a}
               q == <<a>>
    <2>1. q \in Seq(S) /\ \A s \in S : P(s)
        BY <1>2
    <2> HIDE DEF S, q
    <2>2. PlainCourse(surface, q)
        BY <2>1 DEF PlainCourse
    <2> QED BY <2>2 DEF q
<1>3. ASSUME NEW a, NEW b,
             P(a), P(b)
      PROVE  PlainCourse(surface, <<a, b>>)
    <2> DEFINE S == {a, b}
               q == <<a, b>>
    <2>1. q \in Seq(S) /\ \A s \in S : P(s)
        BY <1>3
    <2> HIDE DEF S, q
    <2>2. PlainCourse(surface, q)
        BY <2>1 DEF PlainCourse
    <2> QED BY <2>2 DEF q
<1>4. ASSUME NEW a, NEW b, NEW c,
             P(a), P(b), P(c)
      PROVE  PlainCourse(surface, <<a, b, c>>)
    <2> DEFINE S == {a, b, c}
               q == <<a, b, c>>
    <2>1. q \in Seq(S) /\ \A s \in S : P(s)
        BY <1>4
    <2> HIDE DEF S, q
    <2>2. PlainCourse(surface, q)
        BY <2>1 DEF PlainCourse
    <2> QED BY <2>2 DEF q
<1>5. ASSUME NEW a, NEW b, NEW c, NEW d,
             P(a), P(b), P(c), P(d)
      PROVE  PlainCourse(surface, <<a, b, c, d>>)
    <2> DEFINE S == {a, b, c, d}
               q == <<a, b, c, d>>
    <2>1. q \in Seq(S) /\ \A s \in S : P(s)
        BY <1>5
    <2> HIDE DEF S, q
    <2>2. PlainCourse(surface, q)
        BY <2>1 DEF PlainCourse
    <2> QED BY <2>2 DEF q
<1>6. ASSUME NEW a, NEW b, NEW c, NEW d, NEW e,
             P(a), P(b), P(c), P(d), P(e)
      PROVE  PlainCourse(surface, <<a, b, c, d, e>>)
    <2> DEFINE S == {a, b, c, d, e}
               q == <<a, b, c, d, e>>
    <2>1. q \in Seq(S) /\ \A s \in S : P(s)
        BY <1>6
    <2> HIDE DEF S, q
    <2>2. PlainCourse(surface, q)
        BY <2>1 DEF PlainCourse
    <2> QED BY <2>2 DEF q
<1>7. ASSUME NEW a, NEW b, NEW c, NEW d, NEW e, NEW f, NEW g,
             P(a), P(b), P(c), P(d), P(e), P(f), P(g)
      PROVE  PlainCourse(surface, <<a, b, c, d, e, f, g>>)
    <2> DEFINE S == {a, b, c, d, e, f, g}
               q == <<a, b, c, d, e, f, g>>
    <2>1. q \in Seq(S) /\ \A s \in S : P(s)
        BY <1>7
    <2> HIDE DEF S, q
    <2>2. PlainCourse(surface, q)
        BY <2>1 DEF PlainCourse
    <2> QED BY <2>2 DEF q
<1> QED BY <1>1, <1>2, <1>3, <1>4, <1>5, <1>6, <1>7

LEMMA PlainSteps ==
    ASSUME NEW surface, NEW r, PlainRequest(surface, r), NEW role, NEW rule
    PROVE  /\ PlainStep(surface, Step(role, r))
           /\ PlainStep(surface, Must(r)) /\ PlainStep(surface, May(r))
           /\ PlainStep(surface, Rows(role, r)) /\ PlainStep(surface, Local(r))
           /\ PlainStep(surface, When(Must(r), role))
           /\ PlainStep(surface, Sometimes(Must(r))) /\ PlainStep(surface, Sometimes(May(r)))
<1> QED BY DEF Step, Must, May, Rows, Local, When, Sometimes, PlainStep

LEMMA PlainPick ==
    ASSUME NEW surface, NEW rule
    PROVE PlainStep(surface, Pick(rule))
<1> QED BY DEF Step, Pick, PlainStep

LEMMA NetworkReads ==
    /\ PlainRequest("network", Sites)
    /\ PlainRequest("network", DeviceDetail)
    /\ PlainRequest("network", NetworkPolicyDetail)
    /\ PlainRequest("network", AclRuleOrdering)
    /\ PlainRequest("network", FirewallPolicyOrdering)
    /\ PlainRequest("network", FirewallZones)
    /\ PlainRequest("network", NetworkRecord)
    /\ PlainRequest("network", WifiBroadcast)
    /\ PlainRequest("network", ClientsPage)
    /\ PlainRequest("network", ClientDetail)
    /\ PlainRequest("network", VoucherRecords)
    /\ PlainRequest("network", VoucherWithResponse)
    /\ PlainRequest("network", PortForwardRecord)
    /\ PlainRequest("network", WlanRecord)
    /\ PlainRequest("network", ActiveClients)
    /\ PlainRequest("network", Info)
    /\ PlainRequest("network", DpiCatalog)
    /\ PlainRequest("network", DpiNames)
    /\ PlainRequest("network", SiteInventory)
    /\ PlainRequest("network", Countries)
    /\ PlainRequest("network", SiteRecords)
    /\ PlainRequest("network", InventoryDetail)
    /\ PlainRequest("network", SwitchingDetail)
    /\ PlainRequest("network", PendingDevices)
    /\ PlainRequest("network", NetworkRecords)
    /\ PlainRequest("network", NetworkReferences)
    /\ PlainRequest("network", NetworkPolicyPage)
    /\ PlainRequest("network", RadiusProfileRecords)
    /\ PlainRequest("network", WifiBroadcastRecords)
    /\ PlainRequest("network", Devices)
    /\ PlainRequest("network", DeviceStatistics)
    /\ PlainRequest("network", FirewallPolicies)
    /\ PlainRequest("network", SiteHealth)
    /\ PlainRequest("network", Networks)
    /\ PlainRequest("network", Wlans)
    /\ PlainRequest("network", PortForwardRecords)
    /\ PlainRequest("network", WlanRecords)
    /\ PlainRequest("network", WlanGroups)
    /\ PlainRequest("network", UserGroups)
    /\ PlainRequest("network", ApGroups)
    /\ PlainRequest("network", DiagnosticRecords)
    /\ PlainRequest("network", PortForwards)
    /\ PlainRequest("network", TrafficRules)
    /\ PlainRequest("network", TrafficRoutes)
    /\ PlainRequest("network", RogueAps)
    /\ PlainRequest("network", HourlyWanReport)
    /\ PlainRequest("network", SystemLog)
    /\ PlainRequest("network", DpiByApplication)
    /\ PlainRequest("network", ActivityWithResponse)
    /\ PlainRequest("network", ActivityBuckets)
    /\ PlainRequest("network", TrafficSource)
<1>1. /\ PlainRequest("network", Sites)
      /\ PlainRequest("network", DeviceDetail)
      /\ PlainRequest("network", NetworkPolicyDetail)
      /\ PlainRequest("network", AclRuleOrdering)
      /\ PlainRequest("network", FirewallPolicyOrdering)
      /\ PlainRequest("network", FirewallZones)
      /\ PlainRequest("network", NetworkRecord)
      /\ PlainRequest("network", WifiBroadcast)
      /\ PlainRequest("network", ClientsPage)
      /\ PlainRequest("network", ClientDetail)
    BY DEF Sites, DeviceDetail, NetworkPolicyDetail, AclRuleOrdering,
           FirewallPolicyOrdering, FirewallZones, NetworkRecord,
           WifiBroadcast, ClientsPage, ClientDetail, Get, PlainRequest,
           ClientOf, ProtectCollections
<1>2. /\ PlainRequest("network", VoucherRecords)
      /\ PlainRequest("network", VoucherWithResponse)
      /\ PlainRequest("network", PortForwardRecord)
      /\ PlainRequest("network", WlanRecord)
      /\ PlainRequest("network", ActiveClients)
      /\ PlainRequest("network", Info)
      /\ PlainRequest("network", DpiCatalog)
      /\ PlainRequest("network", DpiNames)
      /\ PlainRequest("network", SiteInventory)
      /\ PlainRequest("network", Countries)
    BY DEF VoucherRecords, VoucherWithResponse, PortForwardRecord, WlanRecord,
           ActiveClients, Info, DpiCatalog, DpiNames, SiteInventory,
           Countries, Get, PlainRequest, ClientOf, ProtectCollections
<1>3. /\ PlainRequest("network", SiteRecords)
      /\ PlainRequest("network", InventoryDetail)
      /\ PlainRequest("network", SwitchingDetail)
      /\ PlainRequest("network", PendingDevices)
      /\ PlainRequest("network", NetworkRecords)
      /\ PlainRequest("network", NetworkReferences)
      /\ PlainRequest("network", NetworkPolicyPage)
      /\ PlainRequest("network", RadiusProfileRecords)
      /\ PlainRequest("network", WifiBroadcastRecords)
      /\ PlainRequest("network", Devices)
    BY DEF SiteRecords, InventoryDetail, SwitchingDetail, PendingDevices,
           NetworkRecords, NetworkReferences, NetworkPolicyPage,
           RadiusProfileRecords, WifiBroadcastRecords, Devices, Get,
           PlainRequest, ClientOf, ProtectCollections
<1>4. /\ PlainRequest("network", DeviceStatistics)
      /\ PlainRequest("network", FirewallPolicies)
      /\ PlainRequest("network", SiteHealth)
      /\ PlainRequest("network", Networks)
      /\ PlainRequest("network", Wlans)
      /\ PlainRequest("network", PortForwardRecords)
      /\ PlainRequest("network", WlanRecords)
      /\ PlainRequest("network", WlanGroups)
      /\ PlainRequest("network", UserGroups)
      /\ PlainRequest("network", ApGroups)
    BY DEF DeviceStatistics, FirewallPolicies, SiteHealth, Networks, Wlans,
           PortForwardRecords, WlanRecords, WlanGroups, UserGroups, ApGroups,
           Get, PlainRequest, ClientOf, ProtectCollections
<1>5. /\ PlainRequest("network", DiagnosticRecords)
      /\ PlainRequest("network", PortForwards)
      /\ PlainRequest("network", TrafficRules)
      /\ PlainRequest("network", TrafficRoutes)
      /\ PlainRequest("network", RogueAps)
      /\ PlainRequest("network", HourlyWanReport)
      /\ PlainRequest("network", SystemLog)
      /\ PlainRequest("network", DpiByApplication)
      /\ PlainRequest("network", ActivityWithResponse)
      /\ PlainRequest("network", ActivityBuckets)
    BY DEF DiagnosticRecords, PortForwards, TrafficRules, TrafficRoutes,
           RogueAps, HourlyWanReport, SystemLog, DpiByApplication,
           ActivityWithResponse, ActivityBuckets, Get, PlainRequest, ClientOf,
           ProtectCollections
<1>6. /\ PlainRequest("network", TrafficSource)
    BY DEF TrafficSource, Get, PlainRequest, ClientOf, ProtectCollections
<1> QED
    BY <1>1, <1>2, <1>3, <1>4, <1>5, <1>6

LEMMA ConsoleReads ==
    /\ PlainRequest("protect", Cameras)
    /\ PlainRequest("protect", CameraWithResponse)
    /\ PlainRequest("protect", CameraStreams)
    /\ PlainRequest("protect", AnimationAssets)
    /\ PlainRequest("protect", ArmProfiles)
    /\ PlainRequest("protect", Viewer)
    /\ PlainRequest("protect", Liveview)
    /\ PlainRequest("protect", ProtectInfo)
    /\ PlainRequest("protect", InfoRecord)
    /\ PlainRequest("protect", Nvr)
    /\ PlainRequest("protect", NvrRecord)
    /\ PlainRequest("protect", ProtectDevices)
    /\ PlainRequest("protect", ProtectDevice)
    /\ PlainRequest("protect", Users)
    /\ PlainRequest("protect", User)
    /\ PlainRequest("protect", Viewers)
    /\ PlainRequest("protect", Liveviews)
    /\ PlainRequest("protect", CameraSnapshot)
    /\ PlainRequest("protect", SubscriptionSocket)
    /\ PlainRequest("protect", ProtectEventsRead)
    /\ PlainRequest("protect", ProtectEventThumbnail)
    /\ PlainRequest("protect", ProtectBootstrap)
    /\ PlainRequest("protect", ProtectCameraInventory)
<1>1. /\ PlainRequest("protect", Cameras)
      /\ PlainRequest("protect", CameraWithResponse)
      /\ PlainRequest("protect", CameraStreams)
      /\ PlainRequest("protect", AnimationAssets)
      /\ PlainRequest("protect", ArmProfiles)
      /\ PlainRequest("protect", Viewer)
      /\ PlainRequest("protect", Liveview)
      /\ PlainRequest("protect", ProtectInfo)
      /\ PlainRequest("protect", InfoRecord)
      /\ PlainRequest("protect", Nvr)
    BY DEF Cameras, CameraWithResponse, CameraStreams, AnimationAssets,
           ArmProfiles, Viewer, Liveview, ProtectInfo, InfoRecord, Nvr, Get,
           PlainRequest, ClientOf, ProtectCollections
<1>2. /\ PlainRequest("protect", NvrRecord)
      /\ PlainRequest("protect", ProtectDevices)
      /\ PlainRequest("protect", ProtectDevice)
      /\ PlainRequest("protect", Users)
      /\ PlainRequest("protect", User)
      /\ PlainRequest("protect", Viewers)
      /\ PlainRequest("protect", Liveviews)
      /\ PlainRequest("protect", CameraSnapshot)
      /\ PlainRequest("protect", SubscriptionSocket)
      /\ PlainRequest("protect", ProtectEventsRead)
    BY DEF NvrRecord, ProtectDevices, ProtectDevice, Users, User, Viewers,
           Liveviews, CameraSnapshot, SubscriptionSocket, ProtectEventsRead,
           Get, PlainRequest, ClientOf, ProtectCollections
<1>3. /\ PlainRequest("protect", ProtectEventThumbnail)
      /\ PlainRequest("protect", ProtectBootstrap)
      /\ PlainRequest("protect", ProtectCameraInventory)
    BY DEF ProtectEventThumbnail, ProtectBootstrap, ProtectCameraInventory,
           Get, PlainRequest, ClientOf, ProtectCollections
<1> QED
    BY <1>1, <1>2, <1>3

LEMMA NetworkKinds ==
    \A kind \in {"AclRulesOrderingRead", "ClientsContext",
                     "ClientsSearch", "DevicesSearch", "DevicesStatus",
                     "EventsRead", "EventsSearch",
                     "FirewallPoliciesOrderingRead", "FirewallRead",
                     "GuestsStatus", "NetworkInventoryDetail",
                     "NetworkInventoryList", "NetworkOverview",
                     "NetworkPolicyDetail", "NetworkPolicyList",
                     "NetworkSourceRead", "NetworkSwitchingDetail",
                     "NetworksList", "NetworksRead", "NetworksStatus",
                     "PendingDevicesList", "PortForwardsList",
                     "PortForwardsStatus", "RadiusProfilesList", "StatsQuery",
                     "TrafficRead", "VouchersSearch", "VouchersStatus",
                     "WifiBroadcastsList", "WifiBroadcastsStatus",
                     "WifiDiagnose", "WlanGroupsList", "WlansList",
                     "WlansStatus"} :
        ReadOnly(kind) /\ Surface(kind) = "network"
<1>1. \A kind \in {"NetworkOverview", "ClientsSearch", "ClientsContext",
                     "DevicesSearch", "DevicesStatus", "PendingDevicesList",
                     "FirewallRead"} :
        ReadOnly(kind)
    BY DEF ReadOnly, Sections, InventorySection, Section
<1>2. \A kind \in {"WifiDiagnose", "EventsSearch", "EventsRead",
                     "StatsQuery", "TrafficRead", "NetworksRead"} :
        ReadOnly(kind)
    BY DEF ReadOnly, Sections, ReportSection, Section
<1>3. \A kind \in {"NetworksList", "NetworksStatus", "RadiusProfilesList",
                     "NetworkSourceRead", "NetworkInventoryList",
                     "NetworkInventoryDetail", "NetworkSwitchingDetail",
                     "NetworkPolicyList", "NetworkPolicyDetail",
                     "AclRulesOrderingRead", "FirewallPoliciesOrderingRead"} :
        ReadOnly(kind)
    BY DEF ReadOnly, Sections, NetworkSection, Section
<1>4. \A kind \in {"WifiBroadcastsList", "WifiBroadcastsStatus",
                     "WlansList", "WlansStatus", "WlanGroupsList"} :
        ReadOnly(kind)
    BY DEF ReadOnly, Sections, WifiSection, Section
<1>5. \A kind \in {"GuestsStatus"} :
        ReadOnly(kind)
    BY DEF ReadOnly, Sections, ControlSection, Section
<1>6. \A kind \in {"PortForwardsList", "PortForwardsStatus",
                     "VouchersSearch", "VouchersStatus"} :
        ReadOnly(kind)
    BY DEF ReadOnly, Sections, RuleSection, Section
<1>7. \A kind \in {"AclRulesOrderingRead", "ClientsContext",
                     "ClientsSearch", "DevicesSearch", "DevicesStatus",
                     "EventsRead", "EventsSearch",
                     "FirewallPoliciesOrderingRead", "FirewallRead",
                     "GuestsStatus", "NetworkInventoryDetail",
                     "NetworkInventoryList", "NetworkOverview",
                     "NetworkPolicyDetail", "NetworkPolicyList",
                     "NetworkSourceRead", "NetworkSwitchingDetail",
                     "NetworksList", "NetworksRead", "NetworksStatus",
                     "PendingDevicesList", "PortForwardsList",
                     "PortForwardsStatus", "RadiusProfilesList", "StatsQuery",
                     "TrafficRead", "VouchersSearch", "VouchersStatus",
                     "WifiBroadcastsList", "WifiBroadcastsStatus",
                     "WifiDiagnose", "WlanGroupsList", "WlansList",
                     "WlansStatus"} :
        Surface(kind) = "network"
    BY DEF Surface, ProtectKinds
<1> QED
    BY <1>1, <1>2, <1>3, <1>4, <1>5, <1>6, <1>7

LEMMA ConsoleKinds ==
    \A kind \in {"CamerasSearch", "CamerasSettingsRead",
                     "CamerasSnapshot", "CamerasStatus", "CamerasStreamsList",
                     "ProtectArmProfilesList", "ProtectAssetsList",
                     "ProtectDevicesList", "ProtectDevicesStatus",
                     "ProtectEventThumbnail", "ProtectEvents",
                     "ProtectLiveviewsList", "ProtectLiveviewsStatus",
                     "ProtectOverview", "ProtectUpdates", "ProtectUsersList",
                     "ProtectUsersStatus", "ProtectViewersList",
                     "ProtectViewersStatus"} :
        ReadOnly(kind) /\ Surface(kind) = "protect"
<1>1. \A kind \in {"CamerasSearch", "CamerasStatus", "ProtectDevicesList",
                     "ProtectDevicesStatus", "ProtectArmProfilesList",
                     "ProtectUsersList", "ProtectUsersStatus",
                     "ProtectViewersList", "ProtectViewersStatus",
                     "ProtectLiveviewsList", "ProtectLiveviewsStatus"} :
        ReadOnly(kind)
    BY DEF ReadOnly, Sections, ConsoleSection, Section
<1>2. \A kind \in {"CamerasSettingsRead", "CamerasSnapshot",
                     "ProtectAssetsList", "CamerasStreamsList",
                     "ProtectOverview", "ProtectEvents",
                     "ProtectEventThumbnail", "ProtectUpdates"} :
        ReadOnly(kind)
    BY DEF ReadOnly, Sections, CameraSection, Section
<1>3. \A kind \in {"CamerasSearch", "CamerasSettingsRead",
                     "CamerasSnapshot", "CamerasStatus", "CamerasStreamsList",
                     "ProtectArmProfilesList", "ProtectAssetsList",
                     "ProtectDevicesList", "ProtectDevicesStatus",
                     "ProtectEventThumbnail", "ProtectEvents",
                     "ProtectLiveviewsList", "ProtectLiveviewsStatus",
                     "ProtectOverview", "ProtectUpdates", "ProtectUsersList",
                     "ProtectUsersStatus", "ProtectViewersList",
                     "ProtectViewersStatus"} :
        Surface(kind) = "protect"
    BY DEF Surface, ProtectKinds
<1> QED
    BY <1>1, <1>2, <1>3

\* A tool is described as a read, and all its requests are plain ones of the
\* surface it is listed for.
Honest(tool) == ReadOnly(tool.kind) /\ PlainCourse(Surface(tool.kind), tool.course)

LEMMA HonestShapes ==
    ASSUME NEW kind, ReadOnly(kind), NEW course, PlainCourse(Surface(kind), course)
    PROVE  /\ Honest(Record(kind, course)) /\ Honest(Paged(kind, course))
           /\ \A order, filters : Honest(Window(kind, course, order, filters))
           /\ \A finish : /\ Honest([Record(kind, course) EXCEPT !.finish = finish])
                          /\ Honest([Paged(kind, course) EXCEPT !.finish = finish])
<1> QED
    BY DEF Record, Paged, Window, Tool, Honest


\* What several courses have in common.
LEMMA PlainParts ==
    /\ PlainCourse("network", DeviceInventory)
    /\ PlainCourse("network", FirewallGeneration)
    /\ PlainCourse("network", ActivityNames)
    /\ \A scope \in {"Public", "CameraNames", "Full"} :
          PlainCourse("protect", CameraInventory(scope))
    /\ PlainCourse("protect", CameraByName)
<1>1. PlainCourse("network", DeviceInventory)
    BY NetworkReads, PlainSteps, PlainTuples DEF DeviceInventory
<1>2. PlainCourse("network", FirewallGeneration)
    BY NetworkReads, PlainSteps, PlainTuples DEF FirewallGeneration
<1>3. PlainCourse("network", ActivityNames)
    BY NetworkReads, PlainSteps, PlainTuples DEF ActivityNames
<1>4. PlainCourse("protect", <<Must(ProtectInfo), Rows("whole", Cameras)>>)
    BY ConsoleReads, PlainSteps, PlainTuples
<1>5. /\ PlainCourse("protect", << >>)
      /\ PlainCourse("protect", <<Local(ProtectCameraInventory)>>)
      /\ PlainCourse("protect", <<Local(ProtectBootstrap), When(Must(Nvr), "local")>>)
    BY ConsoleReads, PlainSteps, PlainTuples
<1>6. ASSUME NEW scope \in {"Public", "CameraNames", "Full"}
      PROVE  PlainCourse("protect", CameraInventory(scope))
    BY <1>4, <1>5, PlainJoined DEF CameraInventory
<1>7. PlainCourse("protect", <<Pick("camera")>>)
    BY PlainPick, PlainTuples
<1>8. PlainCourse("protect", CameraByName)
    BY <1>6, <1>7, PlainJoined DEF CameraByName
<1> QED BY <1>1, <1>2, <1>3, <1>6, <1>8

LEMMA NetworkToolsHonest ==
    /\ Honest(NetworkOverview)
    /\ Honest(ClientsSearch)
    /\ Honest(ClientsContext)
    /\ Honest(DevicesSearch)
    /\ Honest(DevicesStatus)
    /\ Honest(PendingDevicesList)
    /\ Honest(NetworksRead)
    /\ Honest(NetworksList)
    /\ Honest(NetworksStatus)
    /\ Honest(NetworkSwitchingDetail)
    /\ Honest(NetworkPolicyList)
    /\ Honest(NetworkPolicyDetailRead)
    /\ Honest(AclRulesOrderingRead)
    /\ Honest(FirewallPoliciesOrderingRead)
    /\ Honest(RadiusProfilesList)
    /\ Honest(WifiBroadcastsList)
    /\ Honest(WifiBroadcastsStatus)
    /\ Honest(NetworkSourceRead)
    /\ Honest(PortForwardsList)
    /\ Honest(PortForwardsStatus)
    /\ Honest(WlansList)
    /\ Honest(WlansStatus)
    /\ Honest(GuestsStatus)
    /\ Honest(VouchersSearch)
    /\ Honest(VouchersStatus)
    /\ Honest(WifiDiagnose)
    /\ Honest(EventsSearch)
    /\ Honest(EventsRead)
    /\ Honest(DpiStats)
    /\ Honest(TrafficRead)
<1>1. Honest(NetworkOverview)
    <2>1. PlainCourse("network",
             <<Must(Info), Must(SiteHealth), Must(SystemLog),
               Must(SystemLog), Must(Sites), Must(Devices),
               Must(ClientsPage)>>)
        BY NetworkReads, PlainSteps, PlainPick, PlainTuples
    <2> QED BY <2>1, NetworkKinds, HonestShapes DEF NetworkOverview
<1>2. Honest(ClientsSearch)
    <2>1. PlainCourse("network",
             <<Rows("whole", ActiveClients), Sometimes(Must(Devices))>>)
        BY NetworkReads, PlainSteps, PlainPick, PlainTuples
    <2> QED BY <2>1, NetworkKinds, HonestShapes DEF ClientsSearch
<1>3. Honest(ClientsContext)
    <2>1. PlainCourse("network",
             <<Rows("whole", ActiveClients), Pick("client"),
               Sometimes(Must(Devices)), Must(SystemLog)>>)
        BY NetworkReads, PlainSteps, PlainPick, PlainTuples
    <2> QED BY <2>1, NetworkKinds, HonestShapes DEF ClientsContext
<1>4. Honest(DevicesSearch)
    BY PlainParts, NetworkKinds, HonestShapes DEF DevicesSearch
<1>5. Honest(DevicesStatus)
    <2>1. PlainCourse("network",
             <<Pick("device"), Must(DeviceDetail), May(DeviceStatistics)>>)
        BY NetworkReads, PlainSteps, PlainPick, PlainTuples
    <2>2. PlainCourse("network",
             DeviceInventory \o <<Pick("device"), Must(DeviceDetail),
               May(DeviceStatistics)>>)
        BY <2>1, PlainParts, PlainJoined
    <2> QED BY <2>2, NetworkKinds, HonestShapes DEF DevicesStatus
<1>6. Honest(PendingDevicesList)
    <2>1. PlainCourse("network",
             <<Rows("page", PendingDevices)>>)
        BY NetworkReads, PlainSteps, PlainPick, PlainTuples
    <2> QED BY <2>1, NetworkKinds, HonestShapes DEF PendingDevicesList
<1>7. Honest(NetworksRead)
    <2>1. PlainCourse("network",
             <<Must(Networks), Sometimes(Must(Wlans))>>)
        BY NetworkReads, PlainSteps, PlainPick, PlainTuples
    <2> QED BY <2>1, NetworkKinds, HonestShapes DEF NetworksRead
<1>8. Honest(NetworksList)
    <2>1. PlainCourse("network",
             <<Must(Sites), Rows("page", NetworkRecords)>>)
        BY NetworkReads, PlainSteps, PlainPick, PlainTuples
    <2> QED BY <2>1, NetworkKinds, HonestShapes DEF NetworksList
<1>9. Honest(NetworksStatus)
    <2>1. PlainCourse("network",
             <<Must(Sites), Must(NetworkRecord),
               Sometimes(May(NetworkReferences))>>)
        BY NetworkReads, PlainSteps, PlainPick, PlainTuples
    <2> QED BY <2>1, NetworkKinds, HonestShapes DEF NetworksStatus
<1>10. Honest(NetworkSwitchingDetail)
    <2>1. PlainCourse("network",
             <<Must(Sites), Must(SwitchingDetail)>>)
        BY NetworkReads, PlainSteps, PlainPick, PlainTuples
    <2> QED BY <2>1, NetworkKinds, HonestShapes DEF NetworkSwitchingDetail
<1>11. Honest(NetworkPolicyList)
    <2>1. PlainCourse("network",
             <<Must(Sites), Rows("page", NetworkPolicyPage)>>)
        BY NetworkReads, PlainSteps, PlainPick, PlainTuples
    <2> QED BY <2>1, NetworkKinds, HonestShapes DEF NetworkPolicyList
<1>12. Honest(NetworkPolicyDetailRead)
    <2>1. PlainCourse("network",
             <<Must(Sites), Must(NetworkPolicyDetail)>>)
        BY NetworkReads, PlainSteps, PlainPick, PlainTuples
    <2> QED BY <2>1, NetworkKinds, HonestShapes DEF NetworkPolicyDetailRead
<1>13. Honest(AclRulesOrderingRead)
    <2>1. PlainCourse("network",
             <<Must(Sites), Must(AclRuleOrdering)>>)
        BY NetworkReads, PlainSteps, PlainPick, PlainTuples
    <2> QED BY <2>1, NetworkKinds, HonestShapes DEF AclRulesOrderingRead
<1>14. Honest(FirewallPoliciesOrderingRead)
    <2>1. PlainCourse("network",
             <<Must(Sites), Must(FirewallPolicyOrdering)>>)
        BY NetworkReads, PlainSteps, PlainPick, PlainTuples
    <2> QED BY <2>1, NetworkKinds, HonestShapes DEF FirewallPoliciesOrderingRead
<1>15. Honest(RadiusProfilesList)
    <2>1. PlainCourse("network",
             <<Must(Sites), Rows("page", RadiusProfileRecords)>>)
        BY NetworkReads, PlainSteps, PlainPick, PlainTuples
    <2> QED BY <2>1, NetworkKinds, HonestShapes DEF RadiusProfilesList
<1>16. Honest(WifiBroadcastsList)
    <2>1. PlainCourse("network",
             <<Must(Sites), Rows("page", WifiBroadcastRecords)>>)
        BY NetworkReads, PlainSteps, PlainPick, PlainTuples
    <2> QED BY <2>1, NetworkKinds, HonestShapes DEF WifiBroadcastsList
<1>17. Honest(WifiBroadcastsStatus)
    <2>1. PlainCourse("network",
             <<Must(Sites), Must(WifiBroadcast)>>)
        BY NetworkReads, PlainSteps, PlainPick, PlainTuples
    <2> QED BY <2>1, NetworkKinds, HonestShapes DEF WifiBroadcastsStatus
<1>18. Honest(NetworkSourceRead)
    <2>1. PlainCourse("network",
             <<Rows("whole", DiagnosticRecords)>>)
        BY NetworkReads, PlainSteps, PlainPick, PlainTuples
    <2> QED BY <2>1, NetworkKinds, HonestShapes DEF NetworkSourceRead
<1>19. Honest(PortForwardsList)
    <2>1. PlainCourse("network",
             <<Rows("whole", PortForwardRecords)>>)
        BY NetworkReads, PlainSteps, PlainPick, PlainTuples
    <2> QED BY <2>1, NetworkKinds, HonestShapes DEF PortForwardsList
<1>20. Honest(PortForwardsStatus)
    <2>1. PlainCourse("network",
             <<Must(PortForwardRecord)>>)
        BY NetworkReads, PlainSteps, PlainPick, PlainTuples
    <2> QED BY <2>1, NetworkKinds, HonestShapes DEF PortForwardsStatus
<1>21. Honest(WlansList)
    <2>1. PlainCourse("network",
             <<Rows("whole", WlanRecords)>>)
        BY NetworkReads, PlainSteps, PlainPick, PlainTuples
    <2> QED BY <2>1, NetworkKinds, HonestShapes DEF WlansList
<1>22. Honest(WlansStatus)
    <2>1. PlainCourse("network",
             <<Must(WlanRecord)>>)
        BY NetworkReads, PlainSteps, PlainPick, PlainTuples
    <2> QED BY <2>1, NetworkKinds, HonestShapes DEF WlansStatus
<1>23. Honest(GuestsStatus)
    <2>1. PlainCourse("network",
             <<Must(Sites), Rows("scan", ClientsPage), Pick("address"),
               Must(ClientDetail)>>)
        BY NetworkReads, PlainSteps, PlainPick, PlainTuples
    <2> QED BY <2>1, NetworkKinds, HonestShapes DEF GuestsStatus
<1>24. Honest(VouchersSearch)
    <2>1. PlainCourse("network",
             <<Must(Sites), Rows("vouchers", VoucherRecords)>>)
        BY NetworkReads, PlainSteps, PlainPick, PlainTuples
    <2> QED BY <2>1, NetworkKinds, HonestShapes DEF VouchersSearch
<1>25. Honest(VouchersStatus)
    <2>1. PlainCourse("network",
             <<Must(Sites), Must(VoucherWithResponse)>>)
        BY NetworkReads, PlainSteps, PlainPick, PlainTuples
    <2> QED BY <2>1, NetworkKinds, HonestShapes DEF VouchersStatus
<1>26. Honest(WifiDiagnose)
    <2>1. PlainCourse("network",
             <<Must(ActiveClients)>>)
        BY NetworkReads, PlainSteps, PlainPick, PlainTuples
    <2>2. PlainCourse("network",
             <<Sometimes(Must(DeviceDetail)), RogueSection>>)
        BY NetworkReads, PlainSteps, PlainPick, PlainTuples DEF RogueSection
    <2>3. PlainCourse("network",
             <<Must(ActiveClients)>> \o DeviceInventory \o <<Sometimes(Must(DeviceDetail)),
               RogueSection>>)
        BY <2>1, <2>2, PlainParts, PlainJoined
    <2> QED BY <2>3, NetworkKinds, HonestShapes DEF WifiDiagnose
<1>27. Honest(EventsSearch)
    <2>1. PlainCourse("network",
             <<Rows("logWindow", SystemLog)>>)
        BY NetworkReads, PlainSteps, PlainPick, PlainTuples
    <2> QED BY <2>1, NetworkKinds, HonestShapes DEF EventsSearch
<1>28. Honest(EventsRead)
    <2>1. PlainCourse("network",
             <<Rows("log", SystemLog)>>)
        BY NetworkReads, PlainSteps, PlainPick, PlainTuples
    <2> QED BY <2>1, NetworkKinds, HonestShapes DEF EventsRead
<1>29. Honest(DpiStats)
    <2>1. PlainCourse("network",
             <<Must(ActivityWithResponse), Must(DpiByApplication)>>)
        BY NetworkReads, PlainSteps, PlainPick, PlainTuples
    <2> QED BY <2>1, NetworkKinds, HonestShapes DEF DpiStats
<1>30. Honest(TrafficRead)
    <2>1. PlainCourse("network",
             <<May(TrafficSource)>>)
        BY NetworkReads, PlainSteps, PlainPick, PlainTuples
    <2> QED BY <2>1, NetworkKinds, HonestShapes DEF TrafficRead
<1> QED BY <1>1, <1>2, <1>3, <1>4, <1>5, <1>6, <1>7, <1>8, <1>9, <1>10, <1>11,
           <1>12, <1>13, <1>14, <1>15, <1>16, <1>17, <1>18, <1>19, <1>20,
           <1>21, <1>22, <1>23, <1>24, <1>25, <1>26, <1>27, <1>28, <1>29,
           <1>30

LEMMA NetworkFormsHonest ==
    /\ Honest(FirewallRead("zones"))
    /\ Honest(FirewallRead("policies"))
    /\ Honest(FirewallRead("portForwards"))
    /\ Honest(FirewallRead("trafficRules"))
    /\ Honest(FirewallRead("trafficRoutes"))
    /\ Honest(FirewallRead("all"))
    /\ Honest(NetworkInventoryList("site"))
    /\ Honest(NetworkInventoryList("sites"))
    /\ Honest(NetworkInventoryList("countries"))
    /\ Honest(NetworkInventoryList("dpi"))
    /\ Honest(NetworkInventoryList("dpiFiltered"))
    /\ Honest(NetworkInventoryDetail("applicationInfo"))
    /\ Honest(NetworkInventoryDetail("client"))
    /\ Honest(WlanGroupsList("users"))
    /\ Honest(WlanGroupsList("wlans"))
    /\ Honest(WlanGroupsList("accessPoints"))
    /\ Honest(StatsQuery("wanHourly"))
    /\ Honest(StatsQuery("clientWanHistory"))
    /\ Honest(StatsQuery("dpiApplications"))
<1>1. Honest(FirewallRead("zones"))
    <2>1. PlainCourse("network",
             <<ZonesSection>>)
        BY NetworkReads, PlainSteps, PlainPick, PlainTuples DEF ZonesSection
    <2>2. PlainCourse("network",
             FirewallGeneration \o <<ZonesSection>>)
        BY <2>1, PlainParts, PlainJoined
    <2> QED BY <2>2, NetworkKinds, HonestShapes DEF FirewallRead
<1>2. Honest(FirewallRead("policies"))
    <2>1. PlainCourse("network",
             <<PoliciesSection>>)
        BY NetworkReads, PlainSteps, PlainPick, PlainTuples DEF PoliciesSection
    <2>2. PlainCourse("network",
             FirewallGeneration \o <<PoliciesSection>>)
        BY <2>1, PlainParts, PlainJoined
    <2> QED BY <2>2, NetworkKinds, HonestShapes DEF FirewallRead
<1>3. Honest(FirewallRead("portForwards"))
    <2>1. PlainCourse("network",
             <<PortForwardsSection>>)
        BY NetworkReads, PlainSteps, PlainPick, PlainTuples DEF PortForwardsSection
    <2> QED BY <2>1, NetworkKinds, HonestShapes DEF FirewallRead
<1>4. Honest(FirewallRead("trafficRules"))
    <2>1. PlainCourse("network",
             <<TrafficRulesSection>>)
        BY NetworkReads, PlainSteps, PlainPick, PlainTuples DEF TrafficRulesSection
    <2> QED BY <2>1, NetworkKinds, HonestShapes DEF FirewallRead
<1>5. Honest(FirewallRead("trafficRoutes"))
    <2>1. PlainCourse("network",
             <<TrafficRoutesSection>>)
        BY NetworkReads, PlainSteps, PlainPick, PlainTuples DEF TrafficRoutesSection
    <2> QED BY <2>1, NetworkKinds, HonestShapes DEF FirewallRead
<1>6. Honest(FirewallRead("all"))
    <2>1. PlainCourse("network",
             <<Must(FirewallZones), Rows("scan", FirewallPolicies),
               PortForwardsSection, TrafficRulesSection,
               TrafficRoutesSection>>)
        BY NetworkReads, PlainSteps, PlainPick, PlainTuples DEF PortForwardsSection, TrafficRulesSection, TrafficRoutesSection
    <2>2. PlainCourse("network",
             FirewallGeneration \o <<Must(FirewallZones), Rows("scan",
               FirewallPolicies), PortForwardsSection, TrafficRulesSection,
               TrafficRoutesSection>>)
        BY <2>1, PlainParts, PlainJoined
    <2> QED BY <2>2, NetworkKinds, HonestShapes DEF FirewallRead
<1>7. Honest(NetworkInventoryList("site"))
    <2>1. PlainCourse("network",
             <<Must(Sites), Rows("page", SiteInventory)>>)
        BY NetworkReads, PlainSteps, PlainPick, PlainTuples
    <2> QED BY <2>1, NetworkKinds, HonestShapes DEF NetworkInventoryList
<1>8. Honest(NetworkInventoryList("sites"))
    <2>1. PlainCourse("network",
             <<Rows("page", SiteRecords)>>)
        BY NetworkReads, PlainSteps, PlainPick, PlainTuples
    <2> QED BY <2>1, NetworkKinds, HonestShapes DEF NetworkInventoryList
<1>9. Honest(NetworkInventoryList("countries"))
    <2>1. PlainCourse("network",
             <<Rows("page", Countries)>>)
        BY NetworkReads, PlainSteps, PlainPick, PlainTuples
    <2> QED BY <2>1, NetworkKinds, HonestShapes DEF NetworkInventoryList
<1>10. Honest(NetworkInventoryList("dpi"))
    <2>1. PlainCourse("network",
             <<Rows("page", DpiCatalog)>>)
        BY NetworkReads, PlainSteps, PlainPick, PlainTuples
    <2> QED BY <2>1, NetworkKinds, HonestShapes DEF NetworkInventoryList
<1>11. Honest(NetworkInventoryList("dpiFiltered"))
    <2>1. PlainCourse("network",
             <<Rows("catalog", DpiCatalog)>>)
        BY NetworkReads, PlainSteps, PlainPick, PlainTuples
    <2> QED BY <2>1, NetworkKinds, HonestShapes DEF NetworkInventoryList
<1>12. Honest(NetworkInventoryDetail("applicationInfo"))
    <2>1. PlainCourse("network",
             <<Must(Info)>>)
        BY NetworkReads, PlainSteps, PlainPick, PlainTuples
    <2> QED BY <2>1, NetworkKinds, HonestShapes DEF NetworkInventoryDetail
<1>13. Honest(NetworkInventoryDetail("client"))
    <2>1. PlainCourse("network",
             <<Must(Sites), Must(InventoryDetail)>>)
        BY NetworkReads, PlainSteps, PlainPick, PlainTuples
    <2> QED BY <2>1, NetworkKinds, HonestShapes DEF NetworkInventoryDetail
<1>14. Honest(WlanGroupsList("users"))
    <2>1. PlainCourse("network",
             <<Rows("whole", UserGroups)>>)
        BY NetworkReads, PlainSteps, PlainPick, PlainTuples
    <2> QED BY <2>1, NetworkKinds, HonestShapes DEF WlanGroupsList
<1>15. Honest(WlanGroupsList("wlans"))
    <2>1. PlainCourse("network",
             <<Rows("whole", WlanGroups)>>)
        BY NetworkReads, PlainSteps, PlainPick, PlainTuples
    <2> QED BY <2>1, NetworkKinds, HonestShapes DEF WlanGroupsList
<1>16. Honest(WlanGroupsList("accessPoints"))
    <2>1. PlainCourse("network",
             <<Rows("whole", ApGroups)>>)
        BY NetworkReads, PlainSteps, PlainPick, PlainTuples
    <2> QED BY <2>1, NetworkKinds, HonestShapes DEF WlanGroupsList
<1>17. Honest(StatsQuery("wanHourly"))
    <2>1. PlainCourse("network",
             <<Must(HourlyWanReport)>>)
        BY NetworkReads, PlainSteps, PlainPick, PlainTuples
    <2> QED BY <2>1, NetworkKinds, HonestShapes DEF StatsQuery
<1>18. Honest(StatsQuery("clientWanHistory"))
    <2>1. PlainCourse("network",
             <<Rows("whole", ActivityWithResponse), Must(ActivityBuckets),
               ReconcileActivity>>)
        BY NetworkReads, PlainSteps, PlainPick, PlainTuples DEF ReconcileActivity
    <2> QED BY <2>1, NetworkKinds, HonestShapes DEF StatsQuery, ActivityStats
<1>19. Honest(StatsQuery("dpiApplications"))
    <2>1. PlainCourse("network",
             <<Must(ActivityWithResponse), Must(ActivityBuckets),
               ReconcileActivity>>)
        BY NetworkReads, PlainSteps, PlainPick, PlainTuples DEF ReconcileActivity
    <2>2. PlainCourse("network",
             <<Must(ActivityWithResponse), Must(ActivityBuckets),
               ReconcileActivity>> \o ActivityNames)
        BY <2>1, PlainParts, PlainJoined
    <2> QED BY <2>2, NetworkKinds, HonestShapes DEF StatsQuery, ActivityStats
<1> QED BY <1>1, <1>2, <1>3, <1>4, <1>5, <1>6, <1>7, <1>8, <1>9, <1>10, <1>11,
           <1>12, <1>13, <1>14, <1>15, <1>16, <1>17, <1>18, <1>19

LEMMA ConsoleToolsHonest ==
    /\ Honest(CamerasSearch)
    /\ Honest(CamerasStatus)
    /\ Honest(CamerasSettingsRead)
    /\ Honest(CamerasSnapshot)
    /\ Honest(CamerasStreamsList)
    /\ Honest(ProtectDevicesList)
    /\ Honest(ProtectDevicesStatus)
    /\ Honest(ProtectArmProfilesList)
    /\ Honest(ProtectUsersList)
    /\ Honest(ProtectUsersStatus)
    /\ Honest(ProtectViewersList)
    /\ Honest(ProtectViewersStatus)
    /\ Honest(ProtectLiveviewsList)
    /\ Honest(ProtectLiveviewsStatus)
    /\ Honest(ProtectAssetsList)
    /\ Honest(ProtectEventThumbnailRead)
    /\ Honest(ProtectEvents)
    /\ Honest(ProtectEventsOfCamera)
    /\ Honest(ProtectUpdates)
    /\ Honest(ProtectOverview("applicationInfo"))
    /\ Honest(ProtectOverview("recorder"))
    /\ Honest(ProtectOverview("summary"))
<1>1. Honest(CamerasSearch)
    BY PlainParts, ConsoleKinds, HonestShapes DEF CamerasSearch
<1>2. Honest(CamerasStatus)
    <2>1. PlainCourse("protect",
             <<Pick("camera")>>)
        BY ConsoleReads, PlainSteps, PlainPick, PlainTuples
    <2>2. PlainCourse("protect",
             CameraInventory("Full") \o <<Pick("camera")>>)
        BY <2>1, PlainParts, PlainJoined
    <2> QED BY <2>2, ConsoleKinds, HonestShapes DEF CamerasStatus
<1>3. Honest(CamerasSettingsRead)
    <2>1. PlainCourse("protect",
             <<Must(CameraWithResponse)>>)
        BY ConsoleReads, PlainSteps, PlainPick, PlainTuples
    <2>2. PlainCourse("protect",
             CameraByName \o <<Must(CameraWithResponse)>>)
        BY <2>1, PlainParts, PlainJoined
    <2> QED BY <2>2, ConsoleKinds, HonestShapes DEF CamerasSettingsRead
<1>4. Honest(CamerasSnapshot)
    <2>1. PlainCourse("protect",
             <<Must(CameraSnapshot)>>)
        BY ConsoleReads, PlainSteps, PlainPick, PlainTuples
    <2>2. PlainCourse("protect",
             CameraByName \o <<Must(CameraSnapshot)>>)
        BY <2>1, PlainParts, PlainJoined
    <2> QED BY <2>2, ConsoleKinds, HonestShapes DEF CamerasSnapshot
<1>5. Honest(CamerasStreamsList)
    <2>1. PlainCourse("protect",
             <<Must(CameraStreams)>>)
        BY ConsoleReads, PlainSteps, PlainPick, PlainTuples
    <2>2. PlainCourse("protect",
             CameraByName \o <<Must(CameraStreams)>>)
        BY <2>1, PlainParts, PlainJoined
    <2> QED BY <2>2, ConsoleKinds, HonestShapes DEF CamerasStreamsList
<1>6. Honest(ProtectDevicesList)
    <2>1. PlainCourse("protect",
             <<Rows("whole", ProtectDevices)>>)
        BY ConsoleReads, PlainSteps, PlainPick, PlainTuples
    <2> QED BY <2>1, ConsoleKinds, HonestShapes DEF ProtectDevicesList
<1>7. Honest(ProtectDevicesStatus)
    <2>1. PlainCourse("protect",
             <<Must(ProtectDevice)>>)
        BY ConsoleReads, PlainSteps, PlainPick, PlainTuples
    <2> QED BY <2>1, ConsoleKinds, HonestShapes DEF ProtectDevicesStatus
<1>8. Honest(ProtectArmProfilesList)
    <2>1. PlainCourse("protect",
             <<Rows("whole", ArmProfiles)>>)
        BY ConsoleReads, PlainSteps, PlainPick, PlainTuples
    <2> QED BY <2>1, ConsoleKinds, HonestShapes DEF ProtectArmProfilesList
<1>9. Honest(ProtectUsersList)
    <2>1. PlainCourse("protect",
             <<Rows("whole", Users)>>)
        BY ConsoleReads, PlainSteps, PlainPick, PlainTuples
    <2> QED BY <2>1, ConsoleKinds, HonestShapes DEF ProtectUsersList
<1>10. Honest(ProtectUsersStatus)
    <2>1. PlainCourse("protect",
             <<Must(User)>>)
        BY ConsoleReads, PlainSteps, PlainPick, PlainTuples
    <2> QED BY <2>1, ConsoleKinds, HonestShapes DEF ProtectUsersStatus
<1>11. Honest(ProtectViewersList)
    <2>1. PlainCourse("protect",
             <<Rows("whole", Viewers)>>)
        BY ConsoleReads, PlainSteps, PlainPick, PlainTuples
    <2> QED BY <2>1, ConsoleKinds, HonestShapes DEF ProtectViewersList
<1>12. Honest(ProtectViewersStatus)
    <2>1. PlainCourse("protect",
             <<Must(Viewer)>>)
        BY ConsoleReads, PlainSteps, PlainPick, PlainTuples
    <2> QED BY <2>1, ConsoleKinds, HonestShapes DEF ProtectViewersStatus
<1>13. Honest(ProtectLiveviewsList)
    <2>1. PlainCourse("protect",
             <<Rows("whole", Liveviews)>>)
        BY ConsoleReads, PlainSteps, PlainPick, PlainTuples
    <2> QED BY <2>1, ConsoleKinds, HonestShapes DEF ProtectLiveviewsList
<1>14. Honest(ProtectLiveviewsStatus)
    <2>1. PlainCourse("protect",
             <<Must(Liveview)>>)
        BY ConsoleReads, PlainSteps, PlainPick, PlainTuples
    <2> QED BY <2>1, ConsoleKinds, HonestShapes DEF ProtectLiveviewsStatus
<1>15. Honest(ProtectAssetsList)
    <2>1. PlainCourse("protect",
             <<Rows("whole", AnimationAssets)>>)
        BY ConsoleReads, PlainSteps, PlainPick, PlainTuples
    <2> QED BY <2>1, ConsoleKinds, HonestShapes DEF ProtectAssetsList
<1>16. Honest(ProtectEventThumbnailRead)
    <2>1. PlainCourse("protect",
             <<Must(ProtectEventThumbnail)>>)
        BY ConsoleReads, PlainSteps, PlainPick, PlainTuples
    <2> QED BY <2>1, ConsoleKinds, HonestShapes DEF ProtectEventThumbnailRead
<1>17. Honest(ProtectEvents)
    <2>1. PlainCourse("protect",
             <<Must(ProtectInfo), Must(Cameras), Rows("events",
               ProtectEventsRead)>>)
        BY ConsoleReads, PlainSteps, PlainPick, PlainTuples
    <2> QED BY <2>1, ConsoleKinds, HonestShapes DEF ProtectEvents
<1>18. Honest(ProtectEventsOfCamera)
    <2>1. PlainCourse("protect",
             <<Step("names", ProtectCameraInventory), Pick("eventCamera"),
               Must(ProtectEventsRead)>>)
        BY ConsoleReads, PlainSteps, PlainPick, PlainTuples
    <2>2. PlainCourse("protect",
             CameraInventory("Public") \o <<Step("names",
               ProtectCameraInventory), Pick("eventCamera"),
               Must(ProtectEventsRead)>>)
        BY <2>1, PlainParts, PlainJoined
    <2> QED BY <2>2, ConsoleKinds, HonestShapes DEF ProtectEventsOfCamera
<1>19. Honest(ProtectUpdates)
    <2>1. PlainCourse("protect",
             <<Rows("socket", SubscriptionSocket)>>)
        BY ConsoleReads, PlainSteps, PlainPick, PlainTuples
    <2> QED BY <2>1, ConsoleKinds, HonestShapes DEF ProtectUpdates
<1>20. Honest(ProtectOverview("applicationInfo"))
    <2>1. PlainCourse("protect",
             <<Must(InfoRecord)>>)
        BY ConsoleReads, PlainSteps, PlainPick, PlainTuples
    <2> QED BY <2>1, ConsoleKinds, HonestShapes DEF ProtectOverview
<1>21. Honest(ProtectOverview("recorder"))
    <2>1. PlainCourse("protect",
             <<Must(NvrRecord)>>)
        BY ConsoleReads, PlainSteps, PlainPick, PlainTuples
    <2> QED BY <2>1, ConsoleKinds, HonestShapes DEF ProtectOverview
<1>22. Honest(ProtectOverview("summary"))
    <2>1. PlainCourse("protect",
             <<When(Must(Nvr), "noLocal")>>)
        BY ConsoleReads, PlainSteps, PlainPick, PlainTuples
    <2>2. PlainCourse("protect",
             CameraInventory("Full") \o <<When(Must(Nvr), "noLocal")>>)
        BY <2>1, PlainParts, PlainJoined
    <2> QED BY <2>2, ConsoleKinds, HonestShapes DEF ProtectOverview
<1> QED BY <1>1, <1>2, <1>3, <1>4, <1>5, <1>6, <1>7, <1>8, <1>9, <1>10, <1>11,
           <1>12, <1>13, <1>14, <1>15, <1>16, <1>17, <1>18, <1>19, <1>20,
           <1>21, <1>22

LEMMA ToolsHonest ==
    \A tool \in ReadingTools : Honest(tool)
<1> QED
    BY NetworkToolsHonest, NetworkFormsHonest, ConsoleToolsHonest DEF ReadingTools


\* Only a listed tool is dispatched, and a walk goes on with it.
LEMMA ListedKept ==
    ASSUME TypeOK, ListedInv, [Next]_vars
    PROVE  ListedInv'
<1>1. CASE Begin
    <2>1. PICK tool \in Tools : CallUnknown(tool) \/ Call(tool)
        BY <1>1 DEF Begin
    <2>2. CASE CallUnknown(tool)
        BY <2>2 DEF CallUnknown, ListedInv
    <2>3. CASE Call(tool)
        <3>1. tool.kind \in ToolsForSurface(runtime) /\ runtime' = runtime /\ ask'.tool = tool
            BY <2>3 DEF Call
        <3> QED BY <3>1 DEF ListedInv
    <2> QED BY <2>1, <2>2, <2>3
<1>2. CASE CallStep
    <2>1. ask' = ask /\ runtime' = runtime /\ phase = "walking"
        BY <1>2, CallStepAsks, CallStepTypes
    <2> QED BY <2>1 DEF ListedInv
<1>3. CASE Edit
    <2>1. UNCHANGED asked /\ phase = "walking"
        BY <1>3, EditShape DEF TypeOK
    <2> QED BY <2>1 DEF asked, ListedInv
<1>4. CASE UNCHANGED vars
    BY <1>4 DEF vars, asked, walk, ListedInv
<1> QED BY <1>1, <1>2, <1>3, <1>4 DEF Next

\* RegistryIsHonest, for the tools the server has: a tool that tools/list
\* shows never reaches the unreachable! of the client accessors, and every
\* request of one that is described as a read is a plain one.
THEOREM RegistryHonest == Tools \subseteq ReadingTools => (Spec => []RegistryIsHonest)
<1> SUFFICES ASSUME Tools \subseteq ReadingTools
             PROVE  Spec => []RegistryIsHonest
    OBVIOUS
<1>1. Init => ListedInv
    BY DEF Init, ListedInv
<1>2. TypeOK /\ ListedInv /\ [Next]_vars => ListedInv'
    BY ListedKept
<1>3. TypeOK /\ ListedInv => RegistryIsHonest
    <2> SUFFICES ASSUME TypeOK, ListedInv, Busy, Cur.request # None
                 PROVE  HasClient /\ (ReadOnly(ask.tool.kind) <=> Cur.request.retries)
        BY DEF RegistryIsHonest
    <2>1. Honest(ask.tool) /\ Surface(ask.tool.kind) = runtime
        BY ToolsHonest DEF ListedInv, Busy, ToolsForSurface
    <2>2. PICK S : Course \in Seq(S) /\ \A s \in S : PlainStep(runtime, s)
        BY <2>1 DEF Honest, PlainCourse, Course
    <2>3. step \in 1..Len(Course)
        BY <2>2 DEF TypeOK, CallOK, Busy
    <2>4. PlainStep(runtime, Cur)
        BY <2>2, <2>3 DEF Cur
    <2> QED BY <2>1, <2>4 DEF PlainStep, PlainRequest, HasClient, Honest
<1> QED BY <1>1, <1>2, <1>3, ReadTypesHold, PTL DEF Spec
=============================================================================
