---------------------------- MODULE TagParserProofs ----------------------------
(***************************************************************************)
(* Proofs about the tag loader: for every file, init_tags rejects every   *)
(* file the reference of spec section 6 rejects, and where both accept    *)
(* the file they build the same table apart from the keys the code reads  *)
(* from indented comments.  The argument is a loop invariant of the for   *)
(* loop: after each line, the code's table agrees with the reference's    *)
(* table of the lines read so far.                                         *)
(***************************************************************************)
EXTENDS TagParser, SequenceTheorems, WellFoundedInduction, TLAPS

(* The positions of the characters str.strip() keeps between, and the     *)
(* first and last of them.                                                 *)
Keep(t) == {i \in 1..Len(t) : t[i] \notin Whitespace}
Lo(t) == Least(Keep(t))
Hi(t) == Greatest(Keep(t))

-----------------------------------------------------------------------------
(* A function on 1..n is a sequence of length n.                           *)
LEMMA FunSeq ==
    ASSUME NEW S, NEW n \in Nat, NEW f \in [1..n -> S]
    PROVE  f \in Seq(S) /\ Len(f) = n
BY SMT

(* A non-empty set of naturals has a least element.                        *)
LEMMA LeastExists ==
    ASSUME NEW T \in SUBSET Nat, T # {}
    PROVE  \E x \in T : \A y \in T : x <= y
<1>1. PICK x \in T : \A y \in T : ~(<<y, x>> \in OpToRel(<, Nat))
  BY NatLessThanWellFounded, WFMin
<1>2. \A y \in T : ~(y < x)
  BY <1>1 DEF OpToRel
<1>3. QED
  BY <1>2

LEMMA LeastProp ==
    ASSUME NEW S \in SUBSET Nat, S # {}
    PROVE  Least(S) \in S /\ \A j \in S : Least(S) <= j
BY LeastExists DEF Least

LEMMA LeastIs ==
    ASSUME NEW S \in SUBSET Nat, NEW m \in S, \A j \in S : m <= j
    PROVE  Least(S) = m
<1>1. Least(S) \in S /\ \A j \in S : Least(S) <= j
  BY LeastProp
<1>2. Least(S) <= m /\ m <= Least(S)
  BY <1>1
<1>3. Least(S) \in Nat
  BY <1>1
<1>4. QED
  BY <1>2, <1>3

(* A non-empty set of naturals below a bound has a greatest element.       *)
LEMMA GreatestProp ==
    ASSUME NEW n \in Nat, NEW S \in SUBSET (0..n), S # {}
    PROVE  Greatest(S) \in S /\ \A j \in S : j <= Greatest(S)
<1> DEFINE T == {n - x : x \in S}
<1>1. T \in SUBSET Nat /\ T # {}
  <2>1. \A x \in S : n - x \in Nat
    OBVIOUS
  <2>2. QED
    BY <2>1, Zenon
<1>2. PICK y \in T : \A z \in T : y <= z
  BY <1>1, LeastExists
<1>3. PICK x \in S : y = n - x
  BY <1>2
<1>4. \A j \in S : j <= x
  <2> SUFFICES ASSUME NEW j \in S PROVE j <= x
    OBVIOUS
  <2>1. n - j \in T
    OBVIOUS
  <2>2. y <= n - j
    BY <1>2, <2>1
  <2>3. QED
    BY <1>3, <2>2
<1>5. QED
  BY <1>3, <1>4 DEF Greatest

LEMMA GreatestIs ==
    ASSUME NEW n \in Nat, NEW S \in SUBSET (0..n), NEW m \in S,
           \A j \in S : j <= m
    PROVE  Greatest(S) = m
<1>1. Greatest(S) \in S /\ \A j \in S : j <= Greatest(S)
  BY GreatestProp
<1>2. Greatest(S) <= m /\ m <= Greatest(S)
  BY <1>1
<1>3. Greatest(S) \in 0..n
  BY <1>1, Zenon
<1>4. QED
  BY <1>2, <1>3

-----------------------------------------------------------------------------
(* What str.strip() returns: nothing when every character is whitespace,  *)
(* else the text from the first to the last other character.              *)
LEMMA StripShape ==
    ASSUME NEW X, NEW t \in Seq(X)
    PROVE  /\ Keep(t) = {} => Strip(t) = <<>>
           /\ Keep(t) # {} =>
                 /\ Lo(t) \in Keep(t) /\ Hi(t) \in Keep(t)
                 /\ 1 <= Lo(t) /\ Lo(t) <= Hi(t) /\ Hi(t) <= Len(t)
                 /\ \A j \in Keep(t) : Lo(t) <= j /\ j <= Hi(t)
                 /\ Strip(t) = SubSeq(t, Lo(t), Hi(t))
<1>1. Len(t) \in Nat /\ Keep(t) \subseteq 1..Len(t)
  BY LenProperties DEF Keep
<1>2. Keep(t) = {} => Strip(t) = <<>>
  BY DEF Strip, Keep
<1>3. ASSUME Keep(t) # {}
      PROVE  /\ Lo(t) \in Keep(t) /\ Hi(t) \in Keep(t)
             /\ \A j \in Keep(t) : Lo(t) <= j /\ j <= Hi(t)
  <2>1. Keep(t) \in SUBSET Nat /\ Keep(t) \in SUBSET (0..Len(t))
    BY <1>1
  <2>2. Lo(t) \in Keep(t) /\ \A j \in Keep(t) : Lo(t) <= j
    BY <1>3, <2>1, LeastProp DEF Lo
  <2>3. Hi(t) \in Keep(t) /\ \A j \in Keep(t) : j <= Hi(t)
    BY <1>1, <1>3, <2>1, GreatestProp DEF Hi
  <2>4. QED
    BY <2>2, <2>3
<1>4. Keep(t) # {} => Strip(t) = SubSeq(t, Lo(t), Hi(t))
  BY DEF Strip, Keep, Lo, Hi
<1>5. QED
  BY <1>1, <1>2, <1>3, <1>4


(* Cutting whitespace off the ends of a text does not change what         *)
(* str.strip() returns.                                                    *)
LEMMA StripSub ==
    ASSUME NEW X, NEW u \in Seq(X), NEW a \in Nat, NEW c \in Nat,
           1 <= a, a - 1 <= c, c <= Len(u),
           \A j \in 1..a - 1 : u[j] \in Whitespace,
           \A j \in c + 1..Len(u) : u[j] \in Whitespace
    PROVE  Strip(SubSeq(u, a, c)) = Strip(u)
<1> DEFINE v == SubSeq(u, a, c)
           d == a - 1
<1>0. Len(u) \in Nat
  BY LenProperties
<1>1. /\ v \in Seq(X) /\ Len(v) = c - a + 1
      /\ \A i \in 1..Len(v) : v[i] = u[i + d]
  <2>1. \A i \in a..c : u[i] \in X
    BY <1>0, ElementOfSeq
  <2>2. /\ v \in Seq(X)
        /\ Len(v) = IF a <= c THEN c - a + 1 ELSE 0
        /\ \A i \in 1..c - a + 1 : v[i] = u[a + i - 1]
    BY <2>1, SubSeqProperties
  <2>3. QED
    BY <2>2
<1> HIDE DEF v, d
<1>9. d \in Nat /\ Keep(u) \subseteq 1..Len(u) /\ Len(v) \in Nat
  BY <1>0, <1>1 DEF d, Keep
<1>2. \A j \in 1..Len(v) : j \in Keep(v) <=> j + d \in Keep(u)
  BY <1>0, <1>1, <1>9 DEF Keep, d
<1>3. \A j \in Keep(u) : j - d \in 1..Len(v)
  BY <1>0, <1>1, <1>9 DEF Keep, d
<1>4. Keep(v) \subseteq 1..Len(v)
  BY DEF Keep
<1>5. CASE Keep(u) = {}
  <2>1. Keep(v) = {}
    BY <1>2, <1>4, <1>5
  <2>2. Strip(v) = <<>> /\ Strip(u) = <<>>
    BY <1>1, <1>5, <2>1, StripShape
  <2>3. QED
    BY <2>2 DEF v
<1>6. CASE Keep(u) # {}
  <2>1. /\ Lo(u) \in Keep(u) /\ Hi(u) \in Keep(u)
        /\ \A j \in Keep(u) : Lo(u) <= j /\ j <= Hi(u)
        /\ Strip(u) = SubSeq(u, Lo(u), Hi(u))
    BY <1>6, StripShape
  <2>2. Lo(u) - d \in Keep(v) /\ Hi(u) - d \in Keep(v)
    BY <1>2, <1>3, <1>9, <2>1
  <2>3. Lo(v) = Lo(u) - d
    <3>1. \A j \in Keep(v) : Lo(u) - d <= j
      BY <1>2, <1>4, <1>9, <2>1
    <3>2. Keep(v) \in SUBSET Nat
      BY <1>4
    <3>3. QED
      BY <2>2, <3>1, <3>2, LeastIs DEF Lo
  <2>4. Hi(v) = Hi(u) - d
    <3>1. \A j \in Keep(v) : j <= Hi(u) - d
      BY <1>2, <1>4, <1>9, <2>1
    <3>2. Keep(v) \in SUBSET (0..Len(v)) /\ Len(v) \in Nat
      BY <1>1, <1>4
    <3>3. QED
      BY <2>2, <3>1, <3>2, GreatestIs DEF Hi
  <2>5. Strip(v) = SubSeq(v, Lo(u) - d, Hi(u) - d)
    <3>1. Keep(v) # {}
      BY <2>2
    <3>2. QED
      BY <1>1, <2>3, <2>4, <3>1, StripShape
  <2>6. SubSeq(v, Lo(u) - d, Hi(u) - d) = SubSeq(u, Lo(u), Hi(u))
    <3>1. a \in 1..Len(u) /\ c \in 1..Len(u)
      BY <1>0, <1>1, <1>3, <1>9, <2>1 DEF d
    <3>2. Lo(u) - d \in 1..c - a + 1 /\ Hi(u) - d \in 1..c - a + 1
      BY <1>1, <1>3, <1>9, <2>1
    <3>3. \A m, n \in 1..c - a + 1 :
             SubSeq(SubSeq(u, a, c), m, n) = SubSeq(u, a + m - 1, a + n - 1)
      BY <3>1, SubSeqOfSubSeq
    <3>4. SubSeq(v, Lo(u) - d, Hi(u) - d)
          = SubSeq(u, a + (Lo(u) - d) - 1, a + (Hi(u) - d) - 1)
      BY <3>2, <3>3 DEF v
    <3>5. a + (Lo(u) - d) - 1 = Lo(u) /\ a + (Hi(u) - d) - 1 = Hi(u)
      BY <1>9, <2>1 DEF d
    <3>6. QED
      BY <3>4, <3>5, Zenon
  <2>7. QED
    BY <2>1, <2>5, <2>6 DEF v
<1>7. QED
  BY <1>5, <1>6 DEF v


(* The characters of a stripped text are those from its first kept one.   *)
LEMMA StripChars ==
    ASSUME NEW X, NEW t \in Seq(X), Keep(t) # {}
    PROVE  /\ Strip(t) \in Seq(X)
           /\ Len(Strip(t)) = Hi(t) - Lo(t) + 1
           /\ \A i \in 1..Len(Strip(t)) : Strip(t)[i] = t[Lo(t) + i - 1]
           /\ Strip(t) # <<>> /\ Strip(t)[1] = t[Lo(t)]
<1>1. /\ Lo(t) \in Keep(t) /\ Hi(t) \in Keep(t)
      /\ 1 <= Lo(t) /\ Lo(t) <= Hi(t) /\ Hi(t) <= Len(t)
      /\ Strip(t) = SubSeq(t, Lo(t), Hi(t))
  BY StripShape
<1>2. Len(t) \in Nat /\ Lo(t) \in Nat /\ Hi(t) \in Nat
  BY <1>1, LenProperties DEF Keep
<1>3. \A i \in Lo(t)..Hi(t) : t[i] \in X
  BY <1>1, <1>2, ElementOfSeq
<1>4. /\ SubSeq(t, Lo(t), Hi(t)) \in Seq(X)
      /\ Len(SubSeq(t, Lo(t), Hi(t))) = Hi(t) - Lo(t) + 1
      /\ \A i \in 1..Hi(t) - Lo(t) + 1 :
            SubSeq(t, Lo(t), Hi(t))[i] = t[Lo(t) + i - 1]
  BY <1>1, <1>2, <1>3, SubSeqProperties
<1>5. QED
  BY <1>1, <1>2, <1>4

(* A slice of a slice is a slice, empty ones included.                     *)
LEMMA SubSub ==
    ASSUME NEW X, NEW t \in Seq(X), NEW a \in 1..Len(t) + 1,
           NEW b \in a - 1..Len(t), NEW m \in 1..b - a + 2,
           NEW n \in m - 1..b - a + 1
    PROVE  SubSeq(SubSeq(t, a, b), m, n) = SubSeq(t, a + m - 1, a + n - 1)
<1>1. Len(t) \in Nat
  BY LenProperties
<1>2. \A i \in a..b : t[i] \in X
  BY <1>1, ElementOfSeq
<1>3. /\ SubSeq(t, a, b) \in Seq(X)
      /\ Len(SubSeq(t, a, b)) = b - a + 1
      /\ \A i \in 1..b - a + 1 : SubSeq(t, a, b)[i] = t[a + i - 1]
  BY <1>1, <1>2, SubSeqProperties
<1>4. \A i \in m..n : SubSeq(t, a, b)[i] \in X
  BY <1>1, <1>2, <1>3
<1>5. /\ SubSeq(SubSeq(t, a, b), m, n) \in Seq(X)
      /\ Len(SubSeq(SubSeq(t, a, b), m, n)) = n - m + 1
      /\ \A i \in 1..n - m + 1 :
            SubSeq(SubSeq(t, a, b), m, n)[i] = SubSeq(t, a, b)[m + i - 1]
  BY <1>1, <1>4, SubSeqProperties
<1>6. \A i \in a + m - 1..a + n - 1 : t[i] \in X
  BY <1>1, <1>2
<1>7. /\ SubSeq(t, a + m - 1, a + n - 1) \in Seq(X)
      /\ Len(SubSeq(t, a + m - 1, a + n - 1)) = n - m + 1
      /\ \A i \in 1..n - m + 1 :
            SubSeq(t, a + m - 1, a + n - 1)[i] = t[a + m - 1 + i - 1]
  <2> DEFINE p == a + m - 1
             q == a + n - 1
  <2>1. p \in Int /\ q \in Int /\ q - p + 1 = n - m + 1 /\ p <= q + 1
    BY <1>1
  <2> HIDE DEF p, q
  <2>2. /\ SubSeq(t, p, q) \in Seq(X)
        /\ Len(SubSeq(t, p, q)) = IF p <= q THEN q - p + 1 ELSE 0
        /\ \A i \in 1..q - p + 1 : SubSeq(t, p, q)[i] = t[p + i - 1]
    BY <1>6, <2>1, SubSeqProperties DEF p, q
  <2>3. QED
    BY <2>1, <2>2 DEF p, q
<1>8. \A i \in 1..n - m + 1 :
         SubSeq(SubSeq(t, a, b), m, n)[i] = SubSeq(t, a + m - 1, a + n - 1)[i]
  BY <1>1, <1>3, <1>5, <1>7
<1>9. QED
  BY <1>5, <1>7, <1>8, SeqEqual


(* The first c of a text that holds one.                                   *)
LEMMA FirstAtProp ==
    ASSUME NEW X, NEW t \in Seq(X), NEW c, Contains(t, c)
    PROVE  /\ FirstAt(t, c) \in 1..Len(t) /\ t[FirstAt(t, c)] = c
           /\ \A j \in 1..FirstAt(t, c) - 1 : t[j] # c
<1> DEFINE E == {i \in 1..Len(t) : t[i] = c}
<1>1. Len(t) \in Nat
  BY LenProperties
<1> HIDE DEF E
<1>2. E \in SUBSET Nat /\ E # {}
  BY <1>1 DEF Contains, E
<1>3. Least(E) \in E /\ \A j \in E : Least(E) <= j
  BY <1>2, LeastProp
<1>4. FirstAt(t, c) = Least(E)
  BY DEF FirstAt, E
<1>5. FirstAt(t, c) \in 1..Len(t) /\ t[FirstAt(t, c)] = c
  BY <1>3, <1>4 DEF E
<1>6. \A j \in 1..FirstAt(t, c) - 1 : t[j] # c
  <2> SUFFICES ASSUME NEW j \in 1..FirstAt(t, c) - 1, t[j] = c
               PROVE  FALSE
    OBVIOUS
  <2>1. j \in E
    BY <1>1, <1>5 DEF E
  <2>2. QED
    BY <1>3, <1>4, <1>5, <2>1
<1>7. QED
  BY <1>5, <1>6

(* A blank line or one that begins with '#' is no entry once stripped.    *)
LEMMA SkipLine ==
    ASSUME NEW X, NEW l \in Seq(X), l = <<>> \/ StartsWith(l, "#")
    PROVE  ~IsEntry(Strip(l))
<1>1. CASE l = <<>>
  <2>1. Keep(l) = {}
    BY <1>1 DEF Keep
  <2>2. QED
    BY <2>1, StripShape DEF IsEntry
<1>2. CASE StartsWith(l, "#")
  <2>1. Len(l) \in Nat /\ Len(l) # 0 /\ l[1] = "#"
    BY <1>2, LenProperties DEF StartsWith
  <2>2. 1 \in Keep(l) /\ Keep(l) \subseteq 1..Len(l)
    <3>1. "#" \notin Whitespace
      BY DEF Whitespace, NL
    <3>2. 1 \in 1..Len(l)
      BY <2>1
    <3>3. QED
      BY <2>1, <3>1, <3>2 DEF Keep
  <2>3. Lo(l) = 1
    BY <2>2, LeastIs DEF Lo
  <2>4. Strip(l) # <<>> /\ Strip(l)[1] = "#"
    BY <2>1, <2>2, <2>3, StripChars
  <2>5. QED
    BY <2>4 DEF IsEntry, StartsWith
<1>3. QED
  BY <1>1, <1>2


(* In a line that holds '=', the first '=' lies between the first and the *)
(* last character str.strip() keeps, and it is the first '=' of the       *)
(* stripped line too.                                                      *)
LEMMA EqInside ==
    ASSUME NEW X, NEW l \in Seq(X), Contains(l, "=")
    PROVE  /\ Keep(l) # {}
           /\ 1 <= Lo(l) /\ Lo(l) <= FirstAt(l, "=")
           /\ FirstAt(l, "=") <= Hi(l) /\ Hi(l) <= Len(l)
           /\ \A j \in 1..Lo(l) - 1 : l[j] \in Whitespace
           /\ \A j \in Hi(l) + 1..Len(l) : l[j] \in Whitespace
           /\ Contains(Strip(l), "=")
           /\ FirstAt(Strip(l), "=") = FirstAt(l, "=") - Lo(l) + 1
<1> DEFINE e == FirstAt(l, "=")
           s == Strip(l)
<1>1. e \in 1..Len(l) /\ l[e] = "=" /\ \A j \in 1..e - 1 : l[j] # "="
  BY FirstAtProp
<1>2. Len(l) \in Nat
  BY LenProperties
<1> HIDE DEF e, s
<1>3. e \in Keep(l)
  <2>1. "=" \notin Whitespace
    BY DEF Whitespace, NL
  <2>2. QED
    BY <1>1, <2>1 DEF Keep
<1>4. /\ Keep(l) # {}
      /\ Lo(l) \in Keep(l) /\ Hi(l) \in Keep(l)
      /\ 1 <= Lo(l) /\ Lo(l) <= Hi(l) /\ Hi(l) <= Len(l)
      /\ \A j \in Keep(l) : Lo(l) <= j /\ j <= Hi(l)
  BY <1>3, StripShape
<1>5. Lo(l) <= e /\ e <= Hi(l) /\ Lo(l) \in Nat /\ Hi(l) \in Nat
  BY <1>1, <1>2, <1>3, <1>4 DEF Keep
<1>6. \A j \in 1..Lo(l) - 1 : l[j] \in Whitespace
  BY <1>2, <1>4, <1>5 DEF Keep
<1>7. \A j \in Hi(l) + 1..Len(l) : l[j] \in Whitespace
  BY <1>2, <1>4, <1>5 DEF Keep
<1>8. /\ s \in Seq(X)
      /\ Len(s) = Hi(l) - Lo(l) + 1
      /\ \A i \in 1..Len(s) : s[i] = l[Lo(l) + i - 1]
  BY <1>4, StripChars DEF s
<1>9. e - Lo(l) + 1 \in 1..Len(s) /\ s[e - Lo(l) + 1] = "="
  BY <1>1, <1>5, <1>8
<1>10. Contains(s, "=")
  BY <1>9 DEF Contains
<1>11. FirstAt(s, "=") = e - Lo(l) + 1
  <2> DEFINE E == {i \in 1..Len(s) : s[i] = "="}
  <2>1. FirstAt(s, "=") = Least(E)
    BY <1>10 DEF FirstAt
  <2> HIDE DEF E
  <2>2. e - Lo(l) + 1 \in E
    BY <1>9 DEF E
  <2>3. \A i \in E : e - Lo(l) + 1 <= i
    <3> SUFFICES ASSUME NEW i \in E PROVE e - Lo(l) + 1 <= i
      OBVIOUS
    <3>1. i \in 1..Len(s) /\ l[Lo(l) + i - 1] = "="
      BY <1>8 DEF E
    <3>2. Lo(l) + i - 1 \in 1..Len(l)
      BY <1>4, <1>5, <1>8, <3>1
    <3>3. ~(Lo(l) + i - 1 < e)
      BY <1>1, <1>5, <3>1, <3>2
    <3>4. QED
      BY <1>1, <1>5, <3>1, <3>3
  <2>4. E \in SUBSET Nat
    BY <1>8 DEF E
  <2>5. QED
    BY <2>1, <2>2, <2>3, <2>4, LeastIs
<1>12. QED
  BY <1>4, <1>5, <1>6, <1>7, <1>10, <1>11 DEF e, s


(* key.strip() of line.partition('=') is the key of the stripped line.     *)
LEMMA KeyPart ==
    ASSUME NEW X, NEW l \in Seq(X), Contains(l, "=")
    PROVE  Strip(PartKey(l, "=")) = SpecKey(l)
<1> DEFINE e == FirstAt(l, "=")
           lo == Lo(l)
           hi == Hi(l)
           s == Strip(l)
           u == SubSeq(l, 1, e - 1)
<1>1. /\ Keep(l) # {}
      /\ 1 <= lo /\ lo <= e /\ e <= hi /\ hi <= Len(l)
      /\ \A j \in 1..lo - 1 : l[j] \in Whitespace
      /\ FirstAt(s, "=") = e - lo + 1
  BY EqInside
<1>2. Len(l) \in Nat /\ lo \in Nat /\ hi \in Nat /\ e \in Nat
  BY <1>1, FirstAtProp, StripShape, LenProperties DEF Keep
<1> HIDE DEF e, lo, hi, s, u
<1>3. s = SubSeq(l, lo, hi)
  BY <1>1, StripShape DEF s, lo, hi
<1>4. PartKey(s, "=") = SubSeq(s, 1, e - lo)
  <2>1. PartKey(s, "=") = SubSeq(s, 1, FirstAt(s, "=") - 1)
    BY DEF PartKey
  <2>2. FirstAt(s, "=") - 1 = e - lo
    BY <1>1, <1>2
  <2>3. QED
    BY <2>1, <2>2
<1>5. SubSeq(s, 1, e - lo) = SubSeq(l, lo, e - 1)
  <2>1. /\ lo \in 1..Len(l) + 1 /\ hi \in lo - 1..Len(l)
        /\ 1 \in 1..hi - lo + 2 /\ e - lo \in 1 - 1..hi - lo + 1
    BY <1>1, <1>2
  <2>2. SubSeq(SubSeq(l, lo, hi), 1, e - lo)
        = SubSeq(l, lo + 1 - 1, lo + (e - lo) - 1)
    BY <2>1, SubSub
  <2>3. lo + 1 - 1 = lo /\ lo + (e - lo) - 1 = e - 1
    BY <1>2
  <2>4. QED
    BY <1>3, <2>2, <2>3
<1>6. SubSeq(u, lo, e - 1) = SubSeq(l, lo, e - 1)
  <2> DEFINE k == e - 1
  <2>1. /\ 1 \in 1..Len(l) + 1 /\ k \in 1 - 1..Len(l)
        /\ lo \in 1..k - 1 + 2 /\ k \in lo - 1..k - 1 + 1
        /\ 1 + lo - 1 = lo /\ 1 + k - 1 = k
    BY <1>1, <1>2
  <2> HIDE DEF k
  <2>2. SubSeq(SubSeq(l, 1, k), lo, k) = SubSeq(l, 1 + lo - 1, 1 + k - 1)
    BY <2>1, SubSub
  <2>3. QED
    BY <2>1, <2>2 DEF u, k
<1>7. /\ u \in Seq(X) /\ Len(u) = e - 1
      /\ \A j \in 1..e - 1 : u[j] = l[j]
  <2>1. \A j \in 1..e - 1 : l[j] \in X
    BY <1>1, <1>2, ElementOfSeq
  <2>2. QED
    BY <1>1, <1>2, <2>1, SubSeqProperties DEF u
<1>8. Strip(SubSeq(u, lo, e - 1)) = Strip(u)
  <2>1. \A j \in 1..lo - 1 : u[j] \in Whitespace
    BY <1>1, <1>2, <1>7
  <2>2. \A j \in (e - 1) + 1..Len(u) : u[j] \in Whitespace
    BY <1>2, <1>7
  <2>3. lo - 1 <= e - 1 /\ e - 1 <= Len(u) /\ e - 1 \in Nat
    BY <1>1, <1>2, <1>7
  <2>4. QED
    BY <1>1, <1>2, <1>7, <2>1, <2>2, <2>3, StripSub
<1>9. PartKey(l, "=") = u
  BY DEF PartKey, u, e
<1>10. QED
  BY <1>4, <1>5, <1>6, <1>8, <1>9 DEF SpecKey, s


(* value.strip() of line.partition('=') is the value of the stripped line. *)
LEMMA ValuePart ==
    ASSUME NEW X, NEW l \in Seq(X), Contains(l, "=")
    PROVE  Strip(PartValue(l, "=")) = SpecValue(l)
<1> DEFINE e == FirstAt(l, "=")
           lo == Lo(l)
           hi == Hi(l)
           s == Strip(l)
           w == SubSeq(l, e + 1, Len(l))
<1>1. /\ Keep(l) # {}
      /\ 1 <= lo /\ lo <= e /\ e <= hi /\ hi <= Len(l)
      /\ \A j \in hi + 1..Len(l) : l[j] \in Whitespace
      /\ FirstAt(s, "=") = e - lo + 1
  BY EqInside
<1>2. Len(l) \in Nat /\ lo \in Nat /\ hi \in Nat /\ e \in Nat
  BY <1>1, FirstAtProp, StripShape, LenProperties DEF Keep
<1> HIDE DEF e, lo, hi, s, w
<1>3. s = SubSeq(l, lo, hi) /\ Len(s) = hi - lo + 1
  BY <1>1, StripShape, StripChars DEF s, lo, hi
<1>4. PartValue(s, "=") = SubSeq(l, e + 1, hi)
  <2> DEFINE m == e - lo + 2
             n == hi - lo + 1
  <2>1. /\ PartValue(s, "=") = SubSeq(s, FirstAt(s, "=") + 1, Len(s))
        /\ FirstAt(s, "=") + 1 = m /\ Len(s) = n
    BY <1>1, <1>2, <1>3 DEF PartValue
  <2>2. /\ lo \in 1..Len(l) + 1 /\ hi \in lo - 1..Len(l)
        /\ m \in 1..hi - lo + 2 /\ n \in m - 1..hi - lo + 1
        /\ lo + m - 1 = e + 1 /\ lo + n - 1 = hi
    BY <1>1, <1>2
  <2> HIDE DEF m, n
  <2>3. SubSeq(SubSeq(l, lo, hi), m, n) = SubSeq(l, lo + m - 1, lo + n - 1)
    BY <2>2, SubSub
  <2>4. QED
    BY <1>3, <2>1, <2>2, <2>3
<1>5. SubSeq(w, 1, hi - e) = SubSeq(l, e + 1, hi)
  <2> DEFINE a == e + 1
             n == hi - e
  <2>1. /\ a \in 1..Len(l) + 1 /\ Len(l) \in a - 1..Len(l)
        /\ 1 \in 1..Len(l) - a + 2 /\ n \in 1 - 1..Len(l) - a + 1
        /\ a + 1 - 1 = e + 1 /\ a + n - 1 = hi
    BY <1>1, <1>2
  <2> HIDE DEF a, n
  <2>2. SubSeq(SubSeq(l, a, Len(l)), 1, n) = SubSeq(l, a + 1 - 1, a + n - 1)
    BY <2>1, SubSub
  <2>3. QED
    BY <2>1, <2>2 DEF w, a, n
<1>6. /\ w \in Seq(X) /\ Len(w) = Len(l) - e
      /\ \A j \in 1..Len(l) - e : w[j] = l[e + j]
  <2>1. \A j \in e + 1..Len(l) : l[j] \in X
    BY <1>1, <1>2, ElementOfSeq
  <2>2. /\ w \in Seq(X)
        /\ Len(w) = IF e + 1 <= Len(l) THEN Len(l) - (e + 1) + 1 ELSE 0
        /\ \A j \in 1..Len(l) - (e + 1) + 1 : w[j] = l[(e + 1) + j - 1]
    BY <1>2, <2>1, SubSeqProperties DEF w
  <2>3. QED
    BY <1>1, <1>2, <2>2
<1>7. Strip(SubSeq(w, 1, hi - e)) = Strip(w)
  <2>1. \A j \in 1..1 - 1 : w[j] \in Whitespace
    OBVIOUS
  <2>2. \A j \in (hi - e) + 1..Len(w) : w[j] \in Whitespace
    BY <1>1, <1>2, <1>6
  <2>3. 1 - 1 <= hi - e /\ hi - e <= Len(w) /\ hi - e \in Nat
    BY <1>1, <1>2, <1>6
  <2>4. QED
    BY <1>6, <2>1, <2>2, <2>3, StripSub
<1>8. PartValue(l, "=") = w
  BY DEF PartValue, w, e
<1>9. QED
  BY <1>4, <1>5, <1>7, <1>8 DEF SpecValue, s


(* In a line that holds '=', the key begins with '#' exactly when the     *)
(* stripped line is a comment: the key of an indented comment is read     *)
(* with its '#', the key of an entry never begins with '#'.               *)
LEMMA HashKey ==
    ASSUME NEW X, NEW l \in Seq(X), Contains(l, "=")
    PROVE  StartsWith(SpecKey(l), "#") <=> ~IsEntry(Strip(l))
<1> DEFINE e == FirstAt(l, "=")
           lo == Lo(l)
           u == SubSeq(l, 1, e - 1)
<1>1. /\ Keep(l) # {}
      /\ 1 <= lo /\ lo <= e /\ e <= Hi(l) /\ Hi(l) <= Len(l)
      /\ \A j \in 1..lo - 1 : l[j] \in Whitespace
  BY EqInside
<1>2. Len(l) \in Nat /\ lo \in Nat /\ e \in Nat /\ l[e] = "="
  BY <1>1, FirstAtProp, StripShape, LenProperties DEF Keep
<1>3. SpecKey(l) = Strip(u)
  BY KeyPart DEF PartKey
<1> HIDE DEF e, lo, u
<1>4. Strip(l) # <<>> /\ Strip(l)[1] = l[lo]
  BY <1>1, StripChars DEF lo
<1>5. ~IsEntry(Strip(l)) <=> l[lo] = "#"
  BY <1>4 DEF IsEntry, StartsWith
<1>6. /\ u \in Seq(X) /\ Len(u) = e - 1
      /\ \A j \in 1..e - 1 : u[j] = l[j]
  <2>0. e <= Len(l)
    BY FirstAtProp DEF e
  <2>1. \A j \in 1..e - 1 : l[j] \in X
    BY <1>2, <2>0, ElementOfSeq
  <2>2. QED
    BY <1>1, <1>2, <2>0, <2>1, SubSeqProperties DEF u
<1>7. CASE lo = e
  <2>1. Keep(u) = {}
    BY <1>1, <1>2, <1>6, <1>7 DEF Keep
  <2>2. Strip(u) = <<>>
    BY <1>6, <2>1, StripShape
  <2>3. l[lo] # "#"
    BY <1>2, <1>7
  <2>4. QED
    BY <1>3, <1>5, <2>2, <2>3 DEF StartsWith
<1>8. CASE lo # e
  <2>1. lo \in Keep(u)
    <3>1. lo \in Keep(l) /\ Keep(l) \subseteq 1..Len(l)
      BY <1>1, StripShape DEF lo, Keep
    <3>2. QED
      BY <1>1, <1>2, <1>6, <1>8, <3>1 DEF Keep
  <2>2. \A j \in Keep(u) : lo <= j
    <3> SUFFICES ASSUME NEW j \in Keep(u) PROVE lo <= j
      OBVIOUS
    <3>1. j \in 1..e - 1 /\ l[j] \notin Whitespace
      BY <1>6 DEF Keep
    <3>2. QED
      BY <1>1, <1>2, <3>1
  <2>3. Lo(u) = lo
    <3>1. Keep(u) \in SUBSET Nat
      BY DEF Keep
    <3>2. QED
      BY <2>1, <2>2, <3>1, LeastIs DEF Lo
  <2>4. Strip(u) # <<>> /\ Strip(u)[1] = u[lo]
    BY <1>6, <2>1, <2>3, StripChars
  <2>5. u[lo] = l[lo]
    BY <1>1, <1>2, <1>6, <1>8
  <2>6. QED
    BY <1>3, <1>5, <2>4, <2>5 DEF StartsWith
<1>9. QED
  BY <1>7, <1>8

-----------------------------------------------------------------------------
(* A line as the for loop yields it: characters, with a newline at most   *)
(* at its end.                                                              *)
Line(t) ==
    /\ t \in Seq(Chars \cup {NL})
    /\ \A x \in 1..Len(t) : t[x] = NL => x = Len(t)

(* str.strip() of a line leaves no newline.                                *)
LEMMA LineStrip ==
    ASSUME NEW t, Line(t)
    PROVE  Strip(t) \in Seq(Chars)
<1>0. t \in Seq(Chars \cup {NL}) /\ Len(t) \in Nat
  BY LenProperties DEF Line
<1>1. CASE Keep(t) = {}
  BY <1>0, <1>1, StripShape, EmptySeq
<1>2. CASE Keep(t) # {}
  <2>1. /\ Lo(t) \in Keep(t) /\ Hi(t) \in Keep(t)
        /\ 1 <= Lo(t) /\ Lo(t) <= Hi(t) /\ Hi(t) <= Len(t)
    BY <1>0, <1>2, StripShape
  <2>2. /\ Strip(t) \in Seq(Chars \cup {NL})
        /\ Len(Strip(t)) = Hi(t) - Lo(t) + 1
        /\ \A i \in 1..Len(Strip(t)) : Strip(t)[i] = t[Lo(t) + i - 1]
    BY <1>0, <1>2, StripChars
  <2>3. Lo(t) \in Nat /\ Hi(t) \in Nat /\ t[Hi(t)] # NL
    <3>1. /\ Lo(t) \in 1..Len(t) /\ Hi(t) \in 1..Len(t)
          /\ t[Hi(t)] \notin Whitespace
      BY <2>1 DEF Keep
    <3>2. Lo(t) \in Nat /\ Hi(t) \in Nat
      BY <1>0, <3>1
    <3>3. t[Hi(t)] # NL
      BY <3>1, Zenon DEF Whitespace
    <3>4. QED
      BY <3>2, <3>3
  <2>4. \A i \in 1..Len(Strip(t)) : Strip(t)[i] \in Chars
    <3> SUFFICES ASSUME NEW i \in 1..Len(Strip(t))
                 PROVE  Strip(t)[i] \in Chars
      OBVIOUS
    <3> DEFINE j == Lo(t) + i - 1
    <3>1. j \in 1..Len(t) /\ j <= Hi(t)
      BY <2>1, <2>2, <2>3
    <3>2. t[j] \in Chars \cup {NL}
      BY <1>0, <3>1, ElementOfSeq
    <3>3. t[j] # NL
      BY <3>1, <2>1, <2>3 DEF Line
    <3>4. QED
      BY <2>2, <3>2, <3>3
  <2>5. QED
    <3>1. Len(Strip(t)) \in Nat /\ Strip(t) \in [1..Len(Strip(t)) -> Chars \cup {NL}]
      BY <2>2, LenProperties
    <3>2. Strip(t) \in [1..Len(Strip(t)) -> Chars]
      BY <2>4, <3>1
    <3>3. QED
      BY <3>1, <3>2, FunSeq
<1>3. QED
  BY <1>1, <1>2

(* A slice of a line is a line.                                             *)
LEMMA LineSub ==
    ASSUME NEW t, Line(t), NEW a \in 1..Len(t) + 1, NEW b \in a - 1..Len(t)
    PROVE  Line(SubSeq(t, a, b))
<1>0. t \in Seq(Chars \cup {NL}) /\ Len(t) \in Nat
  BY LenProperties DEF Line
<1>1. \A i \in a..b : t[i] \in Chars \cup {NL}
  BY <1>0, ElementOfSeq
<1>2. /\ SubSeq(t, a, b) \in Seq(Chars \cup {NL})
      /\ Len(SubSeq(t, a, b)) = b - a + 1
      /\ \A i \in 1..b - a + 1 : SubSeq(t, a, b)[i] = t[a + i - 1]
  BY <1>0, <1>1, SubSeqProperties
<1>3. \A x \in 1..b - a + 1 : SubSeq(t, a, b)[x] = NL => x = b - a + 1
  <2> SUFFICES ASSUME NEW x \in 1..b - a + 1, SubSeq(t, a, b)[x] = NL
               PROVE  x = b - a + 1
    OBVIOUS
  <2>1. a + x - 1 \in 1..Len(t) /\ t[a + x - 1] = NL
    BY <1>0, <1>2
  <2>2. a + x - 1 = Len(t)
    BY <2>1 DEF Line
  <2>3. QED
    BY <1>0, <2>2
<1>4. QED
  BY <1>2, <1>3 DEF Line

(* The key and the value init_tags stores for a line with '=' are text     *)
(* without a newline.                                                       *)
LEMMA LineParts ==
    ASSUME NEW l, Line(l), Contains(l, "=")
    PROVE  /\ Strip(PartKey(l, "=")) \in Seq(Chars)
           /\ Strip(PartValue(l, "=")) \in Seq(Chars)
<1> DEFINE e == FirstAt(l, "=")
           n == Len(l)
<1>1. l \in Seq(Chars \cup {NL}) /\ n \in Nat
  BY LenProperties DEF Line
<1>2. e \in 1..n
  BY <1>1, FirstAtProp
<1> HIDE DEF e, n
<1>3. Line(SubSeq(l, 1, e - 1))
  <2>1. 1 \in 1..Len(l) + 1 /\ e - 1 \in 1 - 1..Len(l)
    BY <1>1, <1>2 DEF n
  <2>2. QED
    BY <2>1, LineSub
<1>4. Line(SubSeq(l, e + 1, Len(l)))
  <2>1. e + 1 \in 1..Len(l) + 1 /\ Len(l) \in e + 1 - 1..Len(l)
    BY <1>1, <1>2 DEF n
  <2>2. QED
    BY <2>1, LineSub
<1>5. QED
  BY <1>3, <1>4, LineStrip DEF PartKey, PartValue, e

(* The sequences of length at most n are sequences.                       *)
LEMMA SeqUpToSeq ==
    ASSUME NEW S, NEW n \in Nat
    PROVE  SeqUpTo(S, n) \subseteq Seq(S)
<1> SUFFICES ASSUME NEW s \in SeqUpTo(S, n) PROVE s \in Seq(S)
  OBVIOUS
<1>1. PICK m \in 0..n : s \in [1..m -> S]
  BY DEF SeqUpTo
<1>2. m \in Nat
  OBVIOUS
<1>3. QED
  BY <1>1, <1>2, FunSeq

(* Every line of a file is a line: a newline ends it or it has none.      *)
LEMMA FileLines ==
    ASSUME NEW f \in Files
    PROVE  f \in Seq(LastLines) /\ \A j \in 1..Len(f) : Line(f[j])
<1>1. f \in Seq(LastLines)
  BY ConstantsAssumption, SeqUpToSeq DEF Files
<1>2. SeqUpTo(Chars, MaxLen) \subseteq Seq(Chars)
  BY ConstantsAssumption, SeqUpToSeq
<1>3. NL \notin Chars
  BY DEF NL, Chars
<1>4. ASSUME NEW t \in Seq(Chars) PROVE Line(t)
  <2>1. t \in Seq(Chars \cup {NL})
    BY SeqMonotonic
  <2>2. \A x \in 1..Len(t) : t[x] # NL
    BY <1>3, ElementOfSeq
  <2>3. QED
    BY <2>1, <2>2 DEF Line
<1>5. ASSUME NEW t \in Seq(Chars) PROVE Line(t \o <<NL>>)
  <2>1. t \in Seq(Chars \cup {NL}) /\ <<NL>> \in Seq(Chars \cup {NL})
    BY SeqMonotonic
  <2>2. /\ t \o <<NL>> \in Seq(Chars \cup {NL})
        /\ Len(t \o <<NL>>) = Len(t) + 1
        /\ \A i \in 1..Len(t) + 1 :
              (t \o <<NL>>)[i] = IF i <= Len(t) THEN t[i] ELSE NL
    BY <2>1, ConcatProperties
  <2>3. \A x \in 1..Len(t) : t[x] # NL
    BY <1>3, ElementOfSeq
  <2>4. Len(t) \in Nat
    BY LenProperties
  <2>5. QED
    BY <2>2, <2>3, <2>4 DEF Line
<1>6. \A x \in LastLines : Line(x)
  BY <1>2, <1>4, <1>5 DEF LastLines, RawLines
<1>7. QED
  BY <1>1, <1>6, ElementOfSeq

-----------------------------------------------------------------------------
(* The reference of spec section 6 on the first i lines of f: its entries, *)
(* the entries of a key, the table they build and whether one of them     *)
(* lacks '='.  On all the lines these are SpecTable and SpecBad.          *)
PE(f, i) == {j \in 1..i : IsEntry(Strip(f[j]))}
PAt(f, i, k) == {j \in PE(f, i) : SpecKey(f[j]) = k}
PTab(f, i) ==
    [k \in {SpecKey(f[j]) : j \in PE(f, i)} |-> SpecValue(f[Greatest(PAt(f, i, k))])]
PBad(f, i) ==
    \E j \in 1..i : IsEntry(Strip(f[j])) /\ ~Contains(Strip(f[j]), "=")

(* Before the first line the reference has no table and no bad entry.     *)
LEMMA PrefixZero ==
    ASSUME NEW f
    PROVE  PTab(f, 0) = Uncommented(NoTags) /\ ~PBad(f, 0)
<1>1. PE(f, 0) = {}
  BY DEF PE
<1>2. DOMAIN PTab(f, 0) = {} /\ DOMAIN Uncommented(NoTags) = {}
  BY <1>1 DEF PTab, Uncommented, NoTags
<1>3. PTab(f, 0) = [k \in {} |-> 0] /\ Uncommented(NoTags) = [k \in {} |-> 0]
  BY <1>2 DEF PTab, Uncommented
<1>4. QED
  BY <1>3 DEF PBad

(* On the whole file the prefix reference is the reference.               *)
LEMMA PrefixAll ==
    ASSUME NEW f
    PROVE  PTab(f, Len(f)) = SpecTable(f) /\ (PBad(f, Len(f)) <=> SpecBad(f))
BY DEF PTab, PAt, PE, SpecTable, Entries, PBad, SpecBad

(* One more line: a bad entry makes the prefix bad.                        *)
LEMMA PBadStep ==
    ASSUME NEW f, NEW i \in Nat
    PROVE  PBad(f, i + 1) <=>
              \/ PBad(f, i)
              \/ IsEntry(Strip(f[i + 1])) /\ ~Contains(Strip(f[i + 1]), "=")
BY DEF PBad

(* One more line: an entry sets its key to its value, any other line      *)
(* leaves the table as it is; a later entry thus overrides an earlier.   *)
LEMMA PTabStep ==
    ASSUME NEW f, NEW i \in Nat
    PROVE  PTab(f, i + 1) =
              IF IsEntry(Strip(f[i + 1]))
              THEN SetTag(PTab(f, i), SpecKey(f[i + 1]), SpecValue(f[i + 1]))
              ELSE PTab(f, i)
<1> DEFINE K == SpecKey(f[i + 1])
<1>1. CASE ~IsEntry(Strip(f[i + 1]))
  <2>1. PE(f, i + 1) = PE(f, i)
    BY <1>1 DEF PE
  <2>2. QED
    BY <1>1, <2>1, Zenon DEF PTab, PAt
<1>2. CASE IsEntry(Strip(f[i + 1]))
  <2>1. PE(f, i + 1) = PE(f, i) \cup {i + 1} /\ PE(f, i) \subseteq 1..i
    BY <1>2 DEF PE
  <2>2. DOMAIN PTab(f, i + 1) = DOMAIN PTab(f, i) \cup {K}
    BY <2>1 DEF PTab
  <2>3. PTab(f, i + 1)[K] = SpecValue(f[i + 1])
    <3>1. PAt(f, i + 1, K) \in SUBSET (0..i + 1)
      BY <2>1 DEF PAt
    <3>2. i + 1 \in PAt(f, i + 1, K) /\ \A j \in PAt(f, i + 1, K) : j <= i + 1
      BY <2>1 DEF PAt
    <3>3. Greatest(PAt(f, i + 1, K)) = i + 1
      BY <3>1, <3>2, GreatestIs
    <3>4. QED
      BY <2>1, <3>3 DEF PTab
  <2>4. ASSUME NEW k \in DOMAIN PTab(f, i), k # K
        PROVE  PTab(f, i + 1)[k] = PTab(f, i)[k]
    <3>1. PAt(f, i + 1, k) = PAt(f, i, k)
      BY <2>1, <2>4 DEF PAt
    <3>2. k \in DOMAIN PTab(f, i + 1)
      BY <2>2
    <3>3. QED
      BY <3>1, <3>2, <2>4, Zenon DEF PTab
  <2>5. PTab(f, i + 1) = [k \in DOMAIN PTab(f, i + 1) |-> PTab(f, i + 1)[k]]
    BY DEF PTab
  <2> HIDE DEF PTab
  <2>6. QED
    BY <1>2, <2>2, <2>3, <2>4, <2>5 DEF SetTag
<1>3. QED
  BY <1>1, <1>2

(* init_tags stores a key that begins with '#' only outside the table the *)
(* reference can see.                                                      *)
LEMMA UncommentedSet ==
    ASSUME NEW t, NEW k, NEW v
    PROVE  Uncommented(SetTag(t, k, v)) =
              IF StartsWith(k, "#") THEN Uncommented(t)
              ELSE SetTag(Uncommented(t), k, v)
<1>1. CASE StartsWith(k, "#")
  BY <1>1 DEF Uncommented, SetTag
<1>2. CASE ~StartsWith(k, "#")
  BY <1>2 DEF Uncommented, SetTag
<1>3. QED
  BY <1>1, <1>2

(* A table of text keys and text values.                                    *)
TagsOK(t) == \A k \in DOMAIN t : k \in Seq(Chars) /\ t[k] \in Seq(Chars)

(* One pass of the for loop against one more line of the reference: the   *)
(* code skips what the reference skips; when it keeps the line it stores  *)
(* the reference's key and value, and the line is no bad entry; else it   *)
(* raises ValueError.                                                      *)
LEMMA LineStep ==
    ASSUME NEW f, NEW i \in Nat, Line(f[i + 1]), NEW t, TagsOK(t),
           ~PBad(f, i), Uncommented(t) = PTab(f, i)
    PROVE  \/ /\ ParseLine(t, f[i + 1]).kind = "ok"
              /\ TagsOK(ParseLine(t, f[i + 1]).tags)
              /\ ~PBad(f, i + 1)
              /\ Uncommented(ParseLine(t, f[i + 1]).tags) = PTab(f, i + 1)
           \/ ParseLine(t, f[i + 1]) = Error("ValueError")
<1> DEFINE l == f[i + 1]
<1>0. l \in Seq(Chars \cup {NL})
  BY DEF Line
<1> HIDE DEF l
<1>1. CASE l = <<>> \/ StartsWith(l, "#")
  <2>1. ParseLine(t, l) = Ok(t)
    BY <1>1 DEF ParseLine
  <2>2. ~IsEntry(Strip(l))
    BY <1>0, <1>1, SkipLine
  <2>3. ~PBad(f, i + 1) /\ PTab(f, i + 1) = PTab(f, i)
    BY <2>2, PBadStep, PTabStep DEF l
  <2>4. QED
    BY <2>1, <2>3 DEF Ok, l
<1>2. CASE ~(l = <<>> \/ StartsWith(l, "#")) /\ ~Contains(l, "=")
  BY <1>2 DEF ParseLine, l
<1>3. CASE ~(l = <<>> \/ StartsWith(l, "#")) /\ Contains(l, "=")
  <2> DEFINE K == SpecKey(l)
             V == SpecValue(l)
  <2>1. ParseLine(t, l) = Ok(SetTag(t, K, V))
    BY <1>0, <1>3, KeyPart, ValuePart DEF ParseLine, AddTag
  <2>2. K \in Seq(Chars) /\ V \in Seq(Chars)
    BY <1>0, <1>3, KeyPart, ValuePart, LineParts DEF l
  <2>3. TagsOK(SetTag(t, K, V))
    BY <2>2 DEF TagsOK, SetTag
  <2>4. Contains(Strip(l), "=")
    BY <1>0, <1>3, EqInside
  <2>5. ~PBad(f, i + 1)
    BY <2>4, PBadStep DEF l
  <2>6. StartsWith(K, "#") <=> ~IsEntry(Strip(l))
    BY <1>0, <1>3, HashKey
  <2> HIDE DEF K, V
  <2>7. Uncommented(SetTag(t, K, V)) = PTab(f, i + 1)
    <3>1. CASE IsEntry(Strip(l))
      <4>1. Uncommented(SetTag(t, K, V)) = SetTag(Uncommented(t), K, V)
        BY <2>6, <3>1, UncommentedSet
      <4>2. PTab(f, i + 1) = SetTag(PTab(f, i), K, V)
        BY <3>1, PTabStep DEF l, K, V
      <4>3. QED
        BY <4>1, <4>2
    <3>2. CASE ~IsEntry(Strip(l))
      <4>1. Uncommented(SetTag(t, K, V)) = Uncommented(t)
        BY <2>6, <3>2, UncommentedSet
      <4>2. PTab(f, i + 1) = PTab(f, i)
        BY <3>2, PTabStep DEF l
      <4>3. QED
        BY <4>1, <4>2
    <3>3. QED
      BY <3>1, <3>2
  <2>8. QED
    BY <2>1, <2>3, <2>5, <2>7 DEF Ok, l
<1>4. QED
  BY <1>1, <1>2, <1>3

(* Before the call nothing is read and nothing returned.                    *)
CallInv == pc = "call" => result = Unset /\ read = 0 /\ tags = NoTags

(* Inside the for loop the file was found, no line read so far is an      *)
(* entry without '=', and the table outside the '#'-keys is the           *)
(* reference's table of the lines read.                                    *)
LoopInv ==
    pc = "loop" =>
        /\ result = Unset /\ Lower(arg) \notin {"dns", "brain"} /\ isfile
        /\ ~PBad(file, read)
        /\ Uncommented(tags) = PTab(file, read)

(* The inductive invariant: the loop invariant and both properties of the *)
(* result.                                                                 *)
IInv ==
    /\ TypeOK /\ CallInv /\ LoopInv
    /\ SpecErrorImpliesCodeError
    /\ TagsAgreeOutsideComments

LEMMA InitIInv == Init => IInv
<1> SUFFICES ASSUME Init PROVE IInv
  OBVIOUS
<1>1. TypeOK
  <2>1. Len(file) \in Nat
    BY FileLines, LenProperties DEF Init
  <2>2. QED
    BY <2>1 DEF Init, TypeOK, Unset, Error, NoTags
<1>2. QED
  BY <1>1 DEF Init, IInv, CallInv, LoopInv, SpecErrorImpliesCodeError,
     TagsAgreeOutsideComments, Unset, Error

(* The parts of TypeOK that a step leaves to the result and pc.           *)
LEMMA StateTyped ==
    ASSUME TypeOK
    PROVE  /\ Len(file) \in Nat /\ file \in Seq(LastLines)
           /\ \A j \in 1..Len(file) : Line(file[j])
           /\ read \in Nat /\ read <= Len(file)
           /\ TagsOK(tags)
BY FileLines, LenProperties DEF TypeOK, TagsOK

(* The call: a preset, the loop, or FileNotFoundError.                     *)
LEMMA CallStep ==
    ASSUME IInv, Call
    PROVE  IInv'
<1>0. /\ pc = "call" /\ result = Unset /\ read = 0 /\ tags = NoTags
      /\ UNCHANGED <<arg, isfile, file, read, tags>>
      /\ TypeOK
  BY DEF IInv, CallInv, Call
<1>1. /\ arg' \in Args /\ isfile' \in BOOLEAN /\ file' \in Files
      /\ read' \in 0..Len(file')
      /\ \A k \in DOMAIN tags' : k \in Seq(Chars) /\ tags'[k] \in Seq(Chars)
      /\ Expected' = SpecTags(arg, isfile, file)
  BY <1>0, StateTyped DEF TypeOK, NoTags, Expected
<1>2. /\ DOMAIN DNS_TAGS = {<<"a">>} /\ DNS_TAGS[<<"a">>] = <<"#">>
      /\ DOMAIN BRAIN_TAGS = {<<"a">>} /\ BRAIN_TAGS[<<"a">>] = <<"=">>
  BY DEF DNS_TAGS, BRAIN_TAGS, SetTag, NoTags
<1>3. /\ Uncommented(DNS_TAGS) = DNS_TAGS
      /\ Uncommented(BRAIN_TAGS) = BRAIN_TAGS
  BY <1>2 DEF Uncommented, StartsWith, DNS_TAGS, BRAIN_TAGS, SetTag, NoTags
<1>4. /\ <<"a">> \in Seq(Chars) /\ <<"#">> \in Seq(Chars)
      /\ <<"=">> \in Seq(Chars)
  BY DEF Chars
<1>5. CASE Lower(arg) = "dns" /\ result' = Ok(DNS_TAGS) /\ pc' = "done"
  <2>1. Expected' = Ok(DNS_TAGS)
    BY <1>1, <1>5 DEF SpecTags
  <2>2. TypeOK'
    BY <1>1, <1>2, <1>4, <1>5 DEF TypeOK, Ok
  <2>3. QED
    BY <1>3, <1>5, <2>1, <2>2 DEF IInv, CallInv, LoopInv, Ok, Unset, Error,
       SpecErrorImpliesCodeError, TagsAgreeOutsideComments
<1>6. CASE Lower(arg) = "brain" /\ result' = Ok(BRAIN_TAGS) /\ pc' = "done"
  <2>1. Expected' = Ok(BRAIN_TAGS)
    BY <1>1, <1>6 DEF SpecTags
  <2>2. TypeOK'
    BY <1>1, <1>2, <1>4, <1>6 DEF TypeOK, Ok
  <2>3. QED
    BY <1>3, <1>6, <2>1, <2>2 DEF IInv, CallInv, LoopInv, Ok, Unset, Error,
       SpecErrorImpliesCodeError, TagsAgreeOutsideComments
<1>7. CASE /\ Lower(arg) \notin {"dns", "brain"} /\ isfile
           /\ pc' = "loop" /\ UNCHANGED result
  <2>1. PTab(file, 0) = Uncommented(NoTags) /\ ~PBad(file, 0)
    BY PrefixZero
  <2>2. TypeOK'
    BY <1>0, <1>1, <1>7 DEF TypeOK, Unset, Error
  <2>3. QED
    BY <1>0, <1>7, <2>1, <2>2 DEF IInv, CallInv, LoopInv,
       SpecErrorImpliesCodeError, TagsAgreeOutsideComments
<1>8. CASE /\ Lower(arg) \notin {"dns", "brain"} /\ ~isfile
           /\ result' = Error("FileNotFoundError") /\ pc' = "done"
  <2>1. Expected' = Error("FileNotFoundError")
    BY <1>1, <1>8 DEF SpecTags
  <2>2. TypeOK'
    BY <1>1, <1>8 DEF TypeOK, Error, NoTags
  <2>3. QED
    BY <1>8, <2>1, <2>2 DEF IInv, CallInv, LoopInv, Error, Unset,
       SpecErrorImpliesCodeError, TagsAgreeOutsideComments
<1>9. QED
  BY <1>5, <1>6, <1>7, <1>8 DEF Call

(* One pass of the for loop keeps the loop invariant, or its ValueError   *)
(* ends the call with both properties of the result.                       *)
LEMMA ReadLineStep ==
    ASSUME IInv, ReadLine
    PROVE  IInv'
<1>0. /\ pc = "loop" /\ read < Len(file)
      /\ result = Unset /\ Lower(arg) \notin {"dns", "brain"} /\ isfile
      /\ ~PBad(file, read) /\ Uncommented(tags) = PTab(file, read)
      /\ TypeOK /\ UNCHANGED <<arg, isfile, file>>
  BY DEF IInv, LoopInv, ReadLine
<1>1. /\ Len(file) \in Nat /\ read \in Nat
      /\ Line(file[read + 1]) /\ TagsOK(tags)
  BY <1>0, StateTyped
<1> DEFINE r == ParseLine(tags, file[read + 1])
<1>2. \/ /\ r.kind = "ok" /\ TagsOK(r.tags) /\ ~PBad(file, read + 1)
         /\ Uncommented(r.tags) = PTab(file, read + 1)
      \/ r = Error("ValueError")
  BY <1>0, <1>1, LineStep
<1> HIDE DEF r
<1>3. /\ arg' \in Args /\ isfile' \in BOOLEAN /\ file' \in Files
      /\ Expected' = Expected
  BY <1>0 DEF TypeOK, Expected
<1>4. CASE /\ r.kind = "ok" /\ tags' = r.tags /\ read' = read + 1
           /\ UNCHANGED <<pc, result>>
  <2>1. /\ TagsOK(r.tags) /\ ~PBad(file, read + 1)
        /\ Uncommented(r.tags) = PTab(file, read + 1)
    BY <1>2, <1>4 DEF Error
  <2>2. TypeOK'
    BY <1>0, <1>1, <1>3, <1>4, <2>1 DEF TypeOK, TagsOK, Unset, Error, NoTags
  <2>3. QED
    BY <1>0, <1>3, <1>4, <2>1, <2>2 DEF IInv, CallInv, LoopInv,
       SpecErrorImpliesCodeError, TagsAgreeOutsideComments
<1>5. CASE /\ r.kind # "ok" /\ result' = r /\ pc' = "done"
           /\ UNCHANGED <<tags, read>>
  <2>1. result' = Error("ValueError")
    BY <1>2, <1>5
  <2>2. TypeOK'
    BY <1>0, <1>3, <1>5, <2>1 DEF TypeOK, Error, NoTags
  <2>3. QED
    BY <1>5, <2>1, <2>2 DEF IInv, CallInv, LoopInv, Error, Unset,
       SpecErrorImpliesCodeError, TagsAgreeOutsideComments
<1>6. QED
  BY <1>4, <1>5, Zenon DEF ReadLine, r

(* The end of the file: init_tags returns the table, which is the         *)
(* reference's table outside the '#'-keys.                                 *)
LEMMA EndOfFileStep ==
    ASSUME IInv, EndOfFile
    PROVE  IInv'
<1>0. /\ pc = "loop" /\ read = Len(file)
      /\ Lower(arg) \notin {"dns", "brain"} /\ isfile
      /\ ~PBad(file, read) /\ Uncommented(tags) = PTab(file, read)
      /\ TypeOK /\ result' = Ok(tags) /\ pc' = "done"
      /\ UNCHANGED <<arg, isfile, file, read, tags>>
  BY DEF IInv, LoopInv, EndOfFile
<1>1. PTab(file, Len(file)) = SpecTable(file) /\ ~SpecBad(file)
  BY <1>0, PrefixAll
<1>2. Expected' = Ok(SpecTable(file))
  BY <1>0, <1>1 DEF Expected, SpecTags
<1>3. TypeOK'
  BY <1>0 DEF TypeOK, Ok
<1>4. QED
  BY <1>0, <1>1, <1>2, <1>3 DEF IInv, CallInv, LoopInv, Ok, Unset, Error,
     SpecErrorImpliesCodeError, TagsAgreeOutsideComments

LEMMA NextIInv == IInv /\ [Next]_vars => IInv'
<1> SUFFICES ASSUME IInv, [Next]_vars PROVE IInv'
  OBVIOUS
<1>1. CASE Call
  BY <1>1, CallStep
<1>2. CASE ReadLine
  BY <1>2, ReadLineStep
<1>3. CASE EndOfFile
  BY <1>3, EndOfFileStep
<1>4. CASE UNCHANGED vars
  BY <1>4 DEF vars, IInv, TypeOK, CallInv, LoopInv, Expected,
     SpecErrorImpliesCodeError, TagsAgreeOutsideComments
<1>5. QED
  BY <1>1, <1>2, <1>3, <1>4 DEF Next

(* The loop invariant holds in every state of every run.                   *)
THEOREM IInvHolds == Spec => []IInv
BY InitIInv, NextIInv, PTL DEF Spec

(* Type correctness of init_tags: every table it builds or returns maps   *)
(* text keys to text values, whatever the file and the argument.          *)
THEOREM TagTypeCorrect == Spec => []TypeOK
BY IInvHolds, PTL DEF IInv

(* spec 8 holds of the code for every file: a file with an entry that     *)
(* lacks '=' makes init_tags raise ValueError.                            *)
THEOREM SpecErrorImpliesCodeErrorHolds == Spec => []SpecErrorImpliesCodeError
BY IInvHolds, PTL DEF IInv

(* Where init_tags and the reference both accept a file, the code's table *)
(* outside the '#'-keys of indented comments is the reference's table.    *)
THEOREM TagsAgreeOutsideCommentsHolds == Spec => []TagsAgreeOutsideComments
BY IInvHolds, PTL DEF IInv

=============================================================================
