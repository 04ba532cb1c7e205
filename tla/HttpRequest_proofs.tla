------------------------- MODULE HttpRequest_proofs -------------------------
(***************************************************************************)
(* What is proved of HttpRequest: for any query or body, of any length,    *)
(* and any buffer, the two scans and the decoding in place give what the   *)
(* definition of a parameter gives, and never write the last byte.         *)
(***************************************************************************)
EXTENDS HttpRequest, FiniteSetTheorems, SequenceTheorems, TLAPS

-----------------------------------------------------------------------------
(* Lemmas about minima and ranks.                                          *)

LEMMA MinOfNat ==
  ASSUME NEW S, S \subseteq Nat, S # {}
  PROVE  Min(S) \in S /\ \A k \in S : Min(S) <= k
  <1>1. PICK x \in S : \A y \in S : ~ (<<y, x>> \in OpToRel(<, Nat))
    BY WFMin, NatLessThanWellFounded
  <1>2. \A y \in S : ~ (y < x)  BY <1>1 DEF OpToRel
  <1>3. \A y \in S : x <= y  BY <1>2
  <1> QED  BY <1>3 DEF Min

LEMMA MinIs ==
  ASSUME NEW S, S \subseteq Nat, NEW m \in S, \A k \in S : m <= k
  PROVE  Min(S) = m
  <1> DEFINE x == Min(S)
  <1>1. x \in S /\ \A k \in S : x <= k  BY MinOfNat
  <1> HIDE DEF x
  <1>2. x <= m /\ m <= x  BY <1>1
  <1>3. \A k \in S : k \in Int  OBVIOUS
  <1>4. x = m  BY <1>1, <1>2, <1>3
  <1> QED  BY <1>4 DEF x

(* A property of all small enough numbers that passes from each to the     *)
(* next: induction, for sets.                                              *)
LEMMA NatSet ==
  ASSUME NEW S, 0 \in S, \A n \in Nat : n \in S => n + 1 \in S
  PROVE  Nat \subseteq S
  <1> SUFFICES ASSUME Nat \ S # {}
               PROVE  FALSE
    OBVIOUS
  <1> DEFINE m == Min(Nat \ S)
  <1>1. m \in Nat \ S /\ \A k \in Nat \ S : m <= k  BY MinOfNat
  <1>2. m # 0 /\ m - 1 \in Nat  BY <1>1
  <1>3. m - 1 \in S  BY <1>1, <1>2
  <1>4. (m - 1) + 1 \in S  BY <1>2, <1>3
  <1> QED  BY <1>1, <1>4

Below(S, k) == {j \in S : j < k}

LEMMA BelowFinite ==
  ASSUME NEW S, NEW n \in Nat, S \subseteq 1 .. n, NEW k
  PROVE  /\ IsFiniteSet(S) /\ Cardinality(S) \in Nat
         /\ IsFiniteSet(Below(S, k)) /\ Cardinality(Below(S, k)) \in Nat
         /\ Cardinality(Below(S, k)) <= Cardinality(S)
         /\ \A T \in SUBSET S : IsFiniteSet(T)
  <1>1. IsFiniteSet(1 .. n)  BY FS_Interval
  <1>2. IsFiniteSet(S)  BY <1>1, FS_Subset
  <1>3. Below(S, k) \in SUBSET S  BY DEF Below
  <1> QED  BY <1>2, <1>3, FS_Subset, FS_CardinalityType

(* One more position, one more below.                                      *)
LEMMA BelowNext ==
  ASSUME NEW S, NEW n \in Nat, S \subseteq 1 .. n, NEW k \in S, NEW m \in Nat, m > k,
         \A j \in S : j < m => j <= k
  PROVE  Cardinality(Below(S, m)) = Cardinality(Below(S, k)) + 1
  <1>0. \A j \in S : j \in Int  OBVIOUS
  <1>a. \A j \in S : j < m <=> j < k \/ j = k
    <2> TAKE j \in S
    <2>1. j \in Int /\ k \in Int  BY <1>0
    <2>2. j < m => j <= k  OBVIOUS
    <2> QED  BY ONLY <2>1, <2>2, m > k, m \in Nat
  <1>1. Below(S, m) = Below(S, k) \cup {k}  BY <1>a DEF Below
  <1>2. k \notin Below(S, k)  BY DEF Below
  <1>3. IsFiniteSet(Below(S, k))  BY BelowFinite
  <1> QED  BY <1>1, <1>2, <1>3, FS_AddElement

LEMMA BelowLess ==
  ASSUME NEW S, NEW n \in Nat, S \subseteq 1 .. n, NEW k \in S, NEW m \in S, k < m
  PROVE  Cardinality(Below(S, k)) < Cardinality(Below(S, m))
  <1>0. \A j \in S : j \in Int  OBVIOUS
  <1>a. \A j \in S : j < k => j < m
    <2> TAKE j \in S
    <2>1. j \in Int /\ k \in Int /\ m \in Int  BY <1>0
    <2> QED  BY ONLY <2>1, k < m
  <1>1. Below(S, k) \cup {k} \in SUBSET Below(S, m)  BY <1>a DEF Below
  <1>2. k \notin Below(S, k)  BY DEF Below
  <1>3. IsFiniteSet(Below(S, k)) /\ IsFiniteSet(Below(S, m))  BY BelowFinite
  <1>4. Cardinality(Below(S, k) \cup {k}) = Cardinality(Below(S, k)) + 1
    BY <1>2, <1>3, FS_AddElement
  <1>5. Cardinality(Below(S, k) \cup {k}) <= Cardinality(Below(S, m))
    BY <1>1, <1>3, FS_Subset
  <1> QED  BY <1>3, <1>4, <1>5, FS_CardinalityType

(* Nth counts.                                                             *)
LEMMA NthIs ==
  ASSUME NEW S, NEW n \in Nat, S \subseteq 1 .. n, NEW k \in S
  PROVE  Nth(S, Cardinality(Below(S, k)) + 1) = k
  <1> DEFINE c == Cardinality(Below(S, k)) + 1
  <1>1. \A m \in S : Cardinality(Below(S, m)) + 1 = c => m = k
    <2> SUFFICES ASSUME NEW m \in S, Cardinality(Below(S, m)) + 1 = c, m # k
                 PROVE  FALSE
      OBVIOUS
    <2>1. Cardinality(Below(S, m)) \in Nat /\ Cardinality(Below(S, k)) \in Nat
      BY BelowFinite
    <2>2. m \in Int /\ k \in Int  OBVIOUS
    <2>3. CASE m < k
      <3>1. Cardinality(Below(S, m)) < Cardinality(Below(S, k))  BY <2>3, BelowLess
      <3> QED  BY <2>1, <3>1
    <2>4. CASE k < m
      <3>1. Cardinality(Below(S, k)) < Cardinality(Below(S, m))  BY <2>4, BelowLess
      <3> QED  BY <2>1, <3>1
    <2> QED  BY <2>2, <2>3, <2>4
  <1>2. Nth(S, c) = CHOOSE m \in S : Cardinality(Below(S, m)) + 1 = c
    BY DEF Nth, Below
  <1> QED  BY <1>1, <1>2

-----------------------------------------------------------------------------
(* Lemmas about the scans: the loops of find_urlencoded_param stop where   *)
(* the definition of a pair cuts the text.                                 *)

(* Where such a scan stops, in general.                                    *)
LEMMA StopIs ==
  ASSUME NEW n \in Nat, NEW p \in 1 .. n + 1, NEW F,
         NEW e \in p .. n + 1, e <= n => e \in F, \A k \in p .. n : k < e => k \notin F
  PROVE  Min({n + 1} \cup {k \in p .. n : k \in F}) = e
  <1> DEFINE S == {n + 1} \cup {k \in p .. n : k \in F}
  <1>1. S \subseteq Nat  OBVIOUS
  <1>2. e \in S  OBVIOUS
  <1>3. \A k \in S : e <= k  OBVIOUS
  <1> HIDE DEF S
  <1>4. Min(S) = e  BY <1>1, <1>2, <1>3, MinIs
  <1> QED  BY <1>4 DEF S

LEMMA StopExists ==
  ASSUME NEW n \in Nat, NEW p \in 1 .. n + 1, NEW F
  PROVE  \E e \in p .. n + 1 : /\ e <= n => e \in F
                               /\ \A k \in p .. n : k < e => k \notin F
  <1> DEFINE S == {n + 1} \cup {k \in p .. n : k \in F}
  <1>1. S \subseteq Nat /\ S # {}  OBVIOUS
  <1> DEFINE m == Min(S)
  <1>2. m \in S /\ \A k \in S : m <= k
    <2> HIDE DEF S
    <2> QED  BY <1>1, MinOfNat
  <1>3. \A k \in p .. n : k \in F => k \in S  OBVIOUS
  <1>4. \A j \in S : j \in p .. n + 1 /\ (j <= n => j \in F)  OBVIOUS
  <1> HIDE DEF S, m
  <1>5. m \in p .. n + 1 /\ (m <= n => m \in F)  BY <1>2, <1>4
  <1>6. \A k \in p .. n : k < m => k \notin F
    <2> SUFFICES ASSUME NEW k \in p .. n, k < m, k \in F
                 PROVE  FALSE
      OBVIOUS
    <2>1. m <= k  BY <1>2, <1>3
    <2> QED  BY <2>1, <1>5
  <1> QED  BY <1>5, <1>6

Positions(t, stops) == {k \in DOMAIN t : t[k] \in stops}

LEMMA ScanIs ==
  ASSUME text \in Seq(TextChars), NEW p \in 1 .. Len(text) + 1, NEW stops,
         NEW e \in p .. Len(text) + 1, e <= Len(text) => text[e] \in stops,
         \A k \in p .. Len(text) : k < e => text[k] \notin stops
  PROVE  Scan(p, stops) = e
  <1> DEFINE n == Len(text)
             F == Positions(text, stops)
  <1>1. n \in Nat /\ DOMAIN text = 1 .. n  OBVIOUS
  <1>2. \A k \in 1 .. n : k \in F <=> text[k] \in stops  BY <1>1 DEF Positions
  <1>3. {k \in p .. n : text[k] \in stops} = {k \in p .. n : k \in F}
    BY <1>1, <1>2
  <1>4. (e <= n => e \in F) /\ \A k \in p .. n : k < e => k \notin F
    BY <1>1, <1>2
  <1> HIDE DEF F
  <1>5. Min({n + 1} \cup {k \in p .. n : k \in F}) = e
    <2> HIDE DEF n
    <2> QED  BY <1>1, <1>4, StopIs DEF n
  <1> QED  BY <1>3, <1>5 DEF Scan

LEMMA ScanStops ==
  ASSUME text \in Seq(TextChars), NEW p \in 1 .. Len(text) + 1, NEW stops
  PROVE  /\ Scan(p, stops) \in p .. Len(text) + 1
         /\ Scan(p, stops) <= Len(text) => text[Scan(p, stops)] \in stops
         /\ \A k \in p .. Len(text) : k < Scan(p, stops) => text[k] \notin stops
  <1> DEFINE n == Len(text)
             F == Positions(text, stops)
  <1>1. n \in Nat /\ DOMAIN text = 1 .. n  OBVIOUS
  <1>2. \A k \in 1 .. n : k \in F <=> text[k] \in stops  BY <1>1 DEF Positions
  <1> HIDE DEF F, n
  <1>3. PICK e \in p .. n + 1 : /\ e <= n => e \in F
                                /\ \A k \in p .. n : k < e => k \notin F
    BY <1>1, StopExists DEF n
  <1>4. e \in p .. Len(text) + 1  BY DEF n
  <1>5. e <= Len(text) => text[e] \in stops  BY <1>1, <1>2, <1>3 DEF n
  <1>6. \A k \in p .. Len(text) : k < e => text[k] \notin stops  BY <1>1, <1>2, <1>3 DEF n
  <1>7. Scan(p, stops) = e  BY <1>4, <1>5, <1>6, ScanIs
  <1> QED  BY <1>4, <1>5, <1>6, <1>7

(* A piece of a text.                                                      *)
LEMMA PieceIs ==
  ASSUME NEW S, NEW s \in Seq(S), NEW a \in 1 .. Len(s) + 1, NEW b \in a - 1 .. Len(s)
  PROVE  /\ SubSeq(s, a, b) \in Seq(S)
         /\ Len(SubSeq(s, a, b)) = b - a + 1 /\ b - a + 1 \in Nat
         /\ \A k \in 1 .. b - a + 1 : SubSeq(s, a, b)[k] = s[a + k - 1]
  <1>1. a \in Int /\ b \in Int /\ b - a + 1 \in Nat  OBVIOUS
  <1>2. \A k \in a .. b : s[k] \in S
    <2> TAKE k \in a .. b
    <2>1. k \in 1 .. Len(s)  OBVIOUS
    <2> QED  BY <2>1, ElementOfSeq
  <1>3. /\ SubSeq(s, a, b) \in Seq(S)
        /\ Len(SubSeq(s, a, b)) = IF a <= b THEN b - a + 1 ELSE 0
        /\ \A k \in 1 .. b - a + 1 : SubSeq(s, a, b)[k] = s[a + k - 1]
    BY <1>1, <1>2, SubSeqProperties
  <1> QED  BY <1>1, <1>3

(* A piece of s that is a piece of t.                                      *)
LEMMA SamePiece ==
  ASSUME NEW S, NEW s \in Seq(S), NEW a \in 1 .. Len(s) + 1, NEW b \in a - 1 .. Len(s),
         NEW t \in Seq(S), NEW c \in 1 .. Len(t) + 1, NEW d \in c - 1 .. Len(t),
         b - a = d - c, \A k \in 1 .. b - a + 1 : s[a + k - 1] = t[c + k - 1]
  PROVE  SubSeq(s, a, b) = SubSeq(t, c, d)
  <1> DEFINE u == SubSeq(s, a, b)
             v == SubSeq(t, c, d)
             l == b - a + 1
  <1>1. u \in Seq(S) /\ Len(u) = l /\ \A k \in 1 .. l : u[k] = s[a + k - 1]
    BY PieceIs
  <1>2. v \in Seq(S) /\ Len(v) = d - c + 1 /\ \A k \in 1 .. d - c + 1 : v[k] = t[c + k - 1]
    BY PieceIs
  <1>3. d - c + 1 = l  OBVIOUS
  <1> HIDE DEF u, v
  <1>4. \A k \in 1 .. Len(u) : u[k] = v[k]  BY <1>1, <1>2, <1>3
  <1>5. u = v  BY <1>1, <1>2, <1>3, <1>4, SeqEqual
  <1> QED  BY <1>5 DEF u, v

(* The line is the text up to its NUL.                                     *)
LineEnd == Scan(1, {"NUL"})

LEMMA LineIs ==
  ASSUME text \in Seq(TextChars)
  PROVE  /\ LineEnd \in 1 .. Len(text) + 1
         /\ Line \in Seq(TextChars) /\ Len(Line) = LineEnd - 1
         /\ \A k \in 1 .. LineEnd - 1 : Line[k] = text[k] /\ text[k] # "NUL"
         /\ LineEnd <= Len(text) => text[LineEnd] = "NUL"
  <1>0. Len(text) \in Nat /\ 1 \in 1 .. Len(text) + 1  OBVIOUS
  <1>1. /\ LineEnd \in 1 .. Len(text) + 1
        /\ LineEnd <= Len(text) => text[LineEnd] = "NUL"
        /\ \A k \in 1 .. Len(text) : k < LineEnd => text[k] # "NUL"
    BY <1>0, ScanStops DEF LineEnd
  <1> DEFINE e == LineEnd
  <1>2. e \in 1 .. Len(text) + 1  BY <1>1
  <1>3. Line = SubSeq(text, 1, e - 1)  BY DEF Line, LineEnd
  <1> HIDE DEF e
  <1>4. 1 \in 1 .. Len(text) + 1 /\ e - 1 \in 1 - 1 .. Len(text)  BY <1>0, <1>2
  <1>5. /\ SubSeq(text, 1, e - 1) \in Seq(TextChars)
        /\ Len(SubSeq(text, 1, e - 1)) = e - 1
        /\ \A k \in 1 .. e - 1 : SubSeq(text, 1, e - 1)[k] = text[k]
    <2>1. e \in Int  BY <1>2
    <2>2. /\ SubSeq(text, 1, e - 1) \in Seq(TextChars)
          /\ Len(SubSeq(text, 1, e - 1)) = (e - 1) - 1 + 1
          /\ \A k \in 1 .. (e - 1) - 1 + 1 : SubSeq(text, 1, e - 1)[k] = text[1 + k - 1]
      BY <1>4, PieceIs
    <2> QED  BY <2>1, <2>2
  <1>6. \A k \in 1 .. e - 1 : k \in 1 .. Len(text) /\ k < e  BY <1>2
  <1> QED  BY <1>1, <1>3, <1>5, <1>6 DEF e

(* The ends the code finds.                                                *)
LEMMA EndsAre ==
  ASSUME text \in Seq(TextChars), pos \in 1 .. LineEnd
  PROVE  /\ KeyEnd \in pos .. ValueEnd /\ ValueEnd \in pos .. LineEnd
         /\ ValueStart \in KeyEnd .. ValueEnd
         /\ HasValue => ValueStart = KeyEnd + 1 /\ text[KeyEnd] = "="
         /\ ~HasValue => ValueStart = KeyEnd /\ ValueEnd = KeyEnd
         /\ \A k \in pos .. KeyEnd - 1 : text[k] # "="
         /\ \A k \in pos .. ValueEnd - 1 : text[k] # "&"
         /\ ValueEnd < LineEnd => text[ValueEnd] = "&"
         /\ ValueEnd = LineEnd => ValueEnd > Len(text) \/ text[ValueEnd] = "NUL"
  <1> DEFINE n == Len(text)
  <1>0. n \in Nat  OBVIOUS
  <1>1. /\ LineEnd \in 1 .. n + 1 /\ (LineEnd <= n => text[LineEnd] = "NUL")
        /\ \A k \in 1 .. LineEnd - 1 : text[k] # "NUL"
    BY LineIs
  <1>2. pos \in 1 .. n + 1  BY <1>0, <1>1
  <1>3. /\ KeyEnd \in pos .. n + 1
        /\ KeyEnd <= n => text[KeyEnd] \in {"=", "&", "NUL"}
        /\ \A k \in pos .. n : k < KeyEnd => text[k] \notin {"=", "&", "NUL"}
    BY <1>2, ScanStops DEF KeyEnd
  <1>4. KeyEnd <= LineEnd
    BY <1>0, <1>1, <1>3
  <1>5. CASE HasValue
    <2>1. KeyEnd <= n /\ text[KeyEnd] = "="  BY <1>5 DEF HasValue
    <2>2. KeyEnd + 1 \in 1 .. n + 1  BY <1>0, <1>2, <1>3, <2>1
    <2>3. ValueStart = KeyEnd + 1 /\ ValueEnd = Scan(KeyEnd + 1, {"&", "NUL"})
      BY <1>5 DEF ValueStart, ValueEnd
    <2>4. /\ ValueEnd \in KeyEnd + 1 .. n + 1
          /\ ValueEnd <= n => text[ValueEnd] \in {"&", "NUL"}
          /\ \A k \in KeyEnd + 1 .. n : k < ValueEnd => text[k] \notin {"&", "NUL"}
      BY <2>2, <2>3, ScanStops
    <2>5. KeyEnd < LineEnd
      BY <1>1, <1>4, <2>1, <1>0, <1>3
    <2>6. ValueEnd <= LineEnd  BY <1>0, <1>1, <2>4, <2>5, <1>3
    <2>7. \A k \in pos .. ValueEnd - 1 : text[k] # "&"
      <3> TAKE k \in pos .. ValueEnd - 1
      <3>1. k \in pos .. n  BY <1>0, <1>1, <2>6, <1>2, <2>4
      <3>2. k < KeyEnd \/ k = KeyEnd \/ k \in KeyEnd + 1 .. n  BY <3>1, <1>3, <1>2, <1>0
      <3> QED  BY <3>1, <3>2, <1>3, <2>1, <2>4
    <2>8. ValueEnd < LineEnd => text[ValueEnd] = "&"
      BY <1>0, <1>1, <1>2, <1>3, <2>4
    <2>9. ValueEnd = LineEnd => ValueEnd > n \/ text[ValueEnd] = "NUL"
      BY <1>0, <1>1
    <2>10. \A k \in pos .. KeyEnd - 1 : text[k] # "="
      BY <1>0, <1>2, <1>3
    <2> QED  BY <1>0, <1>2, <1>3, <1>5, <2>1, <2>3, <2>4, <2>6, <2>7, <2>8, <2>9, <2>10
  <1>6. CASE ~HasValue
    <2>1. ValueStart = KeyEnd /\ ValueEnd = KeyEnd  BY <1>6 DEF ValueStart, ValueEnd
    <2>2. KeyEnd <= n => text[KeyEnd] \in {"&", "NUL"}  BY <1>3, <1>6 DEF HasValue
    <2>3. \A k \in pos .. KeyEnd - 1 : text[k] # "=" /\ text[k] # "&"
      BY <1>0, <1>2, <1>3
    <2>4. KeyEnd < LineEnd => text[KeyEnd] = "&"
      BY <1>0, <1>1, <1>2, <1>3, <2>2
    <2>5. KeyEnd = LineEnd => KeyEnd > n \/ text[KeyEnd] = "NUL"
      BY <1>0, <1>1
    <2> QED  BY <1>0, <1>2, <1>3, <1>4, <1>6, <2>1, <2>3, <2>4, <2>5
  <1> QED  BY <1>5, <1>6

(* The pair that begins at pos, its key and its value.                     *)
LEMMA PairIs ==
  ASSUME text \in Seq(TextChars), pos \in 1 .. LineEnd
  PROVE  /\ Key(PairAt(pos)) = SubSeq(text, pos, KeyEnd - 1)
         /\ Value(PairAt(pos)) = SubSeq(text, ValueStart, ValueEnd - 1)
  <1> DEFINE n == Len(Line)
             F == Positions(Line, {"&"})
             p == PairAt(pos)
             m == Len(p)
             G == Positions(p, {"="})
             e == KeyEnd - pos + 1
  <1>1. /\ LineEnd \in 1 .. Len(text) + 1 /\ Line \in Seq(TextChars) /\ n = LineEnd - 1
        /\ \A k \in 1 .. n : Line[k] = text[k]
        /\ Len(text) \in Nat /\ n \in Nat /\ DOMAIN Line = 1 .. n
    BY LineIs
  <1>2. /\ KeyEnd \in pos .. ValueEnd /\ ValueEnd \in pos .. LineEnd
        /\ ValueStart \in KeyEnd .. ValueEnd
        /\ HasValue => ValueStart = KeyEnd + 1 /\ text[KeyEnd] = "="
        /\ ~HasValue => ValueStart = KeyEnd /\ ValueEnd = KeyEnd
        /\ \A k \in pos .. KeyEnd - 1 : text[k] # "="
        /\ \A k \in pos .. ValueEnd - 1 : text[k] # "&"
        /\ ValueEnd < LineEnd => text[ValueEnd] = "&"
    BY EndsAre
  <1>3. p = SubSeq(Line, pos, ValueEnd - 1)
    <2>1. \A k \in 1 .. n : k \in F <=> text[k] = "&"  BY <1>1 DEF Positions
    <2>2. {k \in pos .. n : Line[k] = "&"} = {k \in pos .. n : k \in F}
      BY <1>1, <2>1
    <2>3. /\ pos \in 1 .. n + 1 /\ ValueEnd \in pos .. n + 1
          /\ ValueEnd <= n => ValueEnd \in F
          /\ \A k \in pos .. n : k < ValueEnd => k \notin F
      BY <1>1, <1>2, <2>1
    <2> HIDE DEF F, n, p
    <2>4. Min({n + 1} \cup {k \in pos .. n : k \in F}) = ValueEnd
      BY <1>1, <2>3, StopIs
    <2> QED  BY <2>2, <2>4 DEF PairAt, n, p
  <1>4. /\ p \in Seq(TextChars) /\ m = ValueEnd - pos /\ m \in Nat
        /\ DOMAIN p = 1 .. m
        /\ \A k \in 1 .. m : p[k] = text[pos + k - 1]
    <2> DEFINE x == pos
               y == ValueEnd - 1
    <2>1. /\ x \in 1 .. Len(Line) + 1 /\ y \in x - 1 .. Len(Line)
          /\ x \in Int /\ y \in Int /\ y - x + 1 = ValueEnd - pos
      BY <1>1, <1>2
    <2> HIDE DEF x, y
    <2>2. /\ SubSeq(Line, x, y) \in Seq(TextChars)
          /\ Len(SubSeq(Line, x, y)) = y - x + 1 /\ y - x + 1 \in Nat
          /\ \A k \in 1 .. y - x + 1 : SubSeq(Line, x, y)[k] = Line[x + k - 1]
      BY <1>1, <2>1, PieceIs
    <2>3. \A k \in 1 .. y - x + 1 : Line[x + k - 1] = text[x + k - 1]
      <3> TAKE k \in 1 .. y - x + 1
      <3>1. x + k - 1 \in 1 .. n  BY <2>1
      <3> QED  BY <1>1, <3>1
    <2>4. p = SubSeq(Line, x, y)  BY <1>3 DEF x, y
    <2> HIDE DEF p
    <2>5. /\ p \in Seq(TextChars) /\ m = y - x + 1 /\ m \in Nat
          /\ \A k \in 1 .. m : p[k] = text[x + k - 1]
      BY <2>2, <2>3, <2>4
    <2> QED  BY <2>1, <2>5, LenProperties DEF x
  <1>5. Equals(p) = e
    <2>1. \A k \in 1 .. m : k \in G <=> p[k] = "="  BY <1>4 DEF Positions
    <2>2. {k \in DOMAIN p : p[k] = "="} = {k \in 1 .. m : k \in G}
      BY <1>4, <2>1
    <2>3. /\ e \in 1 .. m + 1
          /\ e <= m => HasValue
      BY <1>1, <1>2, <1>4
    <2>4. e <= m => e \in G
      BY <1>1, <1>2, <1>4, <2>1, <2>3
    <2>5. \A k \in 1 .. m : k < e => k \notin G
      <3> TAKE k \in 1 .. m
      <3>1. k < e => pos + k - 1 \in pos .. KeyEnd - 1  BY <1>1, <1>2, <1>4
      <3> QED  BY <3>1, <1>2, <1>4, <2>1
    <2>a. m \in Nat /\ 1 \in 1 .. m + 1  BY <1>4
    <2> HIDE DEF G, p, e
    <2>6. Min({m + 1} \cup {k \in 1 .. m : k \in G}) = e
      BY <2>a, <2>3, <2>4, <2>5, StopIs
    <2> QED  BY <2>2, <2>6 DEF Equals, m
  <1> HIDE DEF p
  <1>6. Key(p) = SubSeq(text, pos, KeyEnd - 1)
    <2>1. Key(p) = SubSeq(p, 1, KeyEnd - pos)  BY <1>1, <1>2, <1>5 DEF Key
    <2> DEFINE b == KeyEnd - pos
               d == KeyEnd - 1
               x == pos
    <2>2. /\ 1 \in 1 .. Len(p) + 1 /\ b \in 1 - 1 .. Len(p)
          /\ x \in 1 .. Len(text) + 1 /\ d \in x - 1 .. Len(text)
          /\ b - 1 = d - x
      BY <1>1, <1>2, <1>4
    <2>3. \A k \in 1 .. b - 1 + 1 : p[1 + k - 1] = text[x + k - 1]
      <3> TAKE k \in 1 .. b - 1 + 1
      <3>1. k \in 1 .. m /\ 1 + k - 1 = k  BY <2>2, <1>4
      <3> QED  BY <1>4, <3>1
    <2> HIDE DEF b, d, x
    <2>4. SubSeq(p, 1, b) = SubSeq(text, x, d)
      BY <1>4, <2>2, <2>3, SamePiece
    <2> QED  BY <2>1, <2>4 DEF b, d, x
  <1>7. Value(p) = SubSeq(text, ValueStart, ValueEnd - 1)
    <2>1. Value(p) = SubSeq(p, KeyEnd - pos + 2, m)  BY <1>1, <1>2, <1>5 DEF Value
    <2>2. CASE HasValue
      <3> DEFINE a == KeyEnd - pos + 2
                 b == m
                 c == ValueStart
                 d == ValueEnd - 1
      <3>1. /\ a \in 1 .. Len(p) + 1 /\ b \in a - 1 .. Len(p)
            /\ c \in 1 .. Len(text) + 1 /\ d \in c - 1 .. Len(text)
            /\ b - a = d - c
        BY <1>1, <1>2, <1>4, <2>2
      <3>a. a \in Int /\ c \in Int /\ c = pos + a - 1
        BY <1>1, <1>2, <1>4, <2>2
      <3>2. \A k \in 1 .. b - a + 1 : p[a + k - 1] = text[c + k - 1]
        <4> TAKE k \in 1 .. b - a + 1
        <4>1. a + k - 1 \in 1 .. m /\ pos + (a + k - 1) - 1 = c + k - 1
          BY <3>1, <3>a, <1>4, <1>2
        <4> QED  BY <1>4, <4>1
      <3> HIDE DEF a, b, c, d
      <3>3. p \in Seq(TextChars) /\ text \in Seq(TextChars)  BY <1>4
      <3>4. SubSeq(p, a, b) = SubSeq(text, c, d)
        <4> DEFINE u == SubSeq(p, a, b)
                   w == SubSeq(text, c, d)
        <4>1. u \in Seq(TextChars) /\ Len(u) = b - a + 1 /\ \A k \in 1 .. b - a + 1 : u[k] = p[a + k - 1]
          BY <3>1, <3>3, PieceIs
        <4>2. w \in Seq(TextChars) /\ Len(w) = d - c + 1 /\ \A k \in 1 .. d - c + 1 : w[k] = text[c + k - 1]
          BY <3>1, <3>3, PieceIs
        <4>3. d - c + 1 = b - a + 1  BY <3>1, <3>a, <1>4
        <4> HIDE DEF u, w
        <4>4. \A k \in 1 .. Len(u) : u[k] = w[k]  BY <3>2, <4>1, <4>2, <4>3
        <4>5. u = w  BY <4>1, <4>2, <4>3, <4>4, SeqEqual
        <4> QED  BY <4>5 DEF u, w
      <3> QED  BY <2>1, <3>4 DEF a, b, c, d
    <2>3. CASE ~HasValue
      <3>1. SubSeq(p, KeyEnd - pos + 2, m) = <<>>
        BY <1>1, <1>2, <1>4, <2>3, SubSeqEmpty
      <3>2. SubSeq(text, ValueStart, ValueEnd - 1) = <<>>
        BY <1>1, <1>2, <2>3, SubSeqEmpty
      <3> QED  BY <2>1, <3>1, <3>2
    <2> QED  BY <2>2, <2>3
  <1> QED  BY <1>6, <1>7 DEF p

-----------------------------------------------------------------------------
(* Lemmas about the bytes of a value.                                      *)

(* The recursive function of Begins exists: each of its values depends on  *)
(* earlier ones only.                                                      *)
Begun(v, b, k) == \/ k = 1
                  \/ k > 1 /\ b[k - 1] /\ v[k - 1] # "%"
                  \/ k > 3 /\ b[k - 3] /\ v[k - 3] = "%"

LEMMA BegunExists ==
  ASSUME NEW v, NEW n \in Nat
  PROVE  \E b : b = [k \in 1 .. n |-> Begun(v, b, k)]
  <1> DEFINE A == {m \in Nat : \E b : b = [k \in 1 .. m |-> Begun(v, b, k)]}
  <1>1. 0 \in A
    <2>1. <<>> = [k \in 1 .. 0 |-> Begun(v, <<>>, k)]  OBVIOUS
    <2> QED  BY <2>1
  <1>2. ASSUME NEW m \in Nat, m \in A
        PROVE  m + 1 \in A
    <2>1. PICK b : b = [k \in 1 .. m |-> Begun(v, b, k)]  BY <1>2
    <2> DEFINE c == [k \in 1 .. m + 1 |-> IF k \in 1 .. m THEN b[k] ELSE Begun(v, b, k)]
    <2>2. \A k \in 1 .. m : c[k] = b[k]  OBVIOUS
    <2>3. \A k \in 1 .. m + 1 : c[k] = Begun(v, b, k)
      <3> TAKE k \in 1 .. m + 1
      <3>1. CASE k \in 1 .. m
        <4>1. c[k] = b[k]  BY <3>1, <2>2
        <4>2. b[k] = Begun(v, b, k)  BY <3>1, <2>1, Zenon
        <4> QED  BY <4>1, <4>2
      <3>2. CASE k \notin 1 .. m  BY <3>2
      <3> QED  BY <3>1, <3>2
    <2> HIDE DEF c
    <2>4. \A k \in 1 .. m + 1 : Begun(v, b, k) = Begun(v, c, k)
      <3> TAKE k \in 1 .. m + 1
      <3>1. k > 1 => c[k - 1] = b[k - 1]  BY <2>2
      <3>2. k > 3 => c[k - 3] = b[k - 3]  BY <2>2
      <3> QED  BY <3>1, <3>2, Zenon DEF Begun
    <2>5. c = [k \in 1 .. m + 1 |-> c[k]]  BY DEF c
    <2>6. \A k \in 1 .. m + 1 : c[k] = Begun(v, c, k)  BY <2>3, <2>4, Zenon
    <2>7. [k \in 1 .. m + 1 |-> c[k]] = [k \in 1 .. m + 1 |-> Begun(v, c, k)]
      BY <2>6, Zenon
    <2>8. c = [k \in 1 .. m + 1 |-> Begun(v, c, k)]  BY <2>5, <2>7, Zenon
    <2> QED  BY <2>8
  <1> HIDE DEF A
  <1>3. Nat \subseteq A  BY <1>1, <1>2, NatSet
  <1> QED  BY <1>3 DEF A

(* Where the bytes of a value begin.                                       *)
LEMMA BeginsIs ==
  ASSUME NEW S, NEW v \in Seq(S)
  PROVE  /\ Begins(v) \subseteq 1 .. Len(v)
         /\ \A k \in 1 .. Len(v) : k \in Begins(v) <=>
              \/ k = 1
              \/ k > 1 /\ k - 1 \in Begins(v) /\ v[k - 1] # "%"
              \/ k > 3 /\ k - 3 \in Begins(v) /\ v[k - 3] = "%"
  <1> DEFINE b == CHOOSE b : b = [k \in DOMAIN v |-> Begun(v, b, k)]
  <1>1. DOMAIN v = 1 .. Len(v) /\ Len(v) \in Nat  OBVIOUS
  <1>2. \E f : f = [k \in DOMAIN v |-> Begun(v, f, k)]
    <2>1. \E f : f = [k \in 1 .. Len(v) |-> Begun(v, f, k)]
      BY <1>1, BegunExists
    <2> QED  BY <1>1, <2>1
  <1>3. b = [k \in DOMAIN v |-> Begun(v, b, k)]  BY <1>2, Zenon
  <1>4. Begins(v) = {k \in DOMAIN v : b[k]}  BY DEF Begins, Begun
  <1> HIDE DEF b
  <1>5. \A k \in 1 .. Len(v) : b[k] = Begun(v, b, k)  BY <1>1, <1>3, Zenon
  <1>6. \A k \in 1 .. Len(v) : k \in Begins(v) <=> b[k]  BY <1>1, <1>4, Zenon
  <1>7. ASSUME NEW k \in 1 .. Len(v)
        PROVE  k \in Begins(v) <=>
                 \/ k = 1
                 \/ k > 1 /\ k - 1 \in Begins(v) /\ v[k - 1] # "%"
                 \/ k > 3 /\ k - 3 \in Begins(v) /\ v[k - 3] = "%"
    <2>1. k \in Begins(v) <=> Begun(v, b, k)  BY <1>5, <1>6, Zenon
    <2>2. k > 1 => k - 1 \in 1 .. Len(v)  OBVIOUS
    <2>3. k > 3 => k - 3 \in 1 .. Len(v)  OBVIOUS
    <2>4. k > 1 => (k - 1 \in Begins(v) <=> b[k - 1])  BY <1>6, <2>2, Zenon
    <2>5. k > 3 => (k - 3 \in Begins(v) <=> b[k - 3])  BY <1>6, <2>3, Zenon
    <2> QED  BY <2>1, <2>4, <2>5, Zenon DEF Begun
  <1> QED  BY <1>1, <1>4, <1>7, Zenon

Written == TextChars \cup {" "}
Bytes1 == Seq(Written)

LEMMA ShortSeqs ==
  ASSUME NEW S, NEW x \in S, NEW y \in S
  PROVE  <<x>> \in Seq(S) /\ <<x, y>> \in Seq(S)
  OBVIOUS

LEMMA ByteIs ==
  ASSUME NEW v \in Seq(TextChars), NEW k \in 1 .. Len(v)
  PROVE  /\ v[k] = "+" => ByteAt(v, k) = <<" ">>
         /\ v[k] # "+" /\ v[k] # "%" => ByteAt(v, k) = <<v[k]>>
         /\ v[k] = "%" /\ k + 2 <= Len(v) => ByteAt(v, k) = <<v[k + 1], v[k + 2]>>
         /\ v[k] = "%" /\ k + 2 > Len(v) => Len(ByteAt(v, k)) # 2
  <1>1. v[k] = "+" => ByteAt(v, k) = <<" ">>  BY DEF ByteAt
  <1>2. v[k] # "+" /\ v[k] # "%" => ByteAt(v, k) = <<v[k]>>  BY DEF ByteAt
  <1>3. v[k] = "%" => ByteAt(v, k) = SubSeq(v, k + 1, Min({k + 2, Len(v)}))
    BY DEF ByteAt
  <1>4. ASSUME v[k] = "%", k + 2 <= Len(v)
        PROVE  ByteAt(v, k) = <<v[k + 1], v[k + 2]>>
    <2> DEFINE S == {k + 2, Len(v)}
               w == SubSeq(v, k + 1, k + 2)
               u == <<v[k + 1], v[k + 2]>>
    <2>1. S \subseteq Nat /\ k + 2 \in S /\ \A j \in S : k + 2 <= j  BY <1>4
    <2>2. Min(S) = k + 2
      <3> HIDE DEF S
      <3> QED  BY <2>1, MinIs
    <2>3. k + 1 \in 1 .. Len(v) + 1 /\ k + 2 \in (k + 1) - 1 .. Len(v)  BY <1>4
    <2>4. /\ w \in Seq(TextChars) /\ Len(w) = (k + 2) - (k + 1) + 1
          /\ \A j \in 1 .. (k + 2) - (k + 1) + 1 : w[j] = v[(k + 1) + j - 1]
      BY <2>3, PieceIs
    <2>5. Len(w) = 2 /\ w[1] = v[k + 1] /\ w[2] = v[k + 2]
      <3> HIDE DEF w
      <3>1. (k + 2) - (k + 1) + 1 = 2  OBVIOUS
      <3>2. w[1] = v[(k + 1) + 1 - 1] /\ w[2] = v[(k + 1) + 2 - 1]  BY <2>4, <3>1
      <3>3. (k + 1) + 1 - 1 = k + 1 /\ (k + 1) + 2 - 1 = k + 2  OBVIOUS
      <3> QED  BY <2>4, <3>1, <3>2, <3>3
    <2>6. v[k + 1] \in TextChars /\ v[k + 2] \in TextChars  BY <1>4
    <2>7. u \in Seq(TextChars) /\ Len(u) = 2 /\ u[1] = v[k + 1] /\ u[2] = v[k + 2]  BY <2>6
    <2> HIDE DEF w, u
    <2>8. \A j \in 1 .. 2 : w[j] = u[j]  BY <2>5, <2>7
    <2>9. w = u  BY <2>4, <2>5, <2>7, <2>8, SeqEqual
    <2> QED  BY <1>3, <1>4, <2>2, <2>9 DEF w, u
  <1>5. ASSUME v[k] = "%", k + 2 > Len(v)
        PROVE  Len(ByteAt(v, k)) # 2
    <2> DEFINE S == {k + 2, Len(v)}
    <2>1. S \subseteq Nat /\ Len(v) \in S /\ \A j \in S : Len(v) <= j  BY <1>5
    <2>2. Min(S) = Len(v)
      <3> HIDE DEF S
      <3> QED  BY <2>1, MinIs
    <2>3. k + 1 \in 1 .. Len(v) + 1 /\ Len(v) \in (k + 1) - 1 .. Len(v)  OBVIOUS
    <2>4. Len(SubSeq(v, k + 1, Len(v))) = Len(v) - (k + 1) + 1  BY <2>3, PieceIs
    <2>5. Len(v) - (k + 1) + 1 # 2  BY <1>5
    <2> QED  BY <1>3, <1>5, <2>2, <2>4, <2>5
  <1> QED  BY <1>1, <1>2, <1>4, <1>5

(* A byte of the result: a character, or the two digits of an escape.      *)
LEMMA ByteType ==
  ASSUME NEW v \in Seq(TextChars), NEW a \in 1 .. Len(v), NEW w \in {1, 3},
         w = 1 => v[a] # "%",
         w = 3 => v[a] = "%" /\ a + 2 <= Len(v) /\ v[a + 1] \in Digits /\ v[a + 2] \in Digits
  PROVE  ByteAt(v, a) \in Bytes1
  <1> DEFINE byte == ByteAt(v, a)
  <1>a. v[a] \in TextChars  OBVIOUS
  <1>b. w = 3 => v[a + 1] \in TextChars /\ v[a + 2] \in TextChars  OBVIOUS
  <1>c. TextChars \subseteq Written /\ " " \in Written  BY DEF Written
  <1>1. v[a] \in Written  BY <1>a, <1>c
  <1>2. w = 3 => v[a + 1] \in Written /\ v[a + 2] \in Written  BY <1>b, <1>c
  <1>4. v[a] = "%" => w = 3  OBVIOUS
  <1>5. ASSUME w = 3  PROVE  byte \in Bytes1
    <2>1. byte = <<v[a + 1], v[a + 2]>>  BY <1>5, ByteIs
    <2> HIDE DEF byte
    <2> QED  BY <1>2, <1>5, <2>1, ShortSeqs DEF Bytes1
  <1>6. ASSUME w # 3  PROVE  byte \in Bytes1
    <2>1. byte = <<" ">> \/ byte = <<v[a]>>  BY <1>4, <1>6, ByteIs
    <2> HIDE DEF byte
    <2> QED  BY <1>c, <1>1, <2>1, ShortSeqs DEF Bytes1
  <1> QED  BY <1>5, <1>6

(* What has been decoded when the loop is at a: it never stands within an  *)
(* escape.                                                                 *)
DecodedTo(v, a) ==
  /\ a \in 1 .. Len(v) + 1
  /\ a <= Len(v) => a \in Begins(v)
  /\ \A k \in Begins(v) : k < a /\ v[k] = "%" =>
       /\ k + 3 <= a /\ k + 2 <= Len(v)
       /\ v[k + 1] \in Digits /\ v[k + 2] \in Digits

(* What has been written then.                                             *)
Wrote(v, a, bytes) ==
  /\ bytes \in Seq(Bytes1)
  /\ Len(bytes) = Cardinality(Below(Begins(v), a))
  /\ \A n \in 1 .. Len(bytes) : bytes[n] = ByteAt(v, Nth(Begins(v), n))

LEMMA DecodedStart ==
  ASSUME NEW v \in Seq(TextChars)
  PROVE  DecodedTo(v, 1) /\ Wrote(v, 1, <<>>)
  <1>1. Begins(v) \subseteq 1 .. Len(v) /\ (1 <= Len(v) => 1 \in Begins(v))
    BY BeginsIs
  <1>2. \A k \in Begins(v) : k \in Nat /\ ~(k < 1)  BY <1>1
  <1>3. DecodedTo(v, 1)  BY <1>1, <1>2 DEF DecodedTo
  <1>4. Below(Begins(v), 1) = {}  BY <1>2 DEF Below
  <1>5. Cardinality({}) = 0  BY FS_EmptySet
  <1>6. Wrote(v, 1, <<>>)
    <2>1. <<>> \in Seq(Bytes1) /\ Len(<<>>) = 0  BY EmptySeq
    <2>2. \A n \in 1 .. 0 : FALSE  OBVIOUS
    <2> QED  BY <1>4, <1>5, <2>1, <2>2 DEF Wrote
  <1> QED  BY <1>3, <1>6

LEMMA DecodedStep ==
  ASSUME NEW v \in Seq(TextChars), NEW a \in 1 .. Len(v), NEW w \in {1, 3}, NEW bytes,
         DecodedTo(v, a), Wrote(v, a, bytes),
         w = 1 => v[a] # "%",
         w = 3 => v[a] = "%" /\ a + 2 <= Len(v) /\ v[a + 1] \in Digits /\ v[a + 2] \in Digits
  PROVE  DecodedTo(v, a + w) /\ Wrote(v, a + w, Append(bytes, ByteAt(v, a)))
  <1> DEFINE B == Begins(v)
             n == Len(v)
  <1>1. /\ B \subseteq 1 .. n /\ n \in Nat
        /\ \A k \in 1 .. n : k \in B <=>
              \/ k = 1
              \/ k > 1 /\ k - 1 \in B /\ v[k - 1] # "%"
              \/ k > 3 /\ k - 3 \in B /\ v[k - 3] = "%"
    BY BeginsIs
  <1>2. /\ a \in B
        /\ \A k \in B : k < a /\ v[k] = "%" =>
             /\ k + 3 <= a /\ k + 2 <= n
             /\ v[k + 1] \in Digits /\ v[k + 2] \in Digits
    BY DEF DecodedTo
  <1> HIDE DEF B
  <1>3. \A k \in B : k \in 1 .. n  BY <1>1
  <1>4. a + w \in 1 .. n + 1  OBVIOUS
  <1>5. a + w <= n => a + w \in B
    <2> SUFFICES ASSUME a + w <= n  PROVE a + w \in B
      OBVIOUS
    <2>1. a + w \in 1 .. n /\ a + w > 1 /\ (w = 3 => a + w > 3)  OBVIOUS
    <2>2. (w = 1 => (a + w) - 1 = a) /\ (w = 3 => (a + w) - 3 = a)  OBVIOUS
    <2> QED  BY <1>1, <1>2, <2>1, <2>2
  <1>6. w = 3 => a + 1 \notin B /\ a + 2 \notin B
    <2> SUFFICES ASSUME w = 3  PROVE a + 1 \notin B /\ a + 2 \notin B
      OBVIOUS
    <2>0. v[a] = "%" /\ a + 2 <= n  OBVIOUS
    <2>1. a + 1 \notin B
      <3>1. a + 1 \in 1 .. n /\ a + 1 # 1 /\ (a + 1) - 1 = a /\ (a + 1) - 3 = a - 2
        BY <2>0
      <3>2. ~(a - 2 \in B /\ v[a - 2] = "%")  BY <1>2, <1>3
      <3> QED  BY <1>1, <2>0, <3>1, <3>2
    <2>2. a + 2 \notin B
      <3>1. a + 2 \in 1 .. n /\ a + 2 # 1 /\ (a + 2) - 1 = a + 1 /\ (a + 2) - 3 = a - 1
        BY <2>0
      <3>2. ~(a - 1 \in B /\ v[a - 1] = "%")  BY <1>2, <1>3
      <3> QED  BY <1>1, <2>1, <3>1, <3>2
    <2> QED  BY <2>1, <2>2
  <1>7. \A j \in B : j < a + w => j <= a
    <2> TAKE j \in B
    <2>1. j \in Int /\ a \in Int  BY <1>3
    <2>2. w = 3 => j # a + 1 /\ j # a + 2  BY <1>6
    <2> QED  BY <2>1, <2>2
  <1>8. DecodedTo(v, a + w)
    <2>1. ASSUME NEW k \in B, k < a + w, v[k] = "%"
          PROVE  /\ k + 3 <= a + w /\ k + 2 <= n
                 /\ v[k + 1] \in Digits /\ v[k + 2] \in Digits
      <3>1. k \in Int  BY <1>3
      <3>2. CASE k = a
        BY <2>1, <3>2
      <3>3. CASE k < a
        <4>1. k + 3 <= a  BY <1>2, <2>1, <3>3
        <4>2. k + 3 <= a + w  BY <3>1, <4>1
        <4> QED  BY <1>2, <2>1, <3>3, <4>2
      <3> QED  BY <1>7, <2>1, <3>1, <3>2, <3>3
    <2> QED  BY <1>4, <1>5, <2>1 DEF DecodedTo, B
  <1>9. Wrote(v, a + w, Append(bytes, ByteAt(v, a)))
    <2> DEFINE c == Cardinality(Below(B, a))
               byte == ByteAt(v, a)
               more == Append(bytes, byte)
    <2>0. /\ bytes \in Seq(Bytes1) /\ Len(bytes) = c
          /\ \A m \in 1 .. Len(bytes) : bytes[m] = ByteAt(v, Nth(B, m))
      BY DEF Wrote, B
    <2>1. byte \in Bytes1  BY ByteType
    <2>2. a + w \in Nat /\ a + w > a  OBVIOUS
    <2>3. Cardinality(Below(B, a + w)) = c + 1
      BY <1>1, <1>2, <1>7, <2>2, BelowNext
    <2>4. Nth(B, c + 1) = a  BY <1>1, <1>2, NthIs
    <2> HIDE DEF c, byte
    <2>5. /\ more \in Seq(Bytes1) /\ Len(more) = Len(bytes) + 1
          /\ \A m \in 1 .. Len(bytes) : more[m] = bytes[m]
          /\ more[Len(bytes) + 1] = byte
      BY <2>0, <2>1, AppendProperties
    <2>6. Len(bytes) \in Nat  BY <2>0
    <2> HIDE DEF more
    <2>7. ASSUME NEW m \in 1 .. Len(more)
          PROVE  more[m] = ByteAt(v, Nth(B, m))
      <3>1. CASE m \in 1 .. Len(bytes)  BY <3>1, <2>0, <2>5
      <3>2. CASE m = Len(bytes) + 1  BY <3>2, <2>0, <2>4, <2>5 DEF byte
      <3> QED  BY <2>5, <2>6, <3>1, <3>2
    <2>8. Len(more) = Cardinality(Below(B, a + w))  BY <2>0, <2>3, <2>5
    <2> QED  BY <2>5, <2>7, <2>8 DEF Wrote, B, more, byte
  <1> QED  BY <1>8, <1>9

(* At the end of the value all of it has been written, and it was well     *)
(* formed.                                                                 *)
LEMMA DecodedEnd ==
  ASSUME NEW v \in Seq(TextChars), NEW bytes,
         DecodedTo(v, Len(v) + 1), Wrote(v, Len(v) + 1, bytes)
  PROVE  WellFormed(v) /\ bytes = Bytes(v) /\ Len(Bytes(v)) = Len(bytes)
  <1> DEFINE B == Begins(v)
  <1>1. B \subseteq 1 .. Len(v) /\ Len(v) \in Nat  BY BeginsIs
  <1>2. \A k \in B : k \in 1 .. Len(v) /\ k < Len(v) + 1  BY <1>1
  <1>3. WellFormed(v)
    <2> SUFFICES ASSUME NEW k \in B, v[k] = "%"
                 PROVE  Len(ByteAt(v, k)) = 2 /\ ToSet(ByteAt(v, k)) \subseteq Digits
      BY DEF WellFormed
    <2>1. k + 2 <= Len(v) /\ v[k + 1] \in Digits /\ v[k + 2] \in Digits
      BY <1>2 DEF DecodedTo
    <2>2. ByteAt(v, k) = <<v[k + 1], v[k + 2]>>  BY <1>2, <2>1, ByteIs
    <2>3. ToSet(<<v[k + 1], v[k + 2]>>) \subseteq Digits  BY <2>1 DEF ToSet
    <2> QED  BY <2>2, <2>3
  <1>4. Below(B, Len(v) + 1) = B  BY <1>2 DEF Below
  <1>5. /\ bytes \in Seq(Bytes1) /\ Len(bytes) = Cardinality(B)
        /\ \A n \in 1 .. Len(bytes) : bytes[n] = ByteAt(v, Nth(B, n))
    BY <1>4 DEF Wrote
  <1>6. Bytes(v) = [n \in 1 .. Cardinality(B) |-> ByteAt(v, Nth(B, n))]
    BY DEF Bytes
  <1> HIDE DEF B
  <1>7. bytes = Bytes(v)
    BY <1>5, <1>6, LenProperties
  <1> QED  BY <1>3, <1>7

(* A value that is not decoded to its end is not well formed, or longer.   *)
LEMMA BadEscape ==
  ASSUME NEW v \in Seq(TextChars), NEW a \in 1 .. Len(v), DecodedTo(v, a), v[a] = "%",
         ~(a + 2 <= Len(v) /\ v[a + 1] \in Digits /\ v[a + 2] \in Digits)
  PROVE  ~WellFormed(v)
  <1>1. a \in Begins(v)  BY DEF DecodedTo
  <1>2. SUFFICES ASSUME Len(ByteAt(v, a)) = 2, ToSet(ByteAt(v, a)) \subseteq Digits
                 PROVE  FALSE
    BY <1>1 DEF WellFormed
  <1>3. a + 2 <= Len(v)
    <2>1. ASSUME a + 2 > Len(v)
          PROVE  FALSE
      <3>1. Len(ByteAt(v, a)) # 2  BY <2>1, ByteIs, Zenon
      <3> QED  BY <1>2, <3>1
    <2> QED  BY <2>1
  <1>4. ByteAt(v, a) = <<v[a + 1], v[a + 2]>>  BY <1>3, ByteIs
  <1>5. v[a + 1] \in ToSet(<<v[a + 1], v[a + 2]>>) /\ v[a + 2] \in ToSet(<<v[a + 1], v[a + 2]>>)
    BY DEF ToSet
  <1> QED  BY <1>2, <1>3, <1>4, <1>5

LEMMA MoreBytes ==
  ASSUME NEW v \in Seq(TextChars), NEW a \in 1 .. Len(v), NEW bytes,
         DecodedTo(v, a), Wrote(v, a, bytes)
  PROVE  Len(Bytes(v)) \in Nat /\ Len(bytes) \in Nat /\ Len(bytes) + 1 <= Len(Bytes(v))
  <1> DEFINE B == Begins(v)
  <1>1. B \subseteq 1 .. Len(v) /\ Len(v) \in Nat  BY BeginsIs
  <1>2. a \in B  BY DEF DecodedTo
  <1>3. Bytes(v) = [n \in 1 .. Cardinality(B) |-> ByteAt(v, Nth(B, n))]
    BY DEF Bytes
  <1> HIDE DEF B
  <1>4. IsFiniteSet(B) /\ Cardinality(B) \in Nat /\ IsFiniteSet(Below(B, a))
    BY <1>1, BelowFinite
  <1>5. Len(Bytes(v)) = Cardinality(B)  BY <1>3, <1>4
  <1>6. Below(B, a) \cup {a} \in SUBSET B  BY <1>2 DEF Below
  <1>7. a \notin Below(B, a)
    <2>1. ~(a < a)  OBVIOUS
    <2> QED  BY <2>1 DEF Below
  <1>8. Cardinality(Below(B, a) \cup {a}) = Cardinality(Below(B, a)) + 1
    BY <1>4, <1>7, FS_AddElement
  <1>9. Cardinality(Below(B, a)) + 1 <= Cardinality(B)
    BY <1>4, <1>6, <1>8, FS_Subset
  <1>10. Len(bytes) = Cardinality(Below(B, a)) /\ Len(bytes) \in Nat
    BY <1>4, FS_CardinalityType DEF Wrote, B
  <1> QED  BY <1>4, <1>5, <1>9, <1>10

-----------------------------------------------------------------------------
(* The invariant.                                                          *)

FirstValue == Value(PairAt(Min(Named)))

(* What is true at every moment.                                           *)
CallInv ==
  /\ call \in Calls
  /\ pc \in {"start", "pair", "decode", "done"}
  /\ result \in BOOLEAN
  /\ out \in Seq(Bytes1)
  /\ RoomForZero

(* The search has passed no pair of the name.                              *)
PairInv ==
  /\ pc = "start" => out = <<>> /\ pos = 1
  /\ pc = "pair" => /\ Readable /\ out = <<>> /\ call.out_len # 0
                    /\ pos \in PairStarts
                    /\ \A s \in Named : s >= pos

(* The decoding is that of the first such pair.                            *)
Origin == val_end - Len(FirstValue)
DecodeInv ==
  pc = "decode" =>
    /\ Readable /\ Named # {} /\ call.out_len # 0
    /\ FirstValue \in Seq(TextChars)
    /\ val_end \in Nat /\ Origin \in 1 .. Len(text) + 1 /\ val_end <= Len(text) + 1
    /\ FirstValue = SubSeq(text, Origin, val_end - 1)
    /\ pos \in Nat
    /\ DecodedTo(FirstValue, pos - Origin + 1)
    /\ Wrote(FirstValue, pos - Origin + 1, out)

IInv == CallInv /\ PairInv /\ DecodeInv /\ FindsAndDecodes

LEMMA CallTypes ==
  ASSUME call \in Calls
  PROVE  text \in Seq(TextChars) /\ call.out_len \in Nat
  <1>1. call.text \in BoundedSeq(TextChars, MaxText) /\ call.out_len \in OutLens
    BY DEF Calls, Texts
  <1>2. \A t \in BoundedSeq(TextChars, MaxText) : t \in Seq(TextChars)
    BY RequestAssumption DEF BoundedSeq, SeqOf
  <1> QED  BY <1>1, <1>2, RequestAssumption DEF text

(* Nothing of the call changes.                                            *)
LEMMA SameCall ==
  ASSUME call' = call
  PROVE  /\ text' = text /\ Readable' = Readable
         /\ Named' = Named /\ PairStarts' = PairStarts
         /\ FirstValue' = FirstValue
  <1>1. text' = text /\ Readable' = Readable  BY DEF text, Readable, HasFormType
  <1>2. Named' = Named /\ PairStarts' = PairStarts /\ Line' = Line
    BY DEF Named, PairStarts, Line, text, Key, PairAt, Equals, Scan, Min
  <1> DEFINE m == Min(Named)
  <1>3. m' = m  BY <1>2
  <1>4. PairAt(m)' = PairAt(m)  BY <1>2, <1>3 DEF PairAt
  <1> QED  BY <1>1, <1>2, <1>4 DEF FirstValue

LEMMA StartsAre ==
  ASSUME text \in Seq(TextChars)
  PROVE  /\ PairStarts \subseteq 1 .. LineEnd
         /\ 1 \in PairStarts
         /\ \A s \in PairStarts : s # 1 => s - 1 \in 1 .. LineEnd - 1 /\ text[s - 1] = "&"
         /\ \A k \in 1 .. LineEnd - 1 : text[k] = "&" => k + 1 \in PairStarts
         /\ Named \subseteq PairStarts
  <1> DEFINE A == {k \in DOMAIN Line : Line[k] = "&"}
  <1>1. /\ LineEnd \in 1 .. Len(text) + 1 /\ LineEnd \in Nat
        /\ DOMAIN Line = 1 .. LineEnd - 1
        /\ \A k \in 1 .. LineEnd - 1 : Line[k] = text[k]
    BY LineIs
  <1>2. \A k : k \in A <=> k \in 1 .. LineEnd - 1 /\ text[k] = "&"  BY <1>1
  <1>3. PairStarts = {1} \cup {k + 1 : k \in A}  BY DEF PairStarts
  <1> HIDE DEF A
  <1>4. \A s \in PairStarts : s # 1 => \E k \in A : s = k + 1  BY <1>3
  <1>5. \A s \in PairStarts : s # 1 => s - 1 \in 1 .. LineEnd - 1 /\ text[s - 1] = "&"
    <2> SUFFICES ASSUME NEW s \in PairStarts, s # 1
                 PROVE  s - 1 \in 1 .. LineEnd - 1 /\ text[s - 1] = "&"
      OBVIOUS
    <2>1. PICK k \in A : s = k + 1  BY <1>4
    <2>2. k \in 1 .. LineEnd - 1 /\ text[k] = "&"  BY <1>2
    <2>3. s - 1 = k  BY <2>1, <2>2
    <2> QED  BY <2>2, <2>3
  <1>6. PairStarts \subseteq 1 .. LineEnd
    <2> SUFFICES ASSUME NEW s \in PairStarts, s # 1
                 PROVE  s \in 1 .. LineEnd
      BY <1>1
    <2>1. PICK k \in A : s = k + 1  BY <1>4
    <2>2. k \in 1 .. LineEnd - 1  BY <1>2
    <2> QED  BY <1>1, <2>1, <2>2
  <1>7. \A k \in 1 .. LineEnd - 1 : text[k] = "&" => k + 1 \in PairStarts
    BY <1>2, <1>3
  <1>8. 1 \in PairStarts  BY <1>3
  <1> QED  BY <1>5, <1>6, <1>7, <1>8 DEF Named

(* The value of any pair is a text, and its bytes can be counted.          *)
LEMMA ValueIs ==
  ASSUME text \in Seq(TextChars), Named # {}
  PROVE  FirstValue \in Seq(TextChars)
  <1> DEFINE s == Min(Named)
             n == Len(Line)
             F == Positions(Line, {"&"})
             p == PairAt(s)
             G == Positions(p, {"="})
  <1>1. /\ LineEnd \in 1 .. Len(text) + 1 /\ Line \in Seq(TextChars) /\ n = LineEnd - 1
        /\ n \in Nat /\ DOMAIN Line = 1 .. n
    BY LineIs
  <1>2. Named \subseteq 1 .. LineEnd  BY StartsAre
  <1>3. Named \subseteq Nat  BY <1>1, <1>2
  <1>4. s \in Named  BY <1>3, MinOfNat
  <1>a. s \in 1 .. LineEnd /\ n + 1 = LineEnd
    <2> HIDE DEF s, n
    <2> QED  BY <1>1, <1>2, <1>4
  <1>5. s \in 1 .. n + 1  BY <1>a
  <1> HIDE DEF s
  <1>6. p \in Seq(TextChars)
    <2>1. {k \in s .. n : Line[k] = "&"} = {k \in s .. n : k \in F}
      BY <1>1, <1>5 DEF Positions
    <2> HIDE DEF n, F, p
    <2>2. PICK e \in s .. n + 1 : /\ e <= n => e \in F
                                  /\ \A k \in s .. n : k < e => k \notin F
      BY <1>1, <1>5, StopExists
    <2>3. Min({n + 1} \cup {k \in s .. n : k \in F}) = e
      BY <1>1, <1>5, <2>2, StopIs
    <2>4. p = SubSeq(Line, s, e - 1)  BY <2>1, <2>3 DEF p, PairAt, n
    <2>5. s \in 1 .. Len(Line) + 1 /\ e - 1 \in s - 1 .. Len(Line)
      BY <1>1, <1>5 DEF n
    <2> QED  BY <1>1, <2>4, <2>5, PieceIs
  <1> HIDE DEF p
  <1>7. Value(p) \in Seq(TextChars)
    <2> DEFINE m == Len(p)
    <2>0. m \in Nat /\ DOMAIN p = 1 .. m /\ 1 \in 1 .. m + 1  BY <1>6
    <2>1. {k \in DOMAIN p : p[k] = "="} = {k \in 1 .. m : k \in G}
      BY <2>0 DEF Positions
    <2> HIDE DEF m, G
    <2>2. PICK e \in 1 .. m + 1 : /\ e <= m => e \in G
                                  /\ \A k \in 1 .. m : k < e => k \notin G
      BY <2>0, StopExists
    <2>3. Min({m + 1} \cup {k \in 1 .. m : k \in G}) = e
      BY <2>0, <2>2, StopIs
    <2>4. Value(p) = SubSeq(p, e + 1, m)  BY <2>1, <2>3 DEF Value, Equals, m
    <2>5. CASE e = m + 1
      <3>1. SubSeq(p, e + 1, m) = <<>>  BY <2>0, <2>5, SubSeqEmpty
      <3> QED  BY <2>4, <3>1, EmptySeq
    <2>6. CASE e <= m
      <3>1. e + 1 \in 1 .. Len(p) + 1 /\ m \in (e + 1) - 1 .. Len(p)  BY <2>0, <2>6 DEF m
      <3> QED  BY <1>6, <2>4, <3>1, PieceIs
    <2> QED  BY <2>0, <2>5, <2>6
  <1> QED  BY <1>7 DEF FirstValue, p, s

LEMMA BytesCount ==
  ASSUME NEW v \in Seq(TextChars)
  PROVE  Len(Bytes(v)) \in Nat
  <1> DEFINE B == Begins(v)
  <1>1. B \subseteq 1 .. Len(v) /\ Len(v) \in Nat  BY BeginsIs
  <1>2. Bytes(v) = [n \in 1 .. Cardinality(B) |-> ByteAt(v, Nth(B, n))]
    BY DEF Bytes
  <1> HIDE DEF B
  <1>3. Cardinality(B) \in Nat  BY <1>1, BelowFinite
  <1> QED  BY <1>2, <1>3

LEMMA InitInv ==
  ASSUME RequestInit
  PROVE  IInv
  <1>1. <<>> \in Seq(Bytes1)  BY EmptySeq
  <1> QED  BY <1>1 DEF RequestInit, IInv, CallInv, PairInv, DecodeInv, FindsAndDecodes, RoomForZero

LEMMA StartInv ==
  ASSUME IInv, Start
  PROVE  IInv'
  <1>0. text \in Seq(TextChars) /\ call.out_len \in Nat
    BY CallTypes DEF IInv, CallInv
  <1>1. /\ UNCHANGED <<call, pos, val_end, out>> /\ pc = "start"
        /\ pos = 1 /\ out = <<>>
    BY DEF Start, IInv, PairInv
  <1>2. /\ text' = text /\ Readable' = Readable /\ Named' = Named
        /\ PairStarts' = PairStarts /\ FirstValue' = FirstValue
    BY <1>1, SameCall
  <1>3. CASE call.out_len = 0 \/ (call.function = "form_param" /\ (~HasFormType \/ text = <<>>))
    <2>1. pc' = "done" /\ result' = FALSE  BY <1>3 DEF Start, Return
    <2>2. call.out_len # 0 => ~Readable  BY <1>3 DEF Readable
    <2>3. FindsAndDecodes'
      <3> DEFINE v == FirstValue
                 b == Len(Bytes(v))
      <3>1. call.out_len = 0 /\ Named # {} => ~(b < call.out_len)
        <4>1. Named # {} => b \in Nat  BY <1>0, ValueIs, BytesCount
        <4> HIDE DEF b
        <4> QED  BY <4>1
      <3> QED  BY <1>1, <1>2, <2>1, <2>2, <3>1 DEF FindsAndDecodes, FirstValue
    <2> QED  BY <1>1, <2>1, <2>3 DEF IInv, CallInv, PairInv, DecodeInv, RoomForZero
  <1>4. CASE ~(call.out_len = 0 \/ (call.function = "form_param" /\ (~HasFormType \/ text = <<>>)))
    <2>1. pc' = "pair" /\ UNCHANGED result  BY <1>4 DEF Start
    <2>2. Readable  BY <1>1, <1>4 DEF Readable, IInv, CallInv, Calls
    <2>3. 1 \in PairStarts /\ \A s \in Named : s >= 1
      <3>1. 1 \in PairStarts /\ Named \subseteq 1 .. LineEnd  BY <1>0, StartsAre
      <3> QED  BY <3>1
    <2>4. PairInv'  BY <1>1, <1>2, <1>4, <2>1, <2>2, <2>3 DEF PairInv
    <2> QED  BY <1>1, <2>1, <2>4 DEF IInv, CallInv, DecodeInv, FindsAndDecodes, RoomForZero
  <1> QED  BY <1>3, <1>4

LEMMA PairStepInv ==
  ASSUME IInv, Pair
  PROVE  IInv'
  <1>0. text \in Seq(TextChars) /\ call.out_len \in Nat
    BY CallTypes DEF IInv, CallInv
  <1>1. /\ UNCHANGED <<call, out>> /\ pc = "pair" /\ out = <<>> /\ Readable
        /\ call.out_len # 0 /\ pos \in PairStarts /\ \A s \in Named : s >= pos
    BY DEF Pair, IInv, PairInv
  <1>2. /\ text' = text /\ Readable' = Readable /\ Named' = Named
        /\ PairStarts' = PairStarts /\ FirstValue' = FirstValue
    BY <1>1, SameCall
  <1>3. /\ PairStarts \subseteq 1 .. LineEnd
        /\ \A s \in PairStarts : s # 1 => s - 1 \in 1 .. LineEnd - 1 /\ text[s - 1] = "&"
        /\ \A k \in 1 .. LineEnd - 1 : text[k] = "&" => k + 1 \in PairStarts
        /\ Named \subseteq PairStarts
    BY <1>0, StartsAre
  <1>4. LineEnd \in 1 .. Len(text) + 1 /\ Len(text) \in Nat
    BY <1>0, LineIs
  <1>5. pos \in 1 .. LineEnd  BY <1>1, <1>3
  <1>6. /\ KeyEnd \in pos .. ValueEnd /\ ValueEnd \in pos .. LineEnd
        /\ ValueStart \in KeyEnd .. ValueEnd
        /\ \A k \in pos .. ValueEnd - 1 : text[k] # "&"
        /\ ValueEnd < LineEnd => text[ValueEnd] = "&"
        /\ ValueEnd = LineEnd => ValueEnd > Len(text) \/ text[ValueEnd] = "NUL"
    BY <1>0, <1>5, EndsAre
  <1>7. /\ Key(PairAt(pos)) = SubSeq(text, pos, KeyEnd - 1)
        /\ Value(PairAt(pos)) = SubSeq(text, ValueStart, ValueEnd - 1)
    BY <1>0, <1>5, PairIs
  <1>8. CallInv'
    BY <1>1 DEF Pair, Return, IInv, CallInv, RoomForZero
  <1>9. CASE IsNamed
    <2> DEFINE v == FirstValue
               c == ValueStart
               d == ValueEnd - 1
    <2>1. pc' = "decode" /\ pos' = ValueStart /\ val_end' = ValueEnd
      BY <1>9 DEF Pair
    <2>2. pos \in Named  BY <1>1, <1>7, <1>9 DEF Named, IsNamed
    <2>3. Min(Named) = pos
      <3>1. Named \subseteq Nat  BY <1>3, <1>4
      <3>2. \A s \in Named : pos <= s
        <4> TAKE s \in Named
        <4>1. s \in Nat /\ pos \in Nat /\ s >= pos  BY <1>1, <3>1, <2>2
        <4> QED  BY <4>1
      <3> QED  BY <2>2, <3>1, <3>2, MinIs
    <2>4. v = SubSeq(text, c, d)  BY <1>7, <2>3 DEF FirstValue
    <2>5. c \in 1 .. Len(text) + 1 /\ d \in c - 1 .. Len(text) /\ d - c + 1 = ValueEnd - c
      BY <1>4, <1>5, <1>6
    <2>6. v \in Seq(TextChars) /\ Len(v) = d - c + 1
      <3> HIDE DEF v, c, d
      <3> QED  BY <1>0, <2>4, <2>5, PieceIs
    <2>7. /\ ValueEnd \in Nat /\ ValueEnd <= Len(text) + 1 /\ c \in Nat
          /\ ValueEnd - Len(v) = c
      <3> HIDE DEF v
      <3> QED  BY <1>4, <1>5, <1>6, <2>5, <2>6
    <2>8. Origin' = c  BY <1>2, <2>1, <2>7 DEF Origin
    <2>9. c - c + 1 = 1  BY <2>7
    <2>10. DecodedTo(v, 1) /\ Wrote(v, 1, <<>>)
      <3> HIDE DEF v
      <3> QED  BY <2>6, DecodedStart
    <2>11. DecodeInv'
      <3> SUFFICES /\ Readable' /\ Named' # {} /\ (call.out_len # 0)'
                   /\ (FirstValue \in Seq(TextChars))'
                   /\ (val_end \in Nat)' /\ (Origin \in 1 .. Len(text) + 1)'
                   /\ (val_end <= Len(text) + 1)'
                   /\ (FirstValue = SubSeq(text, Origin, val_end - 1))'
                   /\ (pos \in Nat)'
                   /\ (DecodedTo(FirstValue, pos - Origin + 1))'
                   /\ (Wrote(FirstValue, pos - Origin + 1, out))'
        BY DEF DecodeInv
      <3>1. (DecodedTo(FirstValue, pos - Origin + 1))' = DecodedTo(FirstValue', pos' - Origin' + 1)
        BY DEF DecodedTo
      <3>2. (Wrote(FirstValue, pos - Origin + 1, out))'
              = Wrote(FirstValue', pos' - Origin' + 1, out')
        BY DEF Wrote
      <3>3. DecodedTo(FirstValue', pos' - Origin' + 1) /\ Wrote(FirstValue', pos' - Origin' + 1, out')
        BY <1>1, <1>2, <2>1, <2>8, <2>9, <2>10
      <3> QED  BY <1>1, <1>2, <2>1, <2>2, <2>4, <2>5, <2>6, <2>7, <2>8, <3>1, <3>2, <3>3
    <2> QED  BY <1>8, <2>1, <2>11 DEF IInv, PairInv, FindsAndDecodes
  <1>10. CASE ~IsNamed
    <2>1. pos \notin Named  BY <1>7, <1>10 DEF Named, IsNamed
    <2>2. \A s \in Named : s - 1 >= ValueEnd /\ s - 1 \in 1 .. LineEnd - 1
      <3> SUFFICES ASSUME NEW s \in Named
                   PROVE  s - 1 >= ValueEnd /\ s - 1 \in 1 .. LineEnd - 1
        OBVIOUS
      <3>1. s \in 1 .. LineEnd /\ s >= pos /\ s # pos /\ s \in PairStarts
        BY <1>1, <1>3, <2>1
      <3>2. s # 1 /\ s - 1 >= pos  BY <1>4, <1>5, <3>1
      <3>3. s - 1 \in 1 .. LineEnd - 1 /\ text[s - 1] = "&"  BY <1>3, <3>1, <3>2
      <3>4. s - 1 \notin pos .. ValueEnd - 1  BY <1>6, <3>3
      <3> QED  BY <1>4, <1>5, <1>6, <3>2, <3>3, <3>4
    <2>3. CASE ValueEnd > Len(text) \/ text[ValueEnd] = "NUL"
      <3>1. pc' = "done" /\ result' = FALSE  BY <1>10, <2>3 DEF Pair, Return
      <3>2. ValueEnd = LineEnd  BY <1>4, <1>5, <1>6, <2>3
      <3>3. Named = {}
        <4> SUFFICES ASSUME NEW s \in Named
                     PROVE  FALSE
          OBVIOUS
        <4>1. s - 1 >= LineEnd /\ s - 1 \in 1 .. LineEnd - 1  BY <2>2, <3>2
        <4> QED  BY <1>4, <4>1
      <3>4. FindsAndDecodes'  BY <1>2, <3>1, <3>3 DEF FindsAndDecodes
      <3> QED  BY <1>8, <3>1, <3>4 DEF IInv, PairInv, DecodeInv
    <2>4. CASE ~(ValueEnd > Len(text) \/ text[ValueEnd] = "NUL")
      <3>1. pos' = ValueEnd + 1 /\ UNCHANGED <<pc, result>>
        BY <1>10, <2>4 DEF Pair, NextPair
      <3>2. ValueEnd < LineEnd /\ text[ValueEnd] = "&"  BY <1>4, <1>5, <1>6, <2>4
      <3>3. ValueEnd \in 1 .. LineEnd - 1  BY <1>4, <1>5, <1>6, <3>2
      <3>4. ValueEnd + 1 \in PairStarts  BY <1>3, <3>2, <3>3
      <3>5. \A s \in Named : s >= ValueEnd + 1
        <4> TAKE s \in Named
        <4>1. s \in 1 .. LineEnd /\ s - 1 >= ValueEnd  BY <1>3, <2>2
        <4> QED  BY <1>4, <3>3, <4>1
      <3>6. PairInv'  BY <1>1, <1>2, <3>1, <3>4, <3>5 DEF PairInv
      <3> QED  BY <1>1, <1>8, <3>1, <3>6 DEF IInv, DecodeInv, FindsAndDecodes
    <2> QED  BY <2>3, <2>4
  <1> QED  BY <1>9, <1>10

(* What the loop sees of the text is the value.                            *)
LEMMA SeesValue ==
  ASSUME IInv, pc = "decode"
  PROVE  LET v == FirstValue
             a == pos - Origin + 1
         IN  /\ v \in Seq(TextChars)
             /\ a \in 1 .. Len(v) + 1 /\ pos \in Nat /\ Origin \in Nat /\ val_end \in Nat
             /\ val_end = Origin + Len(v)
             /\ DecodedTo(v, a) /\ Wrote(v, a, out)
             /\ \A k \in 0 .. Len(v) - a : text[pos + k] = v[a + k]
  <1> DEFINE v == FirstValue
             o == Origin
             a == pos - o + 1
  <1>0. text \in Seq(TextChars) /\ Len(text) \in Nat
    BY CallTypes DEF IInv, CallInv
  <1>1. /\ v \in Seq(TextChars)
        /\ val_end \in Nat /\ o \in 1 .. Len(text) + 1 /\ val_end <= Len(text) + 1
        /\ v = SubSeq(text, o, val_end - 1) /\ pos \in Nat
        /\ DecodedTo(v, a) /\ Wrote(v, a, out)
    BY DEF IInv, DecodeInv
  <1>2. o = val_end - Len(v)  BY DEF Origin
  <1>3. a \in 1 .. Len(v) + 1  BY <1>1 DEF DecodedTo
  <1> HIDE DEF v, o
  <1>4. Len(v) \in Nat /\ o \in Nat  BY <1>0, <1>1
  <1>5. val_end = o + Len(v)  BY <1>1, <1>2, <1>4
  <1>6. val_end - 1 \in o - 1 .. Len(text) /\ val_end - 1 - o + 1 = Len(v)
    BY <1>0, <1>1, <1>4, <1>5
  <1>7. \A j \in 1 .. val_end - 1 - o + 1 : v[j] = text[o + j - 1]
    <2> DEFINE d == val_end - 1
    <2>1. d \in o - 1 .. Len(text) /\ v = SubSeq(text, o, d)  BY <1>1, <1>6
    <2> HIDE DEF d
    <2>2. \A j \in 1 .. d - o + 1 : SubSeq(text, o, d)[j] = text[o + j - 1]
      BY <1>0, <1>1, <2>1, PieceIs
    <2> QED  BY <2>1, <2>2 DEF d
  <1>8. ASSUME NEW k \in 0 .. Len(v) - a
        PROVE  text[pos + k] = v[a + k]
    <2>1. a + k \in 1 .. val_end - 1 - o + 1  BY <1>3, <1>4, <1>6
    <2>2. o + (a + k) - 1 = pos + k  BY <1>1, <1>4
    <2> QED  BY <1>7, <2>1, <2>2
  <1> QED  BY <1>1, <1>3, <1>4, <1>5, <1>8 DEF v, o

LEMMA DecodeStepInv ==
  ASSUME IInv, Decode
  PROVE  IInv'
  <1> DEFINE v == FirstValue
             o == Origin
             a == pos - o + 1
  <1>0. text \in Seq(TextChars) /\ call.out_len \in Nat
    BY CallTypes DEF IInv, CallInv
  <1>1. /\ UNCHANGED <<call, val_end>> /\ pc = "decode"
        /\ Readable /\ Named # {} /\ call.out_len # 0
    BY DEF Decode, IInv, DecodeInv
  <1>2. /\ text' = text /\ Readable' = Readable /\ Named' = Named /\ v' = v /\ o' = o
    BY <1>1, SameCall DEF Origin
  <1>3. /\ v \in Seq(TextChars)
        /\ a \in 1 .. Len(v) + 1 /\ pos \in Nat /\ o \in Nat /\ val_end \in Nat
        /\ val_end = o + Len(v)
        /\ DecodedTo(v, a) /\ Wrote(v, a, out)
        /\ \A k \in 0 .. Len(v) - a : text[pos + k] = v[a + k]
    BY <1>1, SeesValue
  <1>4. Len(v) \in Nat /\ v = Value(PairAt(Min(Named)))  BY <1>3 DEF FirstValue
  <1>5. /\ call \in Calls /\ result \in BOOLEAN /\ out \in Seq(Bytes1)
        /\ (out # <<>> => Len(out) < call.out_len)
        /\ Len(out) \in Nat
    BY DEF IInv, CallInv, RoomForZero
  <1>6. FindsAndDecodes' <=>
          (pc' = "done" =>
             /\ result' = (/\ WellFormed(v) /\ Len(Bytes(v)) < call.out_len)
             /\ result' => out' = Bytes(v))
    <2>1. (pc = "done" =>
              LET value == Value(PairAt(Min(Named)))
                  found == Readable /\ Named # {} /\ WellFormed(value)
                             /\ Len(Bytes(value)) < call.out_len
              IN result = found /\ (result => out = Bytes(value)))'
           <=> (pc' = "done" =>
             /\ result' = (/\ WellFormed(v) /\ Len(Bytes(v)) < call.out_len)
             /\ result' => out' = Bytes(v))
      <3>1. (Value(PairAt(Min(Named))))' = v  BY <1>2 DEF FirstValue
      <3> HIDE DEF v
      <3> QED  BY <1>1, <1>2, <3>1
    <2> QED  BY <2>1 DEF FindsAndDecodes
  <1> HIDE DEF v, o
  <1>7. CASE pos >= val_end
    <2>1. pc' = "done" /\ result' = TRUE /\ UNCHANGED <<out, pos>>
      BY <1>7 DEF Decode, Return
    <2>2. a = Len(v) + 1  BY <1>3, <1>4, <1>7
    <2>3. WellFormed(v) /\ out = Bytes(v) /\ Len(Bytes(v)) = Len(out)
      BY <1>3, <2>2, DecodedEnd
    <2>4. Len(out) < call.out_len
      <3>1. out = <<>> => Len(out) = 0  OBVIOUS
      <3> QED  BY <1>0, <1>1, <1>5, <3>1
    <2>5. FindsAndDecodes'  BY <1>6, <2>1, <2>3, <2>4
    <2>6. CallInv'  BY <1>1, <1>5, <2>1 DEF CallInv, RoomForZero
    <2> QED  BY <2>1, <2>5, <2>6 DEF IInv, PairInv, DecodeInv
  <1>8. CASE pos < val_end
    <2>1. a \in 1 .. Len(v) /\ ~(pos >= val_end)  BY <1>3, <1>4, <1>8
    <2>2. text[pos] = v[a]
      <3>1. 0 \in 0 .. Len(v) - a /\ pos + 0 = pos /\ a + 0 = a  BY <1>3, <1>4, <2>1
      <3>2. text[pos + 0] = v[a + 0]  BY <1>3, <3>1
      <3> QED  BY <3>1, <3>2
    <2>3. ASSUME pc' = "done", result' = FALSE, UNCHANGED <<out, pos>>,
                 ~(WellFormed(v) /\ Len(Bytes(v)) < call.out_len)
          PROVE  IInv'
      <3>1. FindsAndDecodes'  BY <1>6, <2>3
      <3>2. CallInv'  BY <1>1, <1>5, <2>3 DEF CallInv, RoomForZero
      <3> QED  BY <2>3, <3>1, <3>2 DEF IInv, PairInv, DecodeInv
    <2>4. ASSUME NEW w \in {1, 3}, ~BufferFull, Write(ByteAt(v, a), w),
                 w = 1 => v[a] # "%",
                 w = 3 => v[a] = "%" /\ a + 2 <= Len(v) /\ v[a + 1] \in Digits
                            /\ v[a + 2] \in Digits
          PROVE  IInv'
      <3>1. DecodedTo(v, a + w) /\ Wrote(v, a + w, Append(out, ByteAt(v, a)))
        BY <1>3, <2>1, <2>4, DecodedStep
      <3>2. /\ out' = Append(out, ByteAt(v, a)) /\ pos' = pos + w /\ UNCHANGED <<pc, result>>
        BY <2>4 DEF Write
      <3>3. pos' - o + 1 = a + w /\ pos' \in Nat  BY <1>3, <3>2
      <3>4. DecodedTo(v, pos' - o + 1) /\ Wrote(v, pos' - o + 1, out')
        BY <3>1, <3>2, <3>3
      <3>5. out' \in Seq(Bytes1)  BY <3>4 DEF Wrote
      <3>6. Len(out') < call.out_len
        <4>1. Len(out') = Cardinality(Below(Begins(v), pos' - o + 1)) /\ Len(out) + 1 < call.out_len
          BY <1>0, <1>5, <2>4, <3>4 DEF Wrote, BufferFull
        <4>2. Len(out') = Len(out) + 1
          <5> DEFINE byte == ByteAt(v, a)
          <5>1. byte \in Bytes1  BY <1>3, <2>1, <2>4, ByteType
          <5> HIDE DEF byte
          <5>2. Len(Append(out, byte)) = Len(out) + 1  BY <1>5, <5>1, AppendProperties
          <5> QED  BY <3>2, <5>2 DEF byte
        <4> QED  BY <4>1, <4>2
      <3>7. CallInv'  BY <1>1, <1>5, <3>2, <3>5, <3>6 DEF CallInv, RoomForZero
      <3>8. DecodeInv'
        <4>1. (DecodedTo(FirstValue, pos - Origin + 1))' = DecodedTo(FirstValue', pos' - Origin' + 1)
          BY DEF DecodedTo
        <4>2. (Wrote(FirstValue, pos - Origin + 1, out))'
                = Wrote(FirstValue', pos' - Origin' + 1, out')
          BY DEF Wrote
        <4>3. FirstValue' = FirstValue /\ Origin' = Origin  BY <1>2 DEF v, o
        <4>4. DecodedTo(FirstValue', pos' - Origin' + 1) /\ Wrote(FirstValue', pos' - Origin' + 1, out')
          BY <3>4, <4>3 DEF v, o
        <4>5. /\ FirstValue \in Seq(TextChars) /\ val_end \in Nat /\ Origin \in 1 .. Len(text) + 1
              /\ val_end <= Len(text) + 1 /\ FirstValue = SubSeq(text, Origin, val_end - 1)
          BY <1>1 DEF IInv, DecodeInv
        <4> QED  BY <1>1, <1>2, <3>3, <4>1, <4>2, <4>3, <4>4, <4>5 DEF DecodeInv
      <3> QED  BY <1>1, <3>2, <3>7, <3>8 DEF IInv, PairInv, FindsAndDecodes
    <2>5. CASE BufferFull
      <3>1. pc' = "done" /\ result' = FALSE /\ UNCHANGED <<out, pos>>
        BY <2>1, <2>5 DEF Decode, Fail, Return
      <3>2. Len(out) + 1 <= Len(Bytes(v)) /\ Len(Bytes(v)) \in Nat
        BY <1>3, <2>1, MoreBytes
      <3>3. Len(out) + 1 >= call.out_len  BY <2>5 DEF BufferFull
      <3>4. ~(Len(Bytes(v)) < call.out_len)  BY <1>0, <1>5, <3>2, <3>3
      <3> QED  BY <2>3, <3>1, <3>4
    <2>6. CASE ~BufferFull /\ v[a] # "%"
      <3>1. CASE v[a] = "+"
        <4>1. ByteAt(v, a) = <<" ">>  BY <1>3, <2>1, <3>1, ByteIs
        <4>2. Write(<<" ">>, 1)  BY <2>1, <2>2, <2>6, <3>1 DEF Decode
        <4>3. Write(ByteAt(v, a), 1)  BY <4>1, <4>2
        <4> QED  BY <2>4, <2>6, <4>3
      <3>2. CASE v[a] # "+"
        <4>1. ByteAt(v, a) = <<v[a]>>  BY <1>3, <2>1, <2>6, <3>2, ByteIs
        <4>2. Write(<<v[a]>>, 1)  BY <2>1, <2>2, <2>6, <3>2 DEF Decode
        <4>3. Write(ByteAt(v, a), 1)  BY <4>1, <4>2
        <4> QED  BY <2>4, <2>6, <4>3
      <3> QED  BY <3>1, <3>2
    <2>7. CASE ~BufferFull /\ v[a] = "%"
      <3>1. IsEscape <=> (a + 2 <= Len(v) /\ v[a + 1] \in Digits /\ v[a + 2] \in Digits)
        <4>1. pos + 2 < val_end <=> a + 2 <= Len(v)  BY <1>3, <1>4
        <4>2. ASSUME a + 2 <= Len(v)
              PROVE  text[pos + 1] = v[a + 1] /\ text[pos + 2] = v[a + 2]
          <5>1. 1 \in 0 .. Len(v) - a /\ 2 \in 0 .. Len(v) - a  BY <1>3, <1>4, <4>2
          <5> QED  BY <1>3, <5>1
        <4>3. IsEscape <=> pos + 2 < val_end /\ text[pos + 1] \in Digits /\ text[pos + 2] \in Digits
          BY DEF IsEscape, HasHexValue
        <4> QED  BY <4>1, <4>2, <4>3
      <3>2. CASE IsEscape
        <4>1. a + 2 <= Len(v) /\ v[a + 1] \in Digits /\ v[a + 2] \in Digits  BY <3>1, <3>2
        <4>2. Write(<<text[pos + 1], text[pos + 2]>>, 3)
          BY <2>1, <2>2, <2>7, <3>2 DEF Decode
        <4>3. text[pos + 1] = v[a + 1] /\ text[pos + 2] = v[a + 2]
          <5>1. 1 \in 0 .. Len(v) - a /\ 2 \in 0 .. Len(v) - a  BY <1>3, <1>4, <4>1
          <5> QED  BY <1>3, <5>1
        <4>4. ByteAt(v, a) = <<v[a + 1], v[a + 2]>>  BY <1>3, <2>1, <2>7, <4>1, ByteIs
        <4>5. Write(ByteAt(v, a), 3)  BY <4>2, <4>3, <4>4
        <4> QED  BY <2>4, <2>7, <4>1, <4>5
      <3>3. CASE ~IsEscape
        <4>1. pc' = "done" /\ result' = FALSE /\ UNCHANGED <<out, pos>>
          BY <2>1, <2>2, <2>7, <3>3 DEF Decode, Fail, Return
        <4>2. ~WellFormed(v)  BY <1>3, <2>1, <2>7, <3>1, <3>3, BadEscape
        <4> QED  BY <2>3, <4>1, <4>2
      <3> QED  BY <3>2, <3>3
    <2> QED  BY <2>5, <2>6, <2>7
  <1> QED  BY <1>3, <1>7, <1>8

LEMMA NextInv ==
  IInv /\ [RequestNext]_request_vars => IInv'
  <1> SUFFICES ASSUME IInv, [RequestNext]_request_vars
               PROVE  IInv'
    OBVIOUS
  <1>1. CASE Start  BY <1>1, StartInv
  <1>2. CASE Pair  BY <1>2, PairStepInv
  <1>3. CASE Decode  BY <1>3, DecodeStepInv
  <1>4. CASE UNCHANGED request_vars
    <2>1. UNCHANGED <<call, pc, pos, val_end, out, result>>  BY <1>4 DEF request_vars
    <2>2. /\ text' = text /\ Readable' = Readable /\ Named' = Named
          /\ PairStarts' = PairStarts /\ FirstValue' = FirstValue
      BY <2>1, SameCall
    <2>3. CallInv' /\ PairInv'  BY <2>1, <2>2 DEF IInv, CallInv, PairInv, RoomForZero
    <2>4. DecodeInv'
      <3>1. Origin' = Origin  BY <2>1, <2>2 DEF Origin
      <3>2. (DecodedTo(FirstValue, pos - Origin + 1))' = DecodedTo(FirstValue', pos' - Origin' + 1)
        BY DEF DecodedTo
      <3>3. (Wrote(FirstValue, pos - Origin + 1, out))'
              = Wrote(FirstValue', pos' - Origin' + 1, out')
        BY DEF Wrote
      <3> QED  BY <2>1, <2>2, <3>1, <3>2, <3>3 DEF IInv, DecodeInv
    <2>5. FindsAndDecodes'
      <3>1. (Value(PairAt(Min(Named))))' = Value(PairAt(Min(Named)))  BY <2>2 DEF FirstValue
      <3> QED  BY <2>1, <2>2, <3>1 DEF IInv, FindsAndDecodes
    <2> QED  BY <2>3, <2>4, <2>5 DEF IInv
  <1> QED  BY <1>1, <1>2, <1>3, <1>4 DEF RequestNext

LEMMA RequestInv ==
  RequestSpec => []IInv
  <1>1. RequestInit => IInv  BY InitInv
  <1>2. IInv /\ [RequestNext]_request_vars => IInv'  BY NextInv
  <1> QED  BY <1>1, <1>2, PTL DEF RequestSpec

-----------------------------------------------------------------------------
(* Theorems.                                                               *)

(* docs/functions.md:66,69, of any text and any buffer: the call finds the *)
(* first pair of the name and decodes it, or it fails; and it fails only   *)
(* if there is no such pair, its value is not well formed or does not fit. *)
THEOREM FindsAndDecodesCorrect ==
  RequestSpec => []FindsAndDecodes
  <1>1. IInv => FindsAndDecodes  BY DEF IInv
  <1> QED  BY <1>1, RequestInv, PTL

(* At no moment is the last byte of the caller's buffer written.           *)
THEOREM RoomForZeroCorrect ==
  RequestSpec => []RoomForZero
  <1>1. IInv => RoomForZero  BY DEF IInv, CallInv
  <1> QED  BY <1>1, RequestInv, PTL
=============================================================================
