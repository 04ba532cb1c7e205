----------------------- MODULE HttpStaticFiles_proofs -----------------------
(***************************************************************************)
(* What is proved of HttpStaticFiles: whatever is mounted and requested,   *)
(* however long, the file opened lies below the directory of its mount.    *)
(***************************************************************************)
EXTENDS HttpStaticFiles, SequenceTheorems, FiniteSetTheorems, TLAPS

-----------------------------------------------------------------------------
(* Lemmas about minima, maxima and parts of sequences.                     *)

LEMMA MinOfNat ==
  ASSUME NEW S, S \subseteq Nat, S # {}
  PROVE  Min(S) \in S /\ \A k \in S : Min(S) <= k
  <1>1. PICK x \in S : \A y \in S : ~ (<<y, x>> \in OpToRel(<, Nat))
    BY WFMin, NatLessThanWellFounded
  <1>2. \A y \in S : ~ (y < x)  BY <1>1 DEF OpToRel
  <1>3. \A y \in S : x <= y  BY <1>2
  <1> QED  BY <1>3 DEF Min

LEMMA MaxIs ==
  ASSUME NEW S, S \subseteq Nat, NEW m \in S, \A k \in S : k <= m
  PROVE  Max(S) = m
  <1> DEFINE x == Max(S)
  <1>1. x \in S /\ \A k \in S : x >= k  BY DEF Max
  <1> HIDE DEF x
  <1>2. x <= m /\ m <= x  BY <1>1
  <1>3. \A k \in S : k \in Int  OBVIOUS
  <1>4. x = m  BY <1>1, <1>2, <1>3
  <1> QED  BY <1>4 DEF x

LEMMA MaxOfNat ==
  ASSUME NEW n \in Nat, NEW S \in SUBSET (0 .. n), S # {}
  PROVE  Max(S) \in S /\ \A k \in S : k <= Max(S)
  <1> DEFINE T == {n - j : j \in S}
             t == Min(T)
  <1>1. \A j \in S : j \in Int /\ j <= n  OBVIOUS
  <1>2. T \subseteq Nat  BY <1>1
  <1>3. T # {}  OBVIOUS
  <1>4. t \in T /\ \A k \in T : t <= k  BY <1>2, <1>3, MinOfNat
  <1>5. PICK j \in S : t = n - j  BY <1>4
  <1>6. \A k \in S : t <= n - k  BY <1>4
  <1> HIDE DEF T, t
  <1>7. \A k \in S : k <= j
    <2> TAKE k \in S
    <2>1. k \in Int /\ j \in Int /\ t = n - j /\ t <= n - k  BY <1>1, <1>5, <1>6
    <2> QED  BY ONLY <2>1, n \in Nat
  <1>8. Max(S) = j  BY <1>7, MaxIs, S \subseteq Nat
  <1> QED  BY <1>7, <1>8

(* A part of a sequence, character by character.                           *)
LEMMA PartIs ==
  ASSUME NEW S, NEW s \in Seq(S), NEW a \in Nat \ {0}, NEW b \in Nat, b <= Len(s)
  PROVE  LET p == SubSeq(s, a, b)
             n == IF a <= b THEN b - a + 1 ELSE 0
         IN  p \in Seq(S) /\ Len(p) = n /\ \A i \in 1 .. n : p[i] = s[a + i - 1]
  <1>1. \A i \in a .. b : s[i] \in S
    <2> TAKE i \in a .. b
    <2>1. i \in 1 .. Len(s)  OBVIOUS
    <2> QED  BY <2>1
  <1> QED  BY <1>1, SubSeqProperties

(* The rest of a sequence from its k-th character.                         *)
LEMMA FromIs ==
  ASSUME NEW S, NEW s \in Seq(S), NEW k \in 1 .. Len(s) + 1
  PROVE  LET p == From(s, k)
         IN  /\ p \in Seq(S) /\ Len(p) = Len(s) + 1 - k
             /\ \A i \in 1 .. Len(p) : p[i] = s[k + i - 1]
  <1>1. Len(s) \in Nat /\ k \in Nat \ {0}  OBVIOUS
  <1>2. Len(s) + 1 - k = IF k <= Len(s) THEN Len(s) - k + 1 ELSE 0  BY <1>1
  <1> QED  BY <1>1, <1>2, PartIs DEF From

LEMMA PrefixIs ==
  ASSUME NEW S, NEW s \in Seq(S), NEW t \in Seq(S)
  PROVE  IsPrefix(s, t) <=> Len(s) <= Len(t) /\ \A i \in 1 .. Len(s) : t[i] = s[i]
  <1>1. Len(s) \in Nat /\ Len(t) \in Nat  OBVIOUS
  <1>2. SubSeq(s, 1, Len(s)) = s  BY SubSeqFull
  <1>3. CASE Len(s) <= Len(t)
    <2> DEFINE p == SubSeq(t, 1, Len(s))
    <2>1. /\ p \in Seq(S) /\ Len(p) = Len(s)
          /\ \A i \in 1 .. Len(s) : p[i] = t[i]
      <3>1. (IF 1 <= Len(s) THEN Len(s) - 1 + 1 ELSE 0) = Len(s)  BY <1>1
      <3>2. \A i \in 1 .. Len(s) : 1 + i - 1 = i  BY <1>1
      <3> QED  BY <1>1, <1>3, <3>1, <3>2, PartIs
    <2> HIDE DEF p
    <2>2. s = p <=> \A i \in 1 .. Len(s) : t[i] = s[i]
      BY <2>1, SeqEqual
    <2> QED  BY <1>2, <1>3, <2>2 DEF IsPrefix, p
  <1>4. CASE ~(Len(s) <= Len(t))  BY <1>4 DEF IsPrefix
  <1> QED  BY <1>3, <1>4

-----------------------------------------------------------------------------
(* NamesIn: what lies between two slashes, or the ends, with no slash within.*)

Gap(s, j, k) ==
  /\ j \in 0 .. Len(s) /\ k \in 1 .. Len(s) + 1 /\ j < k
  /\ j = 0 \/ s[j] = "/"
  /\ k = Len(s) + 1 \/ s[k] = "/"
  /\ \A i \in j + 1 .. k - 1 : s[i] # "/"

LEMMA NamesAre ==
  ASSUME NEW s \in Seq(PathChars), NEW name
  PROVE  name \in NamesIn(s) <=>
           \E j, k \in 0 .. Len(s) + 1 : Gap(s, j, k) /\ name = SubSeq(s, j + 1, k - 1)
  <1>1. Len(s) \in Nat /\ DOMAIN s = 1 .. Len(s)  OBVIOUS
  <1>2. /\ Cuts(s) \subseteq 0 .. Len(s) + 1
        /\ \A k \in 0 .. Len(s) + 1 :
             k \in Cuts(s) <=> k = 0 \/ k = Len(s) + 1 \/ (s[k] = "/" /\ k \in 1 .. Len(s))
    BY <1>1 DEF Cuts
  <1>3. ASSUME NEW j \in 0 .. Len(s) + 1, NEW k \in 0 .. Len(s) + 1
        PROVE  Gap(s, j, k) <=> /\ j \in Cuts(s) /\ k \in Cuts(s) /\ j < k
                                /\ \A i \in j + 1 .. k - 1 : i \notin Cuts(s)
    <2>1. j < k => \A i \in j + 1 .. k - 1 :
            i \in 1 .. Len(s) /\ i # 0 /\ i # Len(s) + 1 /\ i \in 0 .. Len(s) + 1
      BY <1>1
    <2> QED  BY <1>1, <1>2, <2>1 DEF Gap
  <1>4. name \in NamesIn(s) <=>
          \E j, k \in Cuts(s) : /\ j < k /\ \A i \in j + 1 .. k - 1 : i \notin Cuts(s)
                                /\ name = SubSeq(s, j + 1, k - 1)
    <2>1. \A c \in Cuts(s) \X Cuts(s) :
            c[1] \in Cuts(s) /\ c[2] \in Cuts(s)
      OBVIOUS
    <2>2. ASSUME name \in NamesIn(s)
          PROVE  \E j, k \in Cuts(s) : /\ j < k /\ \A i \in j + 1 .. k - 1 : i \notin Cuts(s)
                                       /\ name = SubSeq(s, j + 1, k - 1)
      <3>1. PICK c \in Gaps(s) : name = SubSeq(s, c[1] + 1, c[2] - 1)  BY <2>2 DEF NamesIn
      <3> QED  BY <2>1, <3>1 DEF Gaps
    <2>3. ASSUME NEW j \in Cuts(s), NEW k \in Cuts(s), j < k,
                 \A i \in j + 1 .. k - 1 : i \notin Cuts(s),
                 name = SubSeq(s, j + 1, k - 1)
          PROVE  name \in NamesIn(s)
      <3> DEFINE c == <<j, k>>
      <3>1. c \in Cuts(s) \X Cuts(s) /\ c[1] = j /\ c[2] = k  OBVIOUS
      <3> HIDE DEF c
      <3>2. c \in Gaps(s)  BY <2>3, <3>1 DEF Gaps
      <3> QED  BY <2>3, <3>1, <3>2 DEF NamesIn
    <2> QED  BY <2>2, <2>3
  <1> QED  BY <1>2, <1>3, <1>4

(* A sequence has the name ".." where two dots stand between slashes or    *)
(* ends.                                                                   *)
UpAt(s, j) ==
  /\ j \in 0 .. Len(s) - 2 /\ s[j + 1] = "." /\ s[j + 2] = "."
  /\ j = 0 \/ s[j] = "/"
  /\ j + 3 = Len(s) + 1 \/ s[j + 3] = "/"

LEMMA UpIs ==
  ASSUME NEW s \in Seq(PathChars)
  PROVE  DotDot \in NamesIn(s) <=> \E j \in 0 .. Len(s) : UpAt(s, j)
  <1>1. Len(s) \in Nat  OBVIOUS
  <1>2. Len(DotDot) = 2 /\ DotDot[1] = "." /\ DotDot[2] = "." /\ DotDot \in Seq(PathChars)
    BY DEF DotDot, PathChars
  <1>3. ASSUME DotDot \in NamesIn(s) PROVE \E j \in 0 .. Len(s) : UpAt(s, j)
    <2>1. PICK j, k \in 0 .. Len(s) + 1 : Gap(s, j, k) /\ DotDot = SubSeq(s, j + 1, k - 1)
      BY <1>3, NamesAre
    <2>2. /\ j \in 0 .. Len(s) /\ k \in 1 .. Len(s) + 1 /\ j < k
          /\ j = 0 \/ s[j] = "/"
          /\ k = Len(s) + 1 \/ s[k] = "/"
      BY <2>1 DEF Gap
    <2> DEFINE p == SubSeq(s, j + 1, k - 1)
               n == IF j + 1 <= k - 1 THEN k - 1 - (j + 1) + 1 ELSE 0
    <2>3. Len(p) = n /\ \A i \in 1 .. n : p[i] = s[j + 1 + i - 1]
      BY <1>1, <2>2, PartIs
    <2>4. p = DotDot  BY <2>1
    <2> HIDE DEF p
    <2>5. n = 2 /\ k = j + 3
      <3>1. j \in Int /\ k \in Int  BY <1>1, <2>2
      <3>2. n = 2
        <4> HIDE DEF n
        <4> QED  BY <1>2, <2>3, <2>4
      <3> QED  BY ONLY <3>1, <3>2
    <2>6. s[j + 1] = "." /\ s[j + 2] = "."
      <3>1. 1 \in 1 .. n /\ 2 \in 1 .. n /\ j + 1 + 1 - 1 = j + 1 /\ j + 1 + 2 - 1 = j + 2
        BY <2>2, <2>5
      <3> HIDE DEF n
      <3> QED  BY <1>2, <2>3, <2>4, <3>1
    <2>7. j \in 0 .. Len(s) - 2  BY <1>1, <2>2, <2>5
    <2> QED  BY <2>2, <2>5, <2>6, <2>7 DEF UpAt
  <1>4. ASSUME NEW j \in 0 .. Len(s), UpAt(s, j) PROVE DotDot \in NamesIn(s)
    <2> DEFINE k == j + 3
               p == SubSeq(s, j + 1, k - 1)
    <2>1. /\ j \in 0 .. Len(s) - 2 /\ s[j + 1] = "." /\ s[j + 2] = "."
          /\ j = 0 \/ s[j] = "/"
          /\ k = Len(s) + 1 \/ s[k] = "/"
      BY <1>4 DEF UpAt
    <2>2. \A i \in j + 1 .. k - 1 : i = j + 1 \/ i = j + 2  BY <1>1, <2>1
    <2>3. Gap(s, j, k)
      <3>1. k \in 1 .. Len(s) + 1 /\ j < k  BY <1>1, <2>1
      <3> QED  BY <2>1, <2>2, <3>1 DEF Gap
    <2>4. p = DotDot
      <3>1. j + 1 \in Nat \ {0} /\ k - 1 \in Nat /\ k - 1 <= Len(s)  BY <1>1, <2>1
      <3>2. (IF j + 1 <= k - 1 THEN k - 1 - (j + 1) + 1 ELSE 0) = 2  BY <1>1, <2>1
      <3> DEFINE a == j + 1
                 b == k - 1
                 n == IF a <= b THEN b - a + 1 ELSE 0
      <3>0. a \in Nat \ {0} /\ b \in Nat /\ b <= Len(s) /\ n = 2  BY <3>1, <3>2
      <3> HIDE DEF a, b, n
      <3>3. LET q == SubSeq(s, a, b)
            IN  q \in Seq(PathChars) /\ Len(q) = n /\ \A i \in 1 .. n : q[i] = s[a + i - 1]
        BY <3>0, PartIs DEF n
      <3>7. p \in Seq(PathChars) /\ Len(p) = 2 /\ \A i \in 1 .. 2 : p[i] = s[j + 1 + i - 1]
        BY <3>0, <3>3 DEF a, b
      <3> HIDE DEF p
      <3>4. p[1] = s[j + 1] /\ p[2] = s[j + 2]
        <4>1. 1 \in 1 .. 2 /\ 2 \in 1 .. 2 /\ j + 1 + 1 - 1 = j + 1 /\ j + 1 + 2 - 1 = j + 2
          BY <2>1
        <4> QED  BY <3>7, <4>1
      <3>5. \A i \in 1 .. 2 : i = 1 \/ i = 2  OBVIOUS
      <3>6. \A i \in 1 .. Len(p) : p[i] = DotDot[i]  BY <1>2, <2>1, <3>7, <3>4, <3>5
      <3> QED  BY <1>2, <3>7, <3>6, SeqEqual
    <2>5. k \in 0 .. Len(s) + 1  BY <1>1, <2>1
    <2> HIDE DEF k
    <2> QED  BY <2>3, <2>4, <2>5, NamesAre
  <1> QED  BY <1>3, <1>4

(* Where strstr finds a text t.                                            *)
LEMMA FoundIs ==
  ASSUME NEW s \in Seq(PathChars), NEW t \in Seq(PathChars)
  PROVE  strstr(s, t) <=>
           \E k \in 1 .. Len(s) : /\ k + Len(t) <= Len(s) + 1
                                  /\ \A i \in 1 .. Len(t) : s[k + i - 1] = t[i]
  <1>1. DOMAIN s = 1 .. Len(s) /\ Len(s) \in Nat /\ Len(t) \in Nat  OBVIOUS
  <1>2. ASSUME NEW k \in 1 .. Len(s)
        PROVE  IsPrefix(t, From(s, k)) <=> /\ k + Len(t) <= Len(s) + 1
                                           /\ \A i \in 1 .. Len(t) : s[k + i - 1] = t[i]
    <2> DEFINE p == From(s, k)
    <2>1. /\ p \in Seq(PathChars) /\ Len(p) = Len(s) + 1 - k
          /\ \A i \in 1 .. Len(p) : p[i] = s[k + i - 1]
      BY <1>1, FromIs
    <2> HIDE DEF p
    <2>2. IsPrefix(t, p) <=> Len(t) <= Len(p) /\ \A i \in 1 .. Len(t) : p[i] = t[i]
      BY <2>1, PrefixIs
    <2>3. Len(t) <= Len(p) <=> k + Len(t) <= Len(s) + 1  BY <1>1, <2>1
    <2>4. Len(t) <= Len(p) => \A i \in 1 .. Len(t) : i \in 1 .. Len(p)
      BY <1>1, <2>1
    <2>5. IsPrefix(t, p) <=> /\ k + Len(t) <= Len(s) + 1
                             /\ \A i \in 1 .. Len(t) : s[k + i - 1] = t[i]
      BY <2>1, <2>2, <2>3, <2>4
    <2> QED  BY <2>5 DEF p
  <1> QED  BY <1>1, <1>2 DEF strstr

(* A safe path has no name "..".                                           *)
LEMMA SafeIs ==
  ASSUME NEW r \in Seq(PathChars), http_static_path_is_safe(r)
  PROVE  \A j \in 0 .. Len(r) : ~UpAt(r, j)
  <1> SUFFICES ASSUME NEW j \in 0 .. Len(r), UpAt(r, j) PROVE FALSE
    OBVIOUS
  <1> DEFINE up == DotDot \o Slash
             down == Slash \o DotDot
  <1>1. Len(r) \in Nat  OBVIOUS
  <1>2. /\ up \in Seq(PathChars) /\ Len(up) = 3
        /\ up[1] = "." /\ up[2] = "." /\ up[3] = "/"
    BY DEF DotDot, Slash, PathChars
  <1>3. /\ down \in Seq(PathChars) /\ Len(down) = 3
        /\ down[1] = "/" /\ down[2] = "." /\ down[3] = "."
    BY DEF DotDot, Slash, PathChars
  <1>4. ~strstr(r, up) /\ ~strstr(r, down) /\ r # DotDot
    BY DEF http_static_path_is_safe
  <1>5. Len(DotDot) = 2 /\ DotDot[1] = "." /\ DotDot[2] = "." /\ DotDot \in Seq(PathChars)
    BY DEF DotDot, PathChars
  <1> HIDE DEF up, down
  <1>6. /\ j \in 0 .. Len(r) - 2 /\ r[j + 1] = "." /\ r[j + 2] = "."
        /\ j = 0 \/ r[j] = "/"
        /\ j + 3 = Len(r) + 1 \/ r[j + 3] = "/"
    BY DEF UpAt
  <1>7. \A i \in 1 .. 3 : i = 1 \/ i = 2 \/ i = 3  OBVIOUS
  <1>8. CASE j = 0 /\ Len(r) = 2
    <2>1. r[1] = "." /\ r[2] = "."  BY <1>6, <1>8
    <2>2. \A i \in 1 .. Len(r) : i = 1 \/ i = 2  BY <1>8
    <2>3. \A i \in 1 .. Len(r) : r[i] = DotDot[i]  BY <1>5, <2>1, <2>2
    <2>4. r = DotDot  BY <1>5, <1>8, <2>3, SeqEqual
    <2> QED  BY <1>4, <2>4
  <1>9. CASE j = 0 /\ Len(r) # 2
    <2> DEFINE n == Len(r)
    <2>6. n \in Nat /\ 0 \in 0 .. n - 2 /\ n # 2  BY <1>1, <1>6, <1>9
    <2> HIDE DEF n
    <2>7. n >= 3 /\ j + 1 = 1 /\ j + 2 = 2 /\ j + 3 = 3  BY <1>9, <2>6
    <2>1. r[1] = "." /\ r[2] = "." /\ r[3] = "/"  BY <1>6, <2>6, <2>7 DEF n
    <2>2. 1 \in 1 .. Len(r) /\ 1 + Len(up) <= Len(r) + 1  BY <1>2, <2>6, <2>7 DEF n
    <2>3. 1 + 1 - 1 = 1 /\ 1 + 2 - 1 = 2 /\ 1 + 3 - 1 = 3  OBVIOUS
    <2>4. \A i \in 1 .. Len(up) : r[1 + i - 1] = up[i]  BY <1>2, <1>7, <2>1, <2>3
    <2>5. strstr(r, up)  BY <1>2, <2>2, <2>4, FoundIs
    <2> QED  BY <1>4, <2>5
  <1>10. CASE j # 0
    <2>1. r[j] = "/" /\ r[j + 1] = "." /\ r[j + 2] = "."  BY <1>6, <1>10
    <2>2. j \in 1 .. Len(r) /\ j + Len(down) <= Len(r) + 1  BY <1>1, <1>3, <1>6, <1>10
    <2>3. j + 1 - 1 = j /\ j + 2 - 1 = j + 1 /\ j + 3 - 1 = j + 2  BY <2>2
    <2>4. \A i \in 1 .. Len(down) : r[j + i - 1] = down[i]  BY <1>3, <1>7, <2>1, <2>3
    <2>5. strstr(r, down)  BY <1>3, <2>2, <2>4, FoundIs
    <2> QED  BY <1>4, <2>5
  <1> QED  BY <1>8, <1>9, <1>10

LEMMA DirectoryIs ==
  ASSUME NEW s \in Seq(PathChars)
  PROVE  LET d == Directory(s)
         IN  /\ d \in Seq(PathChars) /\ Len(d) = Len(s) + IF EndsInSlash(s) THEN 0 ELSE 1
             /\ d # <<>> /\ Len(d) > 0 /\ d[Len(d)] = "/"
             /\ \A i \in 1 .. Len(s) : d[i] = s[i]
             /\ EndsInSlash(s) => d = s
             /\ ~EndsInSlash(s) => d = s \o Slash
  <1>1. Len(s) \in Nat  OBVIOUS
  <1>2. CASE EndsInSlash(s)
    <2>1. s # <<>> /\ s[Len(s)] = "/"  BY <1>2 DEF EndsInSlash, Last
    <2> QED  BY <1>1, <1>2, <2>1 DEF Directory
  <1>3. CASE ~EndsInSlash(s)
    <2>1. Slash \in Seq(PathChars) /\ Len(Slash) = 1 /\ Slash[1] = "/"  BY DEF Slash, PathChars
    <2> DEFINE d == s \o Slash
    <2>7. /\ d \in Seq(PathChars) /\ Len(d) = Len(s) + Len(Slash)
          /\ \A i \in 1 .. Len(s) + Len(Slash) :
               d[i] = IF i <= Len(s) THEN s[i] ELSE Slash[i - Len(s)]
      BY <2>1, ConcatProperties
    <2> HIDE DEF d
    <2>2. /\ d \in Seq(PathChars) /\ Len(d) = Len(s) + 1
          /\ \A i \in 1 .. Len(s) + 1 : d[i] = IF i <= Len(s) THEN s[i] ELSE Slash[i - Len(s)]
      BY <2>1, <2>7
    <2>3. d[Len(s) + 1] = "/"
      <3>1. Len(s) + 1 \in 1 .. Len(s) + 1 /\ ~(Len(s) + 1 <= Len(s)) /\ (Len(s) + 1) - Len(s) = 1
        BY <1>1
      <3> QED  BY <2>1, <2>2, <3>1
    <2>4. \A i \in 1 .. Len(s) : d[i] = s[i]  BY <1>1, <2>2
    <2>5. d # <<>>  BY <1>1, <2>2
    <2>6. Directory(s) = d  BY <1>3 DEF Directory, d
    <2> QED  BY <1>1, <1>3, <2>2, <2>3, <2>4, <2>5, <2>6 DEF d
  <1> QED  BY <1>2, <1>3

(* The slash a directory gets at its end brings no name with it.           *)
LEMMA DirectoryUp ==
  ASSUME NEW s \in Seq(PathChars), NEW j \in 0 .. Len(Directory(s)), UpAt(Directory(s), j)
  PROVE  \E i \in 0 .. Len(s) : UpAt(s, i)
  <1> DEFINE d == Directory(s)
  <1>1. /\ d \in Seq(PathChars) /\ Len(d) = Len(s) + (IF EndsInSlash(s) THEN 0 ELSE 1)
        /\ d[Len(d)] = "/"
        /\ \A i \in 1 .. Len(s) : d[i] = s[i]
        /\ EndsInSlash(s) => d = s
    BY DirectoryIs
  <1>2. Len(s) \in Nat  OBVIOUS
  <1> HIDE DEF d
  <1>3. UpAt(d, j) /\ j \in 0 .. Len(d)  BY DEF d
  <1>4. CASE EndsInSlash(s)  BY <1>1, <1>3, <1>4
  <1>5. CASE ~EndsInSlash(s)
    <2>1. Len(d) = Len(s) + 1  BY <1>1, <1>5
    <2>2. /\ j \in 0 .. Len(d) - 2 /\ d[j + 1] = "." /\ d[j + 2] = "."
          /\ j = 0 \/ d[j] = "/"
          /\ j + 3 = Len(d) + 1 \/ d[j + 3] = "/"
      BY <1>3 DEF UpAt
    <2>3. j + 2 # Len(d)  BY <1>1, <2>2
    <2>4. j \in 0 .. Len(s) - 2 /\ j + 1 \in 1 .. Len(s) /\ j + 2 \in 1 .. Len(s)
      BY <1>2, <2>1, <2>2, <2>3
    <2>5. s[j + 1] = "." /\ s[j + 2] = "."  BY <1>1, <2>2, <2>4
    <2>6. j = 0 \/ s[j] = "/"
      <3>1. j # 0 => j \in 1 .. Len(s)  BY <1>2, <2>4
      <3> QED  BY <1>1, <2>2, <3>1
    <2>7. j + 3 = Len(s) + 1 \/ s[j + 3] = "/"
      <3>1. j + 3 # Len(s) + 1 => j + 3 \in 1 .. Len(s) /\ j + 3 # Len(d) + 1
        BY <1>2, <2>1, <2>4
      <3> QED  BY <1>1, <2>2, <3>1
    <2>8. j \in 0 .. Len(s)  BY <1>2, <2>4
    <2> QED  BY <2>4, <2>5, <2>6, <2>7, <2>8 DEF UpAt
  <1> QED  BY <1>4, <1>5

(* A name of d followed by r is one of d or one of r, if d ends in a slash.*)
LEMMA ConcatUp ==
  ASSUME NEW d \in Seq(PathChars), NEW r \in Seq(PathChars), Len(d) > 0, d[Len(d)] = "/",
         NEW j \in 0 .. Len(d \o r), UpAt(d \o r, j)
  PROVE  (\E i \in 0 .. Len(d) : UpAt(d, i)) \/ (\E i \in 0 .. Len(r) : UpAt(r, i))
  <1> DEFINE s == d \o r
             n == Len(d)
  <1>1. /\ s \in Seq(PathChars) /\ Len(s) = n + Len(r)
        /\ \A i \in 1 .. n + Len(r) : s[i] = IF i <= n THEN d[i] ELSE r[i - n]
    BY ConcatProperties
  <1>2. n \in Nat /\ Len(r) \in Nat /\ n > 0  OBVIOUS
  <1>3. /\ j \in 0 .. Len(s) - 2 /\ s[j + 1] = "." /\ s[j + 2] = "."
        /\ j = 0 \/ s[j] = "/"
        /\ j + 3 = Len(s) + 1 \/ s[j + 3] = "/"
    BY DEF UpAt
  <1>4. d[n] = "/"  OBVIOUS
  <1> HIDE DEF s, n
  <1>5. \A i \in 1 .. n : s[i] = d[i]  BY <1>1, <1>2
  <1>6. ASSUME NEW i \in 1 .. Len(r) PROVE s[n + i] = r[i]
    <2>1. n + i \in 1 .. n + Len(r) /\ ~(n + i <= n) /\ (n + i) - n = i  BY <1>2
    <2> QED  BY <1>1, <2>1
  <1>7. j + 1 # n /\ j + 2 # n
    <2>1. n \in 1 .. n  BY <1>2
    <2> QED  BY <1>3, <1>4, <1>5, <2>1
  <1>8. CASE j + 2 < n
    <2>1. j \in 0 .. n - 2 /\ j \in 0 .. n /\ j + 1 \in 1 .. n /\ j + 2 \in 1 .. n /\ j + 3 \in 1 .. n
      BY <1>2, <1>3, <1>8
    <2>2. j # 0 => j \in 1 .. n  BY <2>1
    <2>3. j + 3 # Len(s) + 1  BY <1>1, <1>2, <2>1
    <2>4. UpAt(d, j)  BY <1>3, <1>5, <2>1, <2>2, <2>3 DEF UpAt, n
    <2> QED  BY <2>1, <2>4 DEF n
  <1>9. CASE j >= n
    <2> DEFINE i == j - n
    <2>1. /\ i \in 0 .. Len(r) - 2 /\ i \in 0 .. Len(r) /\ j = n + i
          /\ i + 1 \in 1 .. Len(r) /\ i + 2 \in 1 .. Len(r)
          /\ j + 1 = n + (i + 1) /\ j + 2 = n + (i + 2) /\ j + 3 = n + (i + 3)
      BY <1>1, <1>2, <1>3, <1>9
    <2> HIDE DEF i
    <2>2. r[i + 1] = "." /\ r[i + 2] = "."  BY <1>3, <1>6, <2>1
    <2>3. i = 0 \/ r[i] = "/"
      <3>1. i # 0 => i \in 1 .. Len(r) /\ j # 0  BY <1>2, <2>1
      <3> QED  BY <1>3, <1>6, <2>1, <3>1
    <2>4. i + 3 = Len(r) + 1 \/ r[i + 3] = "/"
      <3>1. i + 3 # Len(r) + 1 => i + 3 \in 1 .. Len(r) /\ j + 3 # Len(s) + 1
        BY <1>1, <1>2, <2>1
      <3> QED  BY <1>3, <1>6, <2>1, <3>1
    <2> QED  BY <2>1, <2>2, <2>3, <2>4 DEF UpAt
  <1>10. j + 2 < n \/ j >= n  BY <1>2, <1>3, <1>7
  <1> QED  BY <1>8, <1>9, <1>10

-----------------------------------------------------------------------------
(* The inductive invariant: the path written is what some mount built for  *)
(* some request, and a file was opened by that path and by its own route.  *)

TypeInv == mounts \in Seq(Mounts) /\ path \in Seq(PathChars)

BuiltBy(f, m) ==
  \E url \in Seq(PathChars) : Builds(m, url) /\ f.fs_path = build_path(m, url)

FileInv ==
  \/ file = NoFile
  \/ file.route = 0 /\ \E m \in Mounts : BuiltBy(file, m)
  \/ /\ file.route \in 1 .. Len(mounts)
     /\ BuiltBy(file, mounts[file.route])
     /\ file.mime = http_static_mime_type(file.fs_path)

IInv == TypeInv /\ FileInv

LEMMA RelativeIs ==
  ASSUME NEW m \in Mounts, NEW url \in Seq(PathChars), starts_with(url, m.prefix)
  PROVE  Relative(m, url) \in Seq(PathChars)
  <1>1. m.prefix \in Seq(PathChars) /\ m.index \in Seq(PathChars)  BY StaticAssumption
  <1>2. Len(m.prefix) + 1 \in 1 .. Len(url) + 1
    BY <1>1 DEF starts_with, IsPrefix
  <1> DEFINE rest == From(url, Len(m.prefix) + 1)
             name == IF rest # <<>> /\ Head(rest) = "/" THEN Tail(rest) ELSE rest
  <1>3. rest \in Seq(PathChars)  BY <1>2, FromIs
  <1> HIDE DEF rest
  <1>4. name \in Seq(PathChars)  BY <1>3, HeadTailProperties
  <1> HIDE DEF name
  <1>5. Relative(m, url) = IF name = <<>> THEN m.index ELSE name
    BY DEF Relative, name, rest
  <1> QED  BY <1>1, <1>4, <1>5

LEMMA DecidingIs ==
  ASSUME TypeInv, NEW url, Deciding(url) # {}
  PROVE  Min(Deciding(url)) \in 1 .. Len(mounts) /\ Builds(mounts[Min(Deciding(url))], url)
  <1> DEFINE D == Deciding(url)
  <1>1. D \subseteq 1 .. Len(mounts) /\ \A k \in D : Builds(mounts[k], url)
    BY DEF Deciding, TypeInv
  <1> HIDE DEF D
  <1>2. D # {} /\ D \subseteq Nat  BY <1>1 DEF D
  <1>3. Min(D) \in D  BY <1>2, MinOfNat
  <1> QED  BY <1>1, <1>3 DEF D

LEMMA InitInv == FilesInit => IInv
  <1>1. Slash \in Seq(PathChars)  BY DEF Slash, PathChars
  <1> QED  BY <1>1 DEF FilesInit, IInv, TypeInv, FileInv

LEMMA RequestInv ==
  ASSUME IInv, NEW url \in Seq(PathChars), Request(url)
  PROVE  IInv'
  <1>1. /\ path' = url /\ mounts' = mounts /\ file' \in resolve_open(url)
        /\ mounts \in Seq(Mounts)
    BY DEF Request, IInv, TypeInv
  <1>2. CASE file' = NoFile  BY <1>1, <1>2 DEF IInv, TypeInv, FileInv, NoFile
  <1>3. CASE file' # NoFile
    <2>1. Deciding(url) # {}  BY <1>1, <1>3 DEF resolve_open
    <2> DEFINE k == Min(Deciding(url))
               fs_path == build_path(mounts[k], url)
    <2>2. k \in 1 .. Len(mounts) /\ Builds(mounts[k], url)
      BY <2>1, DecidingIs DEF IInv
    <2>3. \/ file' = [NoFile EXCEPT !.fs_path = fs_path]
          \/ file' = [route |-> k, fs_path |-> fs_path, mime |-> http_static_mime_type(fs_path)]
      BY <1>1, <2>1 DEF resolve_open
    <2>4. fs_path = build_path(mounts[k], url)  OBVIOUS
    <2> HIDE DEF k, fs_path
    <2>5. /\ file'.fs_path = fs_path
          /\ \/ file'.route = 0
             \/ file'.route = k /\ file'.mime = http_static_mime_type(fs_path)
      BY <2>3 DEF NoFile
    <2>6. BuiltBy(file', mounts[k])  BY <2>2, <2>4, <2>5 DEF BuiltBy
    <2>7. mounts[k] \in Mounts  BY <1>1, <2>2
    <2>8. FileInv'  BY <1>1, <2>2, <2>5, <2>6, <2>7 DEF FileInv
    <2> QED  BY <1>1, <2>8 DEF IInv, TypeInv
  <1> QED  BY <1>2, <1>3

LEMMA NextInv == IInv /\ [FilesNext]_files_vars => IInv'
  <1> SUFFICES ASSUME IInv, [FilesNext]_files_vars PROVE IInv'
    OBVIOUS
  <1>1. CASE UNCHANGED files_vars
    BY <1>1 DEF IInv, TypeInv, FileInv, files_vars
  <1>2. ASSUME NEW m \in Mounts, AddMount(m) PROVE IInv'
    <2>1. /\ mounts \in Seq(Mounts) /\ mounts' = Append(mounts, m)
          /\ path' = path /\ file' = file
      BY <1>2 DEF AddMount, IInv, TypeInv
    <2>2. /\ mounts' \in Seq(Mounts) /\ Len(mounts') = Len(mounts) + 1
          /\ \A k \in 1 .. Len(mounts) : mounts'[k] = mounts[k]
      BY <2>1, AppendProperties
    <2>3. ASSUME file.route \in 1 .. Len(mounts), BuiltBy(file, mounts[file.route])
          PROVE  file'.route \in 1 .. Len(mounts') /\ BuiltBy(file', mounts'[file'.route])
      <3>1. file'.route = file.route /\ mounts'[file.route] = mounts[file.route]
            /\ file.route \in 1 .. Len(mounts')
        BY <2>1, <2>2, <2>3
      <3> QED  BY <2>1, <2>3, <3>1
    <2>4. TypeInv'  BY <2>1, <2>2 DEF IInv, TypeInv
    <2>5. FileInv'
      <3>1. FileInv  BY DEF IInv
      <3> QED  BY <2>1, <2>3, <3>1 DEF FileInv, NoFile
    <2> QED  BY <2>4, <2>5 DEF IInv
  <1>3. ASSUME NEW c \in PathChars, Request(Append(path, c)) PROVE IInv'
    <2>1. Append(path, c) \in Seq(PathChars)  BY AppendProperties DEF IInv, TypeInv
    <2> QED  BY <1>3, <2>1, RequestInv
  <1>4. CASE Request(Slash)
    <2>1. Slash \in Seq(PathChars)  BY DEF Slash, PathChars
    <2> QED  BY <1>4, <2>1, RequestInv
  <1>5. CASE FilesNext  BY <1>2, <1>3, <1>4, <1>5 DEF FilesNext
  <1> QED  BY <1>1, <1>5

LEMMA Inv == FilesSpec => []IInv
  BY InitInv, NextInv, PTL DEF FilesSpec

(* The length computed before the path is written is the length of what is *)
(* written.                                                                *)
LEMMA PathLenIs ==
  ASSUME NEW m \in Mounts, NEW url \in Seq(PathChars), starts_with(url, m.prefix)
  PROVE  /\ build_path(m, url) \in Seq(PathChars)
         /\ Len(build_path(m, url)) = PathLen(m, url)
  <1> DEFINE name == Relative(m, url)
             d == Directory(m.root)
  <1>1. name \in Seq(PathChars)  BY RelativeIs
  <1>2. m.root \in Seq(PathChars)  BY StaticAssumption
  <1>3. Slash \in Seq(PathChars) /\ Len(Slash) = 1  BY DEF Slash, PathChars
  <1>4. /\ d \in Seq(PathChars)
        /\ Len(d) = Len(m.root) + (IF need_slash(m.root) THEN 1 ELSE 0)
    <2>1. CASE EndsInSlash(m.root)
      <3>1. d = m.root /\ ~need_slash(m.root)  BY <2>1 DEF Directory, need_slash
      <3> HIDE DEF d
      <3> QED  BY <1>2, <3>1
    <2>2. CASE ~EndsInSlash(m.root)
      <3>1. d = m.root \o Slash /\ need_slash(m.root)  BY <2>2 DEF Directory, need_slash
      <3> HIDE DEF d
      <3>2. /\ m.root \o Slash \in Seq(PathChars)
            /\ Len(m.root \o Slash) = Len(m.root) + Len(Slash)
        BY ONLY <1>2, <1>3, ConcatProperties
      <3> QED  BY <1>3, <3>1, <3>2
    <2> QED  BY <2>1, <2>2
  <1> HIDE DEF name, d
  <1>5. d \o name \in Seq(PathChars) /\ Len(d \o name) = Len(d) + Len(name)
    BY <1>1, <1>4, ConcatProperties
  <1>6. build_path(m, url) = d \o name  BY DEF build_path, d, name
  <1>7. PathLen(m, url) = Len(m.root) + (IF need_slash(m.root) THEN 1 ELSE 0) + Len(name)
    BY DEF PathLen, name
  <1> QED  BY <1>4, <1>5, <1>6, <1>7

LEMMA BuiltIs ==
  ASSUME IInv, file # NoFile
  PROVE  file.fs_path \in Seq(PathChars) /\ Len(file.fs_path) < FsPathSize
  <1>1. PICK m \in Mounts : BuiltBy(file, m)
    <2>1. ASSUME file.route \in 1 .. Len(mounts) PROVE mounts[file.route] \in Mounts
      BY <2>1 DEF IInv, TypeInv
    <2> QED  BY <2>1 DEF IInv, FileInv
  <1>2. PICK url \in Seq(PathChars) : Builds(m, url) /\ file.fs_path = build_path(m, url)
    BY <1>1 DEF BuiltBy
  <1>3. starts_with(url, m.prefix) /\ PathLen(m, url) < FsPathSize
    BY <1>2 DEF Builds
  <1> QED  BY <1>2, <1>3, PathLenIs

(* What is written for a request, with its terminating zero, stays in      *)
(* fs_path[], because the sum that is compared with its size is the length *)
(* of what strcpy and strcat then put together.                            *)
THEOREM PathFitsCorrect == FilesSpec => []PathFits
  <1>1. ASSUME IInv PROVE PathFits
    <2>1. FsPathSize = HTTP_STATIC_PATH_MAX + 1 /\ HTTP_STATIC_PATH_MAX \in Nat
      BY StaticAssumption DEF FsPathSize
    <2>2. CASE file = NoFile
      <3>1. Len(file.fs_path) = 0  BY <2>2 DEF NoFile
      <3> QED  BY <2>1, <3>1 DEF PathFits
    <2>3. CASE file # NoFile
      <3>1. file.fs_path \in Seq(PathChars) /\ Len(file.fs_path) < FsPathSize
        BY <1>1, <2>3, BuiltIs
      <3>2. Len(file.fs_path) \in Nat  BY <3>1
      <3> QED  BY <2>1, <3>1, <3>2 DEF PathFits
    <2> QED  BY <2>2, <2>3
  <1> QED  BY <1>1, Inv, PTL

(* The file opened for a request lies below the directory of its mount,    *)
(* whatever the request is, if the directory itself does not lead up.      *)
THEOREM BelowRootCorrect ==
  ASSUME RootsClean PROVE FilesSpec => []StaysBelowRoot
  <1>1. ASSUME IInv, file.route # 0
        PROVE  /\ IsPrefix(Directory(mounts[file.route].root), file.fs_path)
               /\ DotDot \notin NamesIn(file.fs_path)
    <2>1. file # NoFile  BY <1>1 DEF NoFile
    <2>2. BuiltBy(file, mounts[file.route]) /\ file.route \in 1 .. Len(mounts)
      BY <1>1, <2>1 DEF IInv, FileInv
    <2> DEFINE m == mounts[file.route]
               f == file.fs_path
               d == Directory(m.root)
    <2>3. PICK url \in Seq(PathChars) : Builds(m, url) /\ f = build_path(m, url)
      BY <2>2 DEF BuiltBy
    <2>4. m \in Mounts  BY <1>1, <2>2 DEF IInv, TypeInv
    <2> HIDE DEF m, f
    <2> DEFINE r == Relative(m, url)
    <2>5. r \in Seq(PathChars) /\ http_static_path_is_safe(r)
      BY <2>3, <2>4, RelativeIs DEF Builds
    <2>6. m.root \in Seq(PathChars)  BY <2>4, StaticAssumption
    <2>7. d \in Seq(PathChars) /\ Len(d) > 0 /\ d[Len(d)] = "/"  BY <2>6, DirectoryIs
    <2>8. f = d \o r  BY <2>3 DEF build_path
    <2>9. \A j \in 0 .. Len(m.root) : ~UpAt(m.root, j)
      BY <2>4, <2>6, UpIs DEF RootsClean
    <2>10. \A j \in 0 .. Len(d) : ~UpAt(d, j)  BY <2>6, <2>9, DirectoryUp
    <2> HIDE DEF d, r
    <2>11. /\ f \in Seq(PathChars) /\ Len(f) = Len(d) + Len(r)
           /\ \A i \in 1 .. Len(d) + Len(r) : f[i] = IF i <= Len(d) THEN d[i] ELSE r[i - Len(d)]
      BY <2>5, <2>7, <2>8, ConcatProperties
    <2>12. \A j \in 0 .. Len(f) : ~UpAt(f, j)
      BY <2>5, <2>7, <2>8, <2>10, SafeIs, ConcatUp
    <2>13. DotDot \notin NamesIn(f)  BY <2>11, <2>12, UpIs
    <2>14. IsPrefix(d, f)
      <3>1. Len(d) \in Nat /\ Len(r) \in Nat  BY <2>5, <2>7
      <3>2. Len(d) <= Len(f) /\ \A i \in 1 .. Len(d) : f[i] = d[i]  BY <2>11, <3>1
      <3> QED  BY <2>7, <2>11, <3>2, PrefixIs
    <2> QED  BY <2>13, <2>14 DEF d, f, m
  <1>2. IInv => StaysBelowRoot  BY <1>1 DEF StaysBelowRoot
  <1> QED  BY <1>2, Inv, PTL

-----------------------------------------------------------------------------
(* Which mounts serve a path.                                              *)

LEMMA LongerPrefix ==
  ASSUME NEW u \in Seq(PathChars), NEW p \in Seq(PathChars), NEW q \in Seq(PathChars),
         starts_with(u, p), starts_with(u, q), Len(p) < Len(q)
  PROVE  IsPrefix(Directory(p), q)
  <1> DEFINE d == Directory(p)
  <1>1. Len(u) \in Nat /\ Len(p) \in Nat /\ Len(q) \in Nat  OBVIOUS
  <1>2. /\ Len(p) <= Len(u) /\ \A i \in 1 .. Len(p) : u[i] = p[i]
        /\ Len(q) <= Len(u) /\ \A i \in 1 .. Len(q) : u[i] = q[i]
        /\ Len(u) = Len(p) \/ u[Len(p) + 1] = "/"
    BY PrefixIs DEF starts_with
  <1>3. q[Len(p) + 1] = "/"
    <2>1. Len(p) + 1 \in 1 .. Len(q) /\ Len(u) # Len(p)  BY <1>1, <1>2
    <2> QED  BY <1>2, <2>1
  <1>4. /\ d \in Seq(PathChars) /\ Len(d) = Len(p) + (IF EndsInSlash(p) THEN 0 ELSE 1)
        /\ d[Len(d)] = "/"
        /\ \A i \in 1 .. Len(p) : d[i] = p[i]
    BY DirectoryIs
  <1> HIDE DEF d
  <1>5. Len(d) <= Len(q)  BY <1>1, <1>4
  <1>6. ASSUME NEW i \in 1 .. Len(d) PROVE q[i] = d[i]
    <2>1. i \in 1 .. Len(p) \/ (i = Len(p) + 1 /\ i = Len(d))  BY <1>1, <1>4
    <2>2. i \in 1 .. Len(q) /\ i \in 1 .. Len(u)  BY <1>1, <1>2, <1>4, <1>5
    <2> QED  BY <1>2, <1>3, <1>4, <2>1, <2>2
  <1> QED  BY <1>4, <1>5, <1>6, PrefixIs DEF d

(* Two mounts compete for a path only if one lies beneath the other.       *)
THEOREM OneMountCorrect == FilesSpec => []OneMountPerPath
  <1>1. ASSUME IInv PROVE OneMountPerPath
    <2>1. ASSUME NEW j \in Deciding(path), NEW k \in Deciding(path)
          PROVE  Beneath(mounts[j], mounts[k]) \/ Beneath(mounts[k], mounts[j])
      <3> DEFINE m == mounts[j]
                 n == mounts[k]
      <3>1. /\ m \in Mounts /\ starts_with(path, m.prefix)
            /\ n \in Mounts /\ starts_with(path, n.prefix)
            /\ path \in Seq(PathChars)
        BY <1>1 DEF Deciding, Builds, IInv, TypeInv
      <3> HIDE DEF m, n
      <3>2. m.prefix \in Seq(PathChars) /\ n.prefix \in Seq(PathChars)
        BY <3>1, StaticAssumption
      <3>3. Len(m.prefix) \in Nat /\ Len(n.prefix) \in Nat  BY <3>2
      <3>4. CASE Len(m.prefix) < Len(n.prefix)
        BY <3>1, <3>2, <3>4, LongerPrefix DEF Beneath, m, n
      <3>5. CASE Len(n.prefix) < Len(m.prefix)
        BY <3>1, <3>2, <3>5, LongerPrefix DEF Beneath, m, n
      <3>6. CASE Len(n.prefix) = Len(m.prefix)
        <4>1. /\ \A i \in 1 .. Len(m.prefix) : path[i] = m.prefix[i]
              /\ \A i \in 1 .. Len(n.prefix) : path[i] = n.prefix[i]
          BY <3>1, <3>2, PrefixIs DEF starts_with
        <4>2. m.prefix = n.prefix  BY <3>2, <3>6, <4>1, SeqEqual
        <4> QED  BY <4>2 DEF Beneath, m, n
      <3> QED  BY <3>3, <3>4, <3>5, <3>6
    <2> QED  BY <2>1 DEF OneMountPerPath
  <1> QED  BY <1>1, Inv, PTL

-----------------------------------------------------------------------------
(* Ordinary names.                                                         *)

(* A character that is no slash belongs to a name.                         *)
LEMMA NameAround ==
  ASSUME NEW s \in Seq(PathChars), NEW i \in 1 .. Len(s), s[i] # "/"
  PROVE  \E name \in NamesIn(s) : s[i] \in ToSet(name)
  <1> DEFINE L == {l \in 0 .. i - 1 : l = 0 \/ s[l] = "/"}
             R == {k \in i + 1 .. Len(s) + 1 : k = Len(s) + 1 \/ s[k] = "/"}
             j == Max(L)
             k == Min(R)
             p == SubSeq(s, j + 1, k - 1)
  <1>1. Len(s) \in Nat /\ i \in Nat /\ 1 <= i /\ i <= Len(s)  OBVIOUS
  <1>2. j \in L /\ \A l \in L : l <= j
    <2>1. 0 \in L /\ L \in SUBSET (0 .. i - 1) /\ i - 1 \in Nat  BY <1>1
    <2> HIDE DEF L
    <2> QED  BY <2>1, MaxOfNat
  <1>3. k \in R /\ \A l \in R : k <= l
    <2>1. Len(s) + 1 \in R /\ R \subseteq Nat  BY <1>1
    <2> HIDE DEF R
    <2> QED  BY <2>1, MinOfNat
  <1>4. /\ j \in 0 .. i - 1 /\ (j = 0 \/ s[j] = "/")
        /\ \A l \in 1 .. i - 1 : s[l] = "/" => l <= j
    <2> HIDE DEF j
    <2> QED  BY <1>1, <1>2
  <1>5. /\ k \in i + 1 .. Len(s) + 1 /\ (k = Len(s) + 1 \/ s[k] = "/")
        /\ \A l \in i + 1 .. Len(s) : s[l] = "/" => k <= l
    <2> HIDE DEF k
    <2> QED  BY <1>1, <1>3
  <1> HIDE DEF L, R, j, k
  <1>6. ASSUME NEW l \in j + 1 .. k - 1 PROVE s[l] # "/"
    <2>1. l \in 1 .. i - 1 \/ l = i \/ l \in i + 1 .. Len(s)  BY <1>1, <1>4, <1>5
    <2>2. ~(l <= j) /\ ~(k <= l)  BY <1>1, <1>4, <1>5
    <2> QED  BY <1>4, <1>5, <2>1, <2>2
  <1>7. Gap(s, j, k)
    <2>1. j \in 0 .. Len(s) /\ k \in 1 .. Len(s) + 1 /\ j < k  BY <1>1, <1>4, <1>5
    <2> QED  BY <1>4, <1>5, <1>6, <2>1 DEF Gap
  <1>8. p \in NamesIn(s)
    <2>1. j \in 0 .. Len(s) + 1 /\ k \in 0 .. Len(s) + 1  BY <1>1, <1>4, <1>5
    <2> QED  BY <1>7, <2>1, NamesAre
  <1>9. s[i] \in ToSet(p)
    <2> DEFINE a == j + 1
               b == k - 1
               n == IF a <= b THEN b - a + 1 ELSE 0
               q == SubSeq(s, a, b)
               x == i - j
    <2>1. /\ a \in Nat \ {0} /\ b \in Nat /\ b <= Len(s)
          /\ x \in 1 .. n /\ a + x - 1 = i
      BY <1>1, <1>4, <1>5
    <2> HIDE DEF a, b, x
    <2>2. q \in Seq(PathChars) /\ Len(q) = n /\ \A l \in 1 .. n : q[l] = s[a + l - 1]
      BY <2>1, PartIs
    <2> HIDE DEF q, n
    <2>3. x \in DOMAIN q /\ q[x] = s[i]  BY <2>1, <2>2
    <2>4. s[i] \in ToSet(q)  BY <2>3 DEF ToSet
    <2> QED  BY <2>4 DEF q, a, b, p
  <1> QED  BY <1>8, <1>9

(* Between two slashes that follow each other there is an empty name.      *)
LEMMA NameBetween ==
  ASSUME NEW s \in Seq(PathChars), NEW i \in 1 .. Len(s), i + 1 <= Len(s),
         s[i] = "/", s[i + 1] = "/"
  PROVE  <<>> \in NamesIn(s)
  <1>1. Len(s) \in Nat  OBVIOUS
  <1>2. Gap(s, i, i + 1)
    <2>1. i \in 0 .. Len(s) /\ i + 1 \in 1 .. Len(s) + 1 /\ i < i + 1  BY <1>1
    <2>2. \A l \in i + 1 .. (i + 1) - 1 : FALSE  OBVIOUS
    <2> QED  BY <2>1, <2>2 DEF Gap
  <1>3. SubSeq(s, i + 1, (i + 1) - 1) = <<>>
    <2>1. i + 1 \in Int /\ (i + 1) - 1 \in Int /\ (i + 1) - 1 < i + 1  OBVIOUS
    <2> QED  BY <2>1, SubSeqEmpty
  <1>4. i \in 0 .. Len(s) + 1 /\ i + 1 \in 0 .. Len(s) + 1  BY <1>1
  <1> QED  BY <1>2, <1>3, <1>4, NamesAre

LEMMA OrdinaryIs ==
  ASSUME NEW s \in Seq(PathChars), Ordinary(s)
  PROVE  /\ s # <<>>
         /\ \A i \in 1 .. Len(s) : s[i] = "/" \/ s[i] = "a"
         /\ \A i \in 1 .. Len(s) : i + 1 <= Len(s) => ~(s[i] = "/" /\ s[i + 1] = "/")
  <1>1. s # <<>> /\ \A name \in NamesIn(s) : name # <<>> /\ ToSet(name) = {"a"}
    BY DEF Ordinary
  <1>2. ASSUME NEW i \in 1 .. Len(s), s[i] # "/" PROVE s[i] = "a"
    BY <1>1, <1>2, NameAround
  <1>3. ASSUME NEW i \in 1 .. Len(s), i + 1 <= Len(s), s[i] = "/", s[i + 1] = "/" PROVE FALSE
    BY <1>1, <1>3, NameBetween
  <1> QED  BY <1>1, <1>2, <1>3

LEMMA OrdinaryIsSafe ==
  ASSUME NEW s \in Seq(PathChars), Ordinary(s)
  PROVE  http_static_path_is_safe(s)
  <1>1. /\ s # <<>>
        /\ \A i \in 1 .. Len(s) : s[i] = "/" \/ s[i] = "a"
        /\ \A i \in 1 .. Len(s) : i + 1 <= Len(s) => ~(s[i] = "/" /\ s[i + 1] = "/")
    BY OrdinaryIs
  <1>2. Len(s) \in Nat  OBVIOUS
  <1>3. ASSUME NEW t \in Seq(PathChars), NEW l \in 1 .. Len(t), t[l] \notin {"/", "a"}, strstr(s, t)
        PROVE  FALSE
    <2>1. PICK k \in 1 .. Len(s) : /\ k + Len(t) <= Len(s) + 1
                                   /\ \A i \in 1 .. Len(t) : s[k + i - 1] = t[i]
      BY <1>3, FoundIs
    <2>2. Len(t) \in Nat /\ k + l - 1 \in 1 .. Len(s)  BY <1>2, <2>1
    <2>3. s[k + l - 1] = t[l]  BY <2>1
    <2> QED  BY <1>1, <1>3, <2>2, <2>3
  <1>4. /\ DotDot \o Slash \in Seq(PathChars) /\ Len(DotDot \o Slash) = 3
        /\ (DotDot \o Slash)[1] = "."
        /\ DotDot \o Backslash \in Seq(PathChars) /\ Len(DotDot \o Backslash) = 3
        /\ (DotDot \o Backslash)[1] = "."
    BY DEF DotDot, Slash, Backslash, PathChars
  <1>5. /\ Backslash \o Backslash \in Seq(PathChars) /\ Len(Backslash \o Backslash) = 2
        /\ (Backslash \o Backslash)[1] = "backslash"
        /\ Slash \o DotDot \in Seq(PathChars) /\ Len(Slash \o DotDot) = 3
        /\ (Slash \o DotDot)[2] = "."
    BY DEF DotDot, Slash, Backslash, PathChars
  <1>6. ~strstr(s, DotDot \o Slash) /\ ~strstr(s, DotDot \o Backslash)
    <2>1. 1 \in 1 .. 3  OBVIOUS
    <2> QED  BY <1>3, <1>4, <2>1
  <1>7. ~strstr(s, Backslash \o Backslash) /\ ~strstr(s, Slash \o DotDot)
    <2>1. 1 \in 1 .. 2 /\ 2 \in 1 .. 3  OBVIOUS
    <2> QED  BY <1>3, <1>5, <2>1
  <1>8. ~strstr(s, Slash \o Slash)
    <2> DEFINE t == Slash \o Slash
    <2>1. t \in Seq(PathChars) /\ Len(t) = 2 /\ t[1] = "/" /\ t[2] = "/"
      BY DEF Slash, PathChars
    <2> HIDE DEF t
    <2> SUFFICES ASSUME strstr(s, t) PROVE FALSE
      BY DEF t
    <2>2. PICK k \in 1 .. Len(s) : /\ k + Len(t) <= Len(s) + 1
                                   /\ \A i \in 1 .. Len(t) : s[k + i - 1] = t[i]
      BY <2>1, FoundIs
    <2>3. 1 \in 1 .. Len(t) /\ 2 \in 1 .. Len(t) /\ k + 1 - 1 = k /\ k + 2 - 1 = k + 1
          /\ k + 1 <= Len(s)
      BY <1>2, <2>1, <2>2
    <2>4. s[k] = "/" /\ s[k + 1] = "/"  BY <2>1, <2>2, <2>3
    <2> QED  BY <1>1, <2>3, <2>4
  <1>9. s # DotDot
    <2>1. Len(DotDot) = 2 /\ DotDot[1] = "."  BY DEF DotDot
    <2>2. 1 \in 1 .. 2  OBVIOUS
    <2> QED  BY <1>1, <2>1, <2>2
  <1> QED  BY <1>1, <1>6, <1>7, <1>8, <1>9 DEF http_static_path_is_safe

(* What follows a mounted prefix and its slash is what the file is called. *)
LEMMA RelativeAfter ==
  ASSUME NEW m, NEW u \in Seq(PathChars), m.prefix \in Seq(PathChars), ~EndsInSlash(m.prefix),
         IsPrefix(Directory(m.prefix), u),
         From(u, Len(Directory(m.prefix)) + 1) # <<>>
  PROVE  /\ starts_with(u, m.prefix)
         /\ Relative(m, u) = From(u, Len(Directory(m.prefix)) + 1)
         /\ From(u, Len(Directory(m.prefix)) + 1) \in Seq(PathChars)
  <1> DEFINE p == m.prefix
             n == Len(p)
             d == Directory(p)
             name == From(u, Len(d) + 1)
             rest == From(u, n + 1)
  <1>1. Len(u) \in Nat /\ n \in Nat  OBVIOUS
  <1>2. /\ d \in Seq(PathChars) /\ Len(d) = n + 1 /\ d[n + 1] = "/"
        /\ \A i \in 1 .. n : d[i] = p[i]
    <2>1. /\ d \in Seq(PathChars) /\ Len(d) = n + (IF EndsInSlash(p) THEN 0 ELSE 1)
          /\ d[Len(d)] = "/" /\ \A i \in 1 .. n : d[i] = p[i]
      BY DirectoryIs
    <2> HIDE DEF d, n
    <2> QED  BY <1>1, <2>1
  <1>3. IsPrefix(d, u) /\ p \in Seq(PathChars) /\ name # <<>>  OBVIOUS
  <1> HIDE DEF d
  <1>4. Len(d) <= Len(u) /\ \A i \in 1 .. Len(d) : u[i] = d[i]  BY <1>2, <1>3, PrefixIs
  <1>5. n + 1 <= Len(u) /\ u[n + 1] = "/" /\ \A i \in 1 .. n : u[i] = p[i]
    <2> HIDE DEF n, p
    <2> QED  BY <1>1, <1>2, <1>4
  <1>6. starts_with(u, p)
    <2>1. IsPrefix(p, u)  BY <1>1, <1>5, PrefixIs
    <2> QED  BY <1>5, <2>1 DEF starts_with
  <1> HIDE DEF n, p
  <1>7. /\ name \in Seq(PathChars) /\ Len(name) = Len(u) - n - 1
        /\ \A i \in 1 .. Len(name) : name[i] = u[n + 1 + i]
    <2> DEFINE k == Len(d) + 1
    <2>1. k \in 1 .. Len(u) + 1 /\ k = n + 2  BY <1>1, <1>2, <1>5
    <2> HIDE DEF k
    <2>2. /\ From(u, k) \in Seq(PathChars) /\ Len(From(u, k)) = Len(u) + 1 - k
          /\ \A i \in 1 .. Len(From(u, k)) : From(u, k)[i] = u[k + i - 1]
      BY <2>1, FromIs
    <2>3. name = From(u, k)  BY DEF k
    <2> HIDE DEF name
    <2>4. Len(name) = Len(u) - n - 1  BY <1>1, <2>1, <2>2, <2>3
    <2>5. \A i \in 1 .. Len(name) : k + i - 1 = n + 1 + i  BY <1>1, <2>1
    <2> QED  BY <2>2, <2>3, <2>4, <2>5
  <1>8. /\ rest \in Seq(PathChars) /\ Len(rest) = Len(u) - n /\ Len(rest) > 0
        /\ \A i \in 1 .. Len(rest) : rest[i] = u[n + i]
    <2> DEFINE k == n + 1
    <2>1. k \in 1 .. Len(u) + 1  BY <1>1, <1>5
    <2>2. /\ From(u, k) \in Seq(PathChars) /\ Len(From(u, k)) = Len(u) + 1 - k
          /\ \A i \in 1 .. Len(From(u, k)) : From(u, k)[i] = u[k + i - 1]
      <3> HIDE DEF k
      <3> QED  BY <2>1, FromIs
    <2>3. Len(u) + 1 - k = Len(u) - n /\ Len(u) - n > 0  BY <1>1, <1>5
    <2>4. \A i \in 1 .. Len(rest) : k + i - 1 = n + i  BY <1>1
    <2> HIDE DEF k
    <2>5. rest = From(u, k)  BY DEF k
    <2> HIDE DEF rest
    <2> QED  BY <2>2, <2>3, <2>4, <2>5
  <1> HIDE DEF name, rest
  <1>9. rest # <<>> /\ Head(rest) = "/"
    <2>1. rest # <<>>  BY <1>8
    <2>2. 1 \in 1 .. Len(rest)  BY <1>8
    <2>3. Head(rest) = rest[1]  BY <1>8, <2>1
    <2> QED  BY <1>5, <1>8, <2>1, <2>2, <2>3
  <1>10. Tail(rest) = name
    <2> DEFINE t == Tail(rest)
    <2>1. /\ t \in Seq(PathChars) /\ Len(t) = Len(rest) - 1
          /\ \A i \in 1 .. Len(t) : t[i] = rest[i + 1]
      BY <1>8, <1>9, HeadTailProperties
    <2> HIDE DEF t
    <2>2. Len(t) = Len(name)  BY <1>1, <1>7, <1>8, <2>1
    <2>3. ASSUME NEW i \in 1 .. Len(t) PROVE t[i] = name[i]
      <3>1. i + 1 \in 1 .. Len(rest) /\ n + (i + 1) = n + 1 + i  BY <1>1, <1>8, <2>1
      <3> QED  BY <1>7, <1>8, <2>1, <2>2, <3>1
    <2>4. t = name  BY <1>7, <2>1, <2>2, <2>3, SeqEqual
    <2> QED  BY <2>4 DEF t
  <1>11. Relative(m, u) = IF Tail(rest) = <<>> THEN m.index ELSE Tail(rest)
    <2>1. rest = From(u, Len(m.prefix) + 1)  BY DEF rest, n, p
    <2> QED  BY <1>9, <2>1 DEF Relative
  <1>12. Relative(m, u) = name  BY <1>3, <1>10, <1>11 DEF name
  <1> QED  BY <1>6, <1>7, <1>12 DEF name, d, p

(* docs/static-files.md:30: an ordinary name beneath a mounted prefix that *)
(* ends in no slash is mapped to that name beneath the mount's directory.  *)
THEOREM OrdinaryCorrect == FilesSpec => []OrdinaryPathsMapped
  <1>1. ASSUME IInv,
               NEW k \in DOMAIN mounts,
               ~EndsInSlash(mounts[k].prefix),
               IsPrefix(Directory(mounts[k].prefix), path),
               Ordinary(From(path, Len(Directory(mounts[k].prefix)) + 1)),
               Len(mounts[k].root \o (IF EndsInSlash(mounts[k].root) THEN <<>> ELSE Slash)
                     \o From(path, Len(Directory(mounts[k].prefix)) + 1)) <= HTTP_STATIC_PATH_MAX
        PROVE  /\ Builds(mounts[k], path)
               /\ build_path(mounts[k], path) =
                    mounts[k].root \o (IF EndsInSlash(mounts[k].root) THEN <<>> ELSE Slash)
                      \o From(path, Len(Directory(mounts[k].prefix)) + 1)
    <2> DEFINE m == mounts[k]
               name == From(path, Len(Directory(m.prefix)) + 1)
               slash == IF EndsInSlash(m.root) THEN <<>> ELSE Slash
    <2>1. m \in Mounts /\ path \in Seq(PathChars)  BY <1>1 DEF IInv, TypeInv
    <2>2. /\ ~EndsInSlash(m.prefix) /\ IsPrefix(Directory(m.prefix), path)
          /\ Ordinary(name) /\ Len(m.root \o slash \o name) <= HTTP_STATIC_PATH_MAX
      BY <1>1
    <2>3. name # <<>>  BY <1>1 DEF Ordinary
    <2> HIDE DEF m, slash
    <2>4. m.prefix \in Seq(PathChars) /\ m.root \in Seq(PathChars)
      BY <2>1, StaticAssumption
    <2>5. /\ starts_with(path, m.prefix)
          /\ Relative(m, path) = name
          /\ name \in Seq(PathChars)
      BY <2>1, <2>2, <2>3, <2>4, RelativeAfter
    <2> HIDE DEF name
    <2>6. http_static_path_is_safe(name)  BY <2>2, <2>5, OrdinaryIsSafe
    <2>7. Directory(m.root) = m.root \o slash
      <3>1. m.root \o <<>> = m.root  BY <2>4, ConcatEmptySeq
      <3> QED  BY <3>1 DEF Directory, slash
    <2>8. build_path(m, path) = m.root \o slash \o name
      BY <2>5, <2>7 DEF build_path
    <2>9. build_path(m, path) \in Seq(PathChars) /\ Len(build_path(m, path)) = PathLen(m, path)
      BY <2>1, <2>5, PathLenIs
    <2>10. PathLen(m, path) < FsPathSize
      <3>1. Len(build_path(m, path)) <= HTTP_STATIC_PATH_MAX  BY <2>2, <2>8
      <3>2. HTTP_STATIC_PATH_MAX \in Nat /\ Len(build_path(m, path)) \in Nat
        BY <2>9, StaticAssumption
      <3> QED  BY <2>9, <3>1, <3>2 DEF FsPathSize
    <2>11. Builds(m, path)  BY <2>5, <2>6, <2>10 DEF Builds
    <2> QED  BY <2>8, <2>11 DEF m, slash, name
  <1>2. IInv => OrdinaryPathsMapped  BY <1>1 DEF OrdinaryPathsMapped
  <1> QED  BY <1>2, Inv, PTL

-----------------------------------------------------------------------------
(* The type of a file.                                                     *)

LEMMA SuffixIs ==
  ASSUME NEW s \in Seq(PathChars), NEW t \in Seq(PathChars)
  PROVE  IsSuffix(s, t) <=>
           Len(s) <= Len(t) /\ \A i \in 1 .. Len(s) : t[Len(t) - Len(s) + i] = s[i]
  <1> DEFINE a == Reverse(s)
             b == Reverse(t)
             m == Len(s)
             n == Len(t)
  <1>1. m \in Nat /\ n \in Nat  OBVIOUS
  <1>2. ASSUME NEW r \in Seq(PathChars)
        PROVE  /\ Reverse(r) \in Seq(PathChars) /\ Len(Reverse(r)) = Len(r)
               /\ \A i \in 1 .. Len(r) : Reverse(r)[i] = r[(Len(r) - i) + 1]
    <2>1. Len(r) \in Nat  OBVIOUS
    <2>2. \A i \in 1 .. Len(r) : (Len(r) - i) + 1 \in 1 .. Len(r)  BY <2>1
    <2>3. \A i \in 1 .. Len(r) : r[(Len(r) - i) + 1] \in PathChars  BY <2>2
    <2>4. Reverse(r) \in [1 .. Len(r) -> PathChars]  BY <2>3 DEF Reverse
    <2> QED  BY <2>1, <2>4 DEF Reverse
  <1>3. /\ a \in Seq(PathChars) /\ Len(a) = m /\ \A i \in 1 .. m : a[i] = s[(m - i) + 1]
        /\ b \in Seq(PathChars) /\ Len(b) = n /\ \A i \in 1 .. n : b[i] = t[(n - i) + 1]
    BY <1>2
  <1> HIDE DEF a, b, m, n
  <1>4. IsPrefix(a, b) <=> m <= n /\ \A i \in 1 .. m : b[i] = a[i]
    <2>0. a \in Seq(PathChars) /\ b \in Seq(PathChars)  BY <1>3
    <2>1. IsPrefix(a, b) <=> Len(a) <= Len(b) /\ \A i \in 1 .. Len(a) : b[i] = a[i]
      BY <2>0, PrefixIs
    <2> QED  BY <1>3, <2>1
  <1>5. ASSUME m <= n
        PROVE  (\A i \in 1 .. m : b[i] = a[i]) <=> \A i \in 1 .. m : t[n - m + i] = s[i]
    <2>1. ASSUME NEW i \in 1 .. m
          PROVE  /\ (m - i) + 1 \in 1 .. m /\ (m - ((m - i) + 1)) + 1 = i
                 /\ (n - i) + 1 = n - m + ((m - i) + 1)
                 /\ n - m + i = (n - ((m - i) + 1)) + 1
                 /\ i \in 1 .. n /\ (m - i) + 1 \in 1 .. n
      BY <1>1, <1>5
    <2>2. ASSUME \A i \in 1 .. m : b[i] = a[i], NEW i \in 1 .. m
          PROVE  t[n - m + i] = s[i]
      <3> DEFINE j == (m - i) + 1
      <3>1. /\ j \in 1 .. m /\ j \in 1 .. n /\ (m - j) + 1 = i /\ (n - j) + 1 = n - m + i
        BY <2>1
      <3> HIDE DEF j
      <3>2. b[j] = t[n - m + i] /\ a[j] = s[i]  BY <1>3, <3>1
      <3> QED  BY <2>2, <3>1, <3>2
    <2>3. ASSUME \A i \in 1 .. m : t[n - m + i] = s[i], NEW i \in 1 .. m
          PROVE  b[i] = a[i]
      <3> DEFINE j == (m - i) + 1
      <3>1. j \in 1 .. m /\ i \in 1 .. n /\ (n - i) + 1 = n - m + j  BY <2>1
      <3>2. a[i] = s[j] /\ b[i] = t[(n - i) + 1]  BY <1>3, <3>1
      <3> HIDE DEF j
      <3> QED  BY <2>3, <3>1, <3>2
    <2> QED  BY <2>2, <2>3
  <1> QED  BY <1>4, <1>5 DEF IsSuffix, a, b, m, n

(* A file's own name follows the last slash.                               *)
LEMMA FileNameIs ==
  ASSUME NEW s \in Seq(PathChars)
  PROVE  \E c \in 0 .. Len(s) :
           /\ c = 0 \/ s[c] = "/"
           /\ \A k \in c + 1 .. Len(s) : s[k] # "/"
           /\ FileName(s) \in Seq(PathChars) /\ Len(FileName(s)) = Len(s) - c
           /\ \A i \in 1 .. Len(s) - c : FileName(s)[i] = s[c + i]
  <1> DEFINE S == {0} \cup {k \in DOMAIN s : s[k] = "/"}
             c == Max(S)
             d == 1 + c
  <1>1. Len(s) \in Nat /\ DOMAIN s = 1 .. Len(s)  OBVIOUS
  <1>2. S \in SUBSET (0 .. Len(s)) /\ S # {}  BY <1>1
  <1>3. c \in S /\ \A k \in S : k <= c
    <2> HIDE DEF S
    <2> QED  BY <1>1, <1>2, MaxOfNat
  <1>4. /\ c \in 0 .. Len(s) /\ (c = 0 \/ s[c] = "/")
        /\ \A k \in 1 .. Len(s) : s[k] = "/" => k <= c
    <2> HIDE DEF c
    <2> QED  BY <1>1, <1>2, <1>3
  <1>5. FileName(s) = From(s, d)  BY DEF FileName
  <1> HIDE DEF S, c
  <1>6. d \in 1 .. Len(s) + 1 /\ Len(s) + 1 - d = Len(s) - c
    <2>1. c \in 0 .. Len(s) /\ Len(s) \in Nat  BY <1>1, <1>4
    <2> QED  BY ONLY <2>1
  <1>7. \A i \in 1 .. Len(s) - c : d + i - 1 = c + i  BY <1>1, <1>4
  <1> HIDE DEF d
  <1>8. /\ From(s, d) \in Seq(PathChars) /\ Len(From(s, d)) = Len(s) - c
        /\ \A i \in 1 .. Len(s) - c : From(s, d)[i] = s[c + i]
    <2>1. /\ From(s, d) \in Seq(PathChars) /\ Len(From(s, d)) = Len(s) + 1 - d
          /\ \A i \in 1 .. Len(From(s, d)) : From(s, d)[i] = s[d + i - 1]
      BY <1>6, FromIs
    <2> QED  BY <1>6, <1>7, <2>1
  <1>9. \A k \in c + 1 .. Len(s) : s[k] # "/"
    <2> TAKE k \in c + 1 .. Len(s)
    <2>1. k \in 1 .. Len(s) /\ ~(k <= c)  BY <1>1, <1>4
    <2> QED  BY <1>4, <2>1
  <1> QED  BY <1>4, <1>5, <1>8, <1>9

LEMMA ExtensionIs ==
  ASSUME DotsInFront, NEW e \in Extensions
  PROVE  /\ e \in Seq(PathChars) /\ Len(e) \in Nat \ {0} /\ e[1] = "."
         /\ \A i \in 1 .. Len(e) : e[i] # "/" /\ (i # 1 => e[i] # ".")
  <1>1. e \in Seq(PathChars) /\ e # <<>> /\ e[1] = "."
    BY StaticAssumption DEF DotsInFront
  <1>2. Len(e) \in Nat \ {0}  BY <1>1
  <1>3. ASSUME NEW i \in 1 .. Len(e) PROVE e[i] # "/" /\ (i # 1 => e[i] # ".")
    <2>1. i = 1 \/ i \in 2 .. Len(e)  BY <1>2
    <2> QED  BY <1>1, <2>1 DEF DotsInFront
  <1> QED  BY <1>1, <1>2, <1>3

LEMMA TypeIs ==
  ASSUME DotsInFront, NEW s \in Seq(PathChars)
  PROVE  http_static_mime_type(s) = "known" <=>
           \E e \in Extensions : IsSuffix(e, FileName(s))
  <1> DEFINE D == {k \in DOMAIN s : s[k] = "."}
             n == FileName(s)
  <1>1. Len(s) \in Nat /\ DOMAIN s = 1 .. Len(s)  OBVIOUS
  <1>2. http_static_mime_type(s) = "known" <=> D # {} /\ From(s, Max(D)) \in Extensions
    BY DEF http_static_mime_type
  <1>3. /\ D \in SUBSET (0 .. Len(s)) /\ D \subseteq Nat
        /\ \A k \in 1 .. Len(s) : k \in D <=> s[k] = "."
        /\ D \subseteq 1 .. Len(s)
    BY <1>1
  <1>4. PICK c \in 0 .. Len(s) :
          /\ c = 0 \/ s[c] = "/"
          /\ \A k \in c + 1 .. Len(s) : s[k] # "/"
          /\ n \in Seq(PathChars) /\ Len(n) = Len(s) - c
          /\ \A i \in 1 .. Len(s) - c : n[i] = s[c + i]
    BY FileNameIs
  <1> HIDE DEF D, n
  <1>5. ASSUME D # {}, From(s, Max(D)) \in Extensions
        PROVE  \E e \in Extensions : IsSuffix(e, n)
    <2> DEFINE d == Max(D)
               e == From(s, d)
    <2>1. d \in 1 .. Len(s)  BY <1>1, <1>3, <1>5, MaxOfNat
    <2> HIDE DEF d
    <2>2. d \in 1 .. Len(s) + 1  BY <1>1, <2>1
    <2>3. e \in Seq(PathChars) /\ Len(e) = Len(s) + 1 - d /\ \A i \in 1 .. Len(e) : e[i] = s[d + i - 1]
      BY <2>2, FromIs
    <2>4. e \in Extensions  BY <1>5 DEF d
    <2> HIDE DEF e
    <2>5. \A i \in 1 .. Len(e) : e[i] # "/"  BY <2>4, ExtensionIs
    <2>6. c < d
      <3> SUFFICES ASSUME c >= d PROVE FALSE
        BY <1>4, <2>1
      <3>1. c # 0 /\ c - d + 1 \in 1 .. Len(e) /\ d + (c - d + 1) - 1 = c
        BY <1>1, <1>4, <2>1, <2>3
      <3>2. e[c - d + 1] = s[c]  BY <2>3, <3>1
      <3> QED  BY <1>4, <2>5, <3>1, <3>2
    <2>7. Len(e) <= Len(n)  BY <1>1, <1>4, <2>1, <2>3, <2>6
    <2>8. ASSUME NEW i \in 1 .. Len(e) PROVE n[Len(n) - Len(e) + i] = e[i]
      <3> DEFINE x == Len(n) - Len(e) + i
      <3>1. x \in 1 .. Len(s) - c /\ c + x = d + i - 1
        BY <1>1, <1>4, <2>1, <2>3, <2>6
      <3> HIDE DEF x
      <3>2. n[x] = s[d + i - 1]  BY <1>4, <3>1
      <3> QED  BY <2>3, <3>2 DEF x
    <2>9. IsSuffix(e, n)  BY <1>4, <2>3, <2>7, <2>8, SuffixIs
    <2> QED  BY <2>4, <2>9
  <1>6. ASSUME NEW e \in Extensions, IsSuffix(e, n)
        PROVE  D # {} /\ From(s, Max(D)) \in Extensions
    <2>1. /\ e \in Seq(PathChars) /\ Len(e) \in Nat \ {0} /\ e[1] = "."
          /\ \A i \in 1 .. Len(e) : e[i] # "/" /\ (i # 1 => e[i] # ".")
      BY ExtensionIs
    <2>2. Len(e) <= Len(n) /\ \A i \in 1 .. Len(e) : n[Len(n) - Len(e) + i] = e[i]
      BY <1>4, <1>6, <2>1, SuffixIs
    <2> DEFINE d == Len(s) - Len(e) + 1
    <2>3. d \in 1 .. Len(s) /\ d \in 1 .. Len(s) + 1 /\ Len(s) + 1 - d = Len(e)
      BY <1>1, <1>4, <2>1, <2>2
    <2>4. ASSUME NEW i \in 1 .. Len(e) PROVE s[d + i - 1] = e[i]
      <3> DEFINE x == Len(n) - Len(e) + i
      <3>1. x \in 1 .. Len(s) - c /\ c + x = d + i - 1
        BY <1>1, <1>4, <2>1, <2>2
      <3>2. n[x] = e[i]  BY <2>2
      <3> HIDE DEF x, d
      <3> QED  BY <1>4, <3>1, <3>2
    <2> HIDE DEF d
    <2>5. s[d] = "."
      <3>1. 1 \in 1 .. Len(e) /\ d + 1 - 1 = d  BY <2>1, <2>3
      <3> QED  BY <2>1, <2>4, <3>1
    <2>6. ASSUME NEW k \in 1 .. Len(s), k > d PROVE s[k] # "."
      <3> DEFINE i == k - d + 1
      <3>1. i \in 1 .. Len(e) /\ d + i - 1 = k /\ i # 1  BY <1>1, <2>1, <2>3, <2>6
      <3> HIDE DEF i
      <3> QED  BY <2>1, <2>4, <3>1
    <2>7. d \in D /\ \A k \in D : k <= d
      <3>1. d \in D  BY <1>3, <2>3, <2>5
      <3>2. ASSUME NEW k \in D PROVE k <= d
        <4>1. k \in 1 .. Len(s) /\ s[k] = "."  BY <1>3
        <4>2. ~(k > d)  BY <2>6, <4>1
        <4> QED  BY <1>1, <2>3, <4>1, <4>2
      <3> QED  BY <3>1, <3>2
    <2>8. Max(D) = d  BY <1>3, <2>7, MaxIs
    <2> DEFINE f == From(s, d)
    <2>9. f \in Seq(PathChars) /\ Len(f) = Len(s) + 1 - d /\ \A i \in 1 .. Len(f) : f[i] = s[d + i - 1]
      BY <2>3, FromIs
    <2> HIDE DEF f
    <2>10. f = e  BY <2>1, <2>3, <2>4, <2>9, SeqEqual
    <2> QED  BY <2>7, <2>8, <2>10 DEF f
  <1> QED  BY <1>2, <1>5, <1>6 DEF n

(* The type sent for a file depends on its own name only, whatever its     *)
(* directories are called.                                                 *)
THEOREM TypeOfFileCorrect ==
  ASSUME DotsInFront PROVE FilesSpec => []TypeOfFileName
  <1>1. ASSUME IInv, file.route # 0
        PROVE  file.mime = "known" <=> \E e \in Extensions : IsSuffix(e, FileName(file.fs_path))
    <2>1. file # NoFile  BY <1>1 DEF NoFile
    <2>2. file.mime = http_static_mime_type(file.fs_path)  BY <1>1, <2>1 DEF IInv, FileInv
    <2>3. file.fs_path \in Seq(PathChars)  BY <1>1, <2>1, BuiltIs
    <2> QED  BY <2>2, <2>3, TypeIs
  <1>2. IInv => TypeOfFileName
    <2> SUFFICES ASSUME IInv, file.route # 0
                 PROVE  (file.mime = "known") =
                          \E e \in Extensions : IsSuffix(e, FileName(file.fs_path))
      BY DEF TypeOfFileName
    <2> QED  BY <1>1
  <1> QED  BY <1>2, Inv, PTL
=============================================================================
