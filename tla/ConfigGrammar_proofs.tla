------------------------ MODULE ConfigGrammar_proofs ------------------------
(* What the helper reads in the config of a profile, for texts of any length. *)
EXTENDS ConfigGrammar, SequenceTheorems, WellFoundedInduction, TLAPS

-----------------------------------------------------------------------------
(* Least elements and induction over numbers *)

LessThan == {ss \in Nat \X Nat : ss[1] < ss[2]}

LEMMA LessThanWellFounded == IsWellFoundedOn(LessThan, Nat)
BY NatLessThanWellFounded DEF OpToRel, LessThan

LEMMA LeastOf ==
  ASSUME NEW T \in SUBSET Nat, T # {}
  PROVE  \E x \in T : \A y \in T : x <= y
<1>1. PICK x \in T : \A y \in T : <<y, x>> \notin LessThan
  BY LessThanWellFounded, WFMin
<1>2. \A y \in T : ~(y < x)
  BY <1>1 DEF LessThan
<1>3. QED
  BY <1>2

LEMMA InductionOn ==
  ASSUME NEW T, 0 \in T, \A n \in Nat : n \in T => n + 1 \in T
  PROVE  \A n \in Nat : n \in T
<1>1. SUFFICES ASSUME {n \in Nat : n \notin T} # {} PROVE FALSE
  OBVIOUS
<1>2. PICK x \in Nat : x \notin T /\ \A y \in Nat : y \notin T => x <= y
  BY <1>1, LeastOf
<1>3. x # 0 /\ x - 1 \in Nat /\ x - 1 \in T
  BY <1>2
<1>4. QED
  BY <1>2, <1>3

LEMMA MinIs ==
  ASSUME NEW T \in SUBSET Nat, T # {}
  PROVE  Min(T) \in T /\ \A y \in T : Min(T) <= y
BY LeastOf DEF Min

LEMMA MaxIs ==
  ASSUME NEW n \in Nat, NEW T \in SUBSET (0..n), T # {}
  PROVE  Max(T) \in T /\ \A y \in T : y <= Max(T)
<1> DEFINE R == {n - y : y \in T}
<1>0. \A y \in T : n - y \in Nat
  OBVIOUS
<1>1. R \in SUBSET Nat /\ R # {}
  BY <1>0
<1>2. PICK r \in R : \A y \in R : r <= y
  BY <1>1, LeastOf
<1>3. PICK x \in T : r = n - x
  BY <1>2
<1>4. \A y \in T : x >= y
  <2>1. TAKE y \in T
  <2>2. n - y \in R
    OBVIOUS
  <2>3. r <= n - y
    BY <1>2, <2>2
  <2>4. QED
    BY <1>3, <2>3
<1>5. \E z \in T : \A y \in T : z >= y
  BY <1>4
<1>6. QED
  BY <1>5 DEF Max

-----------------------------------------------------------------------------
(* Texts *)

LEMMA TextFacts ==
  ASSUME NEW s \in Text
  PROVE  Len(s) \in Nat /\ DOMAIN s = 1..Len(s) /\ \A i \in 1..Len(s) : s[i] \in Char
BY LenProperties DEF Text

LEMMA OneChar ==
  ASSUME NEW c \in Char
  PROVE  <<c>> \in Text /\ Len(<<c>>) = 1 /\ <<c>>[1] = c
BY DEF Text

LEMMA CatFacts ==
  ASSUME NEW s \in Text, NEW t \in Text
  PROVE  /\ s \o t \in Text
         /\ Len(s \o t) = Len(s) + Len(t)
         /\ \A i \in 1..Len(s) : (s \o t)[i] = s[i]
         /\ \A i \in 1..Len(t) : (s \o t)[Len(s) + i] = t[i]
<1>1. Len(s) \in Nat /\ Len(t) \in Nat
  BY LenProperties DEF Text
<1>2. \A i \in 1..Len(s) + Len(t) :
        (s \o t)[i] = IF i <= Len(s) THEN s[i] ELSE t[i - Len(s)]
  BY ConcatProperties DEF Text
<1>3. \A i \in 1..Len(t) : Len(s) + i \in 1..Len(s) + Len(t) /\ ~(Len(s) + i <= Len(s))
                             /\ (Len(s) + i) - Len(s) = i
  BY <1>1
<1>4. \A i \in 1..Len(s) : i \in 1..Len(s) + Len(t) /\ i <= Len(s)
  BY <1>1
<1>5. QED
  BY <1>2, <1>3, <1>4, ConcatProperties DEF Text

LEMMA PartFacts ==
  ASSUME NEW s \in Text, NEW m \in Nat, NEW n \in Nat, 1 <= m, n <= Len(s)
  PROVE  /\ SubSeq(s, m, n) \in Text
         /\ m <= n => Len(SubSeq(s, m, n)) = n - m + 1
         /\ m > n => SubSeq(s, m, n) = <<>> /\ Len(SubSeq(s, m, n)) = 0
         /\ \A i \in 1..(n - m + 1) : SubSeq(s, m, n)[i] = s[m + i - 1]
<1>1. \A i \in m..n : s[i] \in Char
  BY LenProperties DEF Text
<1>2. QED
  BY <1>1, SubSeqProperties, SubSeqEmpty DEF Text

LEMMA PrefixFacts ==
  ASSUME NEW s \in Text, NEW n \in Nat, n <= Len(s)
  PROVE  /\ SubSeq(s, 1, n) \in Text /\ Len(SubSeq(s, 1, n)) = n
         /\ \A i \in 1..n : SubSeq(s, 1, n)[i] = s[i]
BY PartFacts

LEMMA SameText ==
  ASSUME NEW s \in Text, NEW t \in Text,
         Len(s) = Len(t), \A i \in 1..Len(s) : s[i] = t[i]
  PROVE  s = t
BY SeqEqual DEF Text

AllBlank(s) == \A i \in 1..Len(s) : s[i] \in Blank

\* Where the text begins and ends but for the blanks around it.
Core(s, a, b) ==
  /\ a \in 1..Len(s) /\ b \in 1..Len(s) /\ a <= b
  /\ s[a] \notin Blank /\ s[b] \notin Blank
  /\ \A i \in 1..Len(s) : i < a \/ i > b => s[i] \in Blank

LEMMA TrimBlank ==
  ASSUME NEW s \in Text, AllBlank(s)
  PROVE  Trim(s) = <<>>
BY TextFacts DEF Trim, AllBlank

LEMMA TrimIs ==
  ASSUME NEW s \in Text, NEW a, NEW b, Core(s, a, b)
  PROVE  Trim(s) = SubSeq(s, a, b)
<1> DEFINE kept == {i \in DOMAIN s : s[i] \notin Blank}
<1>1. kept \in SUBSET (0..Len(s)) /\ kept \in SUBSET Nat /\ a \in kept /\ b \in kept
       /\ Len(s) \in Nat /\ \A i \in kept : a <= i /\ i <= b /\ i \in Nat
  BY TextFacts DEF Core
<1>2. Min(kept) \in kept /\ Min(kept) <= a
  <2>1. kept # {} /\ kept \in SUBSET Nat
    BY <1>1
  <2> HIDE DEF kept
  <2>2. QED
    BY <1>1, <2>1, MinIs
<1>3. Max(kept) \in kept /\ b <= Max(kept)
  <2>1. kept # {} /\ kept \in SUBSET (0..Len(s)) /\ Len(s) \in Nat
    BY <1>1
  <2> HIDE DEF kept
  <2>2. QED
    BY <1>1, <2>1, MaxIs
<1>4. Min(kept) = a /\ Max(kept) = b
  <2> HIDE DEF kept
  <2>1. PICK m \in Nat : m = Min(kept)
    BY <1>1, <1>2
  <2>2. PICK n \in Nat : n = Max(kept)
    BY <1>1, <1>3
  <2>3. a \in Nat /\ b \in Nat /\ m <= a /\ a <= m /\ b <= n /\ n <= b
    BY <1>1, <1>2, <1>3, <2>1, <2>2
  <2>4. m = a /\ n = b
    BY <2>3
  <2>5. QED
    BY <2>1, <2>2, <2>4
<1>5. kept # {}
  BY <1>1
<1>6. QED
  BY <1>4, <1>5 DEF Trim

LEMMA HasCore ==
  ASSUME NEW s \in Text, ~AllBlank(s)
  PROVE  \E a, b \in 1..Len(s) : Core(s, a, b)
<1> DEFINE kept == {i \in 1..Len(s) : s[i] \notin Blank}
<1>1. kept \in SUBSET Nat /\ kept \in SUBSET (0..Len(s)) /\ kept # {} /\ Len(s) \in Nat
  BY TextFacts DEF AllBlank
<1>2. PICK a \in kept : \A y \in kept : a <= y
  BY <1>1, LeastOf
<1>3. Max(kept) \in kept /\ \A y \in kept : y <= Max(kept)
  <2> HIDE DEF kept
  <2>1. QED
    BY <1>1, MaxIs
<1>4. PICK b \in kept : \A y \in kept : y <= b
  BY <1>3
<1>5. Core(s, a, b)
  BY <1>1, <1>2, <1>4 DEF Core
<1>6. QED
  BY <1>5

-----------------------------------------------------------------------------
(* Lines *)

\* A line of the text lies between two ends of line, or the ends of the text.
Line(s, a, e) ==
  /\ a \in 0..Len(s) /\ e \in 1..(Len(s) + 1) /\ a < e
  /\ a = 0 \/ s[a] = "LF"
  /\ e = Len(s) + 1 \/ s[e] = "LF"
  /\ \A i \in (a + 1)..(e - 1) : s[i] # "LF"

LEMMA LinesAre ==
  ASSUME NEW s \in Text
  PROVE  /\ \A a, e \in Nat : Line(s, a, e) => SubSeq(s, a + 1, e - 1) \in Lines(s)
         /\ \A l \in Lines(s) : \E a, e \in Nat : Line(s, a, e) /\ l = SubSeq(s, a + 1, e - 1)
<1> DEFINE end == {i \in DOMAIN s : s[i] = "LF"} \cup {Len(s) + 1}
           upTo(e) == {0} \cup {i \in end : i < e}
<1>1. PICK n \in Nat : n = Len(s) /\ DOMAIN s = 1..n
  BY TextFacts
<1>2. \A e \in end : e \in 1..(n + 1) /\ (e = n + 1 \/ s[e] = "LF")
  BY <1>1
<1>3. \A e : e \in 1..(n + 1) /\ (e = n + 1 \/ s[e] = "LF") => e \in end
  BY <1>1
<1> HIDE DEF end
<1>4. \A e \in end : /\ Max(upTo(e)) \in upTo(e)
                     /\ \A y \in upTo(e) : y <= Max(upTo(e))
  <2>1. TAKE e \in end
  <2>2. upTo(e) \in SUBSET (0..(n + 1)) /\ upTo(e) # {} /\ n + 1 \in Nat
    BY <1>2
  <2> HIDE DEF upTo
  <2>3. QED
    BY <2>2, MaxIs
<1>5. Lines(s) = {SubSeq(s, Max(upTo(e)) + 1, e - 1) : e \in end}
  BY DEF Lines, end
<1>6. ASSUME NEW a \in Nat, NEW e \in Nat, Line(s, a, e)
      PROVE  SubSeq(s, a + 1, e - 1) \in Lines(s)
  <2>1. e \in end
    BY <1>1, <1>3, <1>6 DEF Line
  <2>2. a \in upTo(e)
    BY <1>1, <1>3, <1>6 DEF Line
  <2>3. \A y \in upTo(e) : y \in Nat /\ y <= a
    <3>1. TAKE y \in upTo(e)
    <3>2. CASE y = 0
      BY <3>2
    <3>3. CASE y \in end /\ y < e
      <4>1. y \in 1..n /\ s[y] = "LF"
        BY <1>1, <1>2, <1>6, <3>3 DEF Line
      <4>2. ~(y \in (a + 1)..(e - 1))
        BY <1>6, <4>1 DEF Line
      <4>3. QED
        BY <3>3, <4>1, <4>2, <1>2, <2>1
    <3>4. QED
      BY <3>2, <3>3
  <2>4. Max(upTo(e)) = a
    <3>1. PICK m \in Nat : m = Max(upTo(e)) /\ m \in upTo(e) /\ a <= m /\ m <= a
      BY <1>4, <2>1, <2>2, <2>3
    <3>2. m = a
      BY <3>1
    <3>3. QED
      BY <3>1, <3>2
  <2>5. QED
    BY <1>5, <2>1, <2>4
<1>7. ASSUME NEW l \in Lines(s)
      PROVE  \E a, e \in Nat : Line(s, a, e) /\ l = SubSeq(s, a + 1, e - 1)
  <2>1. PICK e \in end : l = SubSeq(s, Max(upTo(e)) + 1, e - 1)
    BY <1>5
  <2>2. PICK a \in upTo(e) : a = Max(upTo(e)) /\ \A y \in upTo(e) : y <= a
    BY <1>4
  <2>3. a \in Nat /\ e \in Nat /\ a \in 0..n /\ a < e /\ e \in 1..(n + 1)
    BY <1>2, <2>2
  <2>4. a = 0 \/ s[a] = "LF"
    BY <1>2, <2>2, <2>3
  <2>5. \A i \in (a + 1)..(e - 1) : s[i] # "LF"
    <3>1. SUFFICES ASSUME NEW i \in (a + 1)..(e - 1), s[i] = "LF" PROVE FALSE
      OBVIOUS
    <3>2. i \in 1..(n + 1) /\ i < e /\ a < i
      BY <2>3
    <3>3. i \in upTo(e)
      BY <1>3, <3>1, <3>2
    <3>4. QED
      BY <2>2, <2>3, <3>2, <3>3
  <2>6. Line(s, a, e)
    BY <1>1, <1>2, <2>3, <2>4, <2>5 DEF Line
  <2>7. QED
    BY <2>1, <2>2, <2>3, <2>6
<1>8. QED
  BY <1>6, <1>7

\* A text of two parts that an end of line joins.
Joined(s, t) == (s \o <<"LF">>) \o t

LEMMA JoinedFacts ==
  ASSUME NEW s \in Text, NEW t \in Text
  PROVE  /\ Joined(s, t) \in Text
         /\ Len(Joined(s, t)) = Len(s) + 1 + Len(t)
         /\ \A i \in 1..Len(s) : Joined(s, t)[i] = s[i]
         /\ Joined(s, t)[Len(s) + 1] = "LF"
         /\ \A i \in 1..Len(t) : Joined(s, t)[Len(s) + 1 + i] = t[i]
<1>1. PICK f \in Text : f = <<"LF">> /\ Len(f) = 1 /\ f[1] = "LF"
  <2>1. "LF" \in Char
    BY DEF Char
  <2>2. QED
    BY <2>1, OneChar
<1>2. PICK n \in Nat, m \in Nat : n = Len(s) /\ m = Len(t)
  BY TextFacts
<1>3. PICK u \in Text : u = s \o f
  BY CatFacts
<1>4. /\ Len(u) = Len(s) + Len(f)
      /\ \A i \in 1..Len(s) : u[i] = s[i]
      /\ \A i \in 1..Len(f) : u[Len(s) + i] = f[i]
  BY <1>3, CatFacts
<1>5. Len(u) = n + 1 /\ u[n + 1] = f[1] /\ \A i \in 1..n : u[i] = s[i]
  BY <1>1, <1>2, <1>4
<1>6. PICK v \in Text : v = u \o t
  BY CatFacts
<1>7. /\ Len(v) = Len(u) + Len(t)
      /\ \A i \in 1..Len(u) : v[i] = u[i]
      /\ \A i \in 1..Len(t) : v[Len(u) + i] = t[i]
  BY <1>6, CatFacts
<1>8. /\ Len(v) = n + 1 + m
      /\ \A i \in 1..(n + 1) : v[i] = u[i]
      /\ \A i \in 1..m : v[n + 1 + i] = t[i]
  BY <1>2, <1>5, <1>7
<1>9. v = Joined(s, t)
  BY <1>1, <1>3, <1>6 DEF Joined
<1>10. v[n + 1] = "LF" /\ \A i \in 1..n : v[i] = s[i]
  BY <1>1, <1>5, <1>8
<1>11. QED
  BY <1>2, <1>8, <1>9, <1>10

\* The same characters are the same part of a text.
LEMMA SamePart ==
  ASSUME NEW s \in Text, NEW t \in Text, NEW m \in Nat, NEW n \in Nat, NEW d \in Nat,
         1 <= m, n <= Len(s), n + d <= Len(t),
         \A i \in m..n : s[i] = t[i + d]
  PROVE  SubSeq(s, m, n) = SubSeq(t, m + d, n + d)
<1>1. CASE m > n
  <2>1. n + d < m + d /\ m + d \in Int /\ n + d \in Int
    BY <1>1
  <2>2. QED
    BY <1>1, <2>1, SubSeqEmpty
<1>2. CASE m <= n
  <2>1. m + d \in Nat /\ n + d \in Nat /\ 1 <= m + d /\ m + d <= n + d
         /\ (n + d) - (m + d) + 1 = n - m + 1 /\ n - m + 1 \in Nat
    BY <1>2
  <2>2. /\ SubSeq(s, m, n) \in Text /\ Len(SubSeq(s, m, n)) = n - m + 1
        /\ \A i \in 1..(n - m + 1) : SubSeq(s, m, n)[i] = s[m + i - 1]
    BY <1>2, PartFacts
  <2>3. /\ SubSeq(t, m + d, n + d) \in Text
        /\ Len(SubSeq(t, m + d, n + d)) = n - m + 1
        /\ \A i \in 1..(n - m + 1) : SubSeq(t, m + d, n + d)[i] = t[m + d + i - 1]
    BY <2>1, PartFacts
  <2>4. \A i \in 1..(n - m + 1) : m + i - 1 \in m..n /\ m + d + i - 1 = (m + i - 1) + d
    BY <1>2
  <2>5. \A i \in 1..(n - m + 1) : SubSeq(s, m, n)[i] = SubSeq(t, m + d, n + d)[i]
    BY <2>2, <2>3, <2>4
  <2>6. QED
    BY <2>2, <2>3, <2>5, SameText
<1>3. QED
  BY <1>1, <1>2

\* The lines of the whole are the lines of its parts.
LEMMA LinesOfJoined ==
  ASSUME NEW s \in Text, NEW t \in Text
  PROVE  Lines(Joined(s, t)) = Lines(s) \cup Lines(t)
<1> DEFINE u == Joined(s, t)
<1>1. PICK n \in Nat, m \in Nat : n = Len(s) /\ m = Len(t)
  BY TextFacts
<1>2. /\ u \in Text /\ Len(u) = n + 1 + m /\ u[n + 1] = "LF"
      /\ \A i \in 1..n : u[i] = s[i]
      /\ \A i \in 1..m : u[n + 1 + i] = t[i]
  BY <1>1, JoinedFacts
<1> HIDE DEF u
<1>3. ASSUME NEW a \in Nat, NEW e \in Nat, e <= n + 1
      PROVE  /\ Line(u, a, e) <=> Line(s, a, e)
             /\ Line(s, a, e) => SubSeq(s, a + 1, e - 1) = SubSeq(u, a + 1, e - 1)
  <2>1. Line(u, a, e) <=> Line(s, a, e)
    BY <1>1, <1>2, <1>3 DEF Line
  <2>2. ASSUME Line(s, a, e)
        PROVE  SubSeq(s, a + 1, e - 1) = SubSeq(u, a + 1, e - 1)
    <3>1. a + 1 \in Nat /\ e - 1 \in Nat /\ 1 <= a + 1 /\ e - 1 <= n /\ e - 1 + 0 <= n + 1 + m
           /\ (a + 1) + 0 = a + 1 /\ (e - 1) + 0 = e - 1
      BY <1>1, <1>3, <2>2 DEF Line
    <3>2. \A i \in (a + 1)..(e - 1) : s[i] = u[i + 0]
      BY <1>2, <3>1
    <3>3. QED
      BY <1>1, <1>2, <3>1, <3>2, SamePart
  <2>3. QED
    BY <2>1, <2>2
<1>4. ASSUME NEW a \in Nat, NEW e \in Nat
      PROVE  /\ Line(u, a + n + 1, e + n + 1) <=> Line(t, a, e)
             /\ Line(t, a, e)
                  => SubSeq(t, a + 1, e - 1) = SubSeq(u, a + n + 1 + 1, e + n + 1 - 1)
  <2>1. \A i \in 1..m : u[i + n + 1] = t[i]
    BY <1>2
  <2>2. Line(t, a, e) => Line(u, a + n + 1, e + n + 1)
    <3>1. SUFFICES ASSUME Line(t, a, e) PROVE Line(u, a + n + 1, e + n + 1)
      OBVIOUS
    <3>2. a + n + 1 \in 0..(n + 1 + m) /\ e + n + 1 \in 1..(n + 1 + m + 1)
           /\ a + n + 1 < e + n + 1
      BY <1>1, <3>1 DEF Line
    <3>3. u[a + n + 1] = "LF"
      BY <1>1, <1>2, <2>1, <3>1 DEF Line
    <3>4. e + n + 1 = n + 1 + m + 1 \/ u[e + n + 1] = "LF"
      BY <1>1, <1>2, <2>1, <3>1 DEF Line
    <3>5. ASSUME NEW i \in (a + n + 1 + 1)..(e + n + 1 - 1) PROVE u[i] # "LF"
      <4>1. i - n - 1 \in (a + 1)..(e - 1) /\ i - n - 1 \in 1..m
              /\ (i - n - 1) + n + 1 = i
        BY <1>1, <3>1, <3>5 DEF Line
      <4>2. QED
        BY <2>1, <3>1, <4>1 DEF Line
    <3>6. QED
      BY <1>2, <3>2, <3>3, <3>4, <3>5 DEF Line
  <2>3. Line(u, a + n + 1, e + n + 1) => Line(t, a, e)
    <3>1. SUFFICES ASSUME Line(u, a + n + 1, e + n + 1) PROVE Line(t, a, e)
      OBVIOUS
    <3>2. a \in 0..m /\ e \in 1..(m + 1) /\ a < e
      BY <1>2, <3>1 DEF Line
    <3>3. a = 0 \/ t[a] = "LF"
      BY <1>2, <2>1, <3>1, <3>2 DEF Line
    <3>4. e = m + 1 \/ t[e] = "LF"
      BY <1>2, <2>1, <3>1, <3>2 DEF Line
    <3>5. ASSUME NEW i \in (a + 1)..(e - 1) PROVE t[i] # "LF"
      <4>1. i + n + 1 \in (a + n + 1 + 1)..(e + n + 1 - 1) /\ i \in 1..m
        BY <3>2, <3>5
      <4>2. QED
        BY <2>1, <3>1, <4>1 DEF Line
    <3>6. QED
      BY <1>1, <3>2, <3>3, <3>4, <3>5 DEF Line
  <2>4. ASSUME Line(t, a, e)
        PROVE  SubSeq(t, a + 1, e - 1) = SubSeq(u, a + n + 1 + 1, e + n + 1 - 1)
    <3>1. a + 1 \in Nat /\ e - 1 \in Nat /\ 1 <= a + 1 /\ e - 1 <= m
           /\ (e - 1) + (n + 1) <= n + 1 + m /\ n + 1 \in Nat
           /\ (a + 1) + (n + 1) = a + n + 1 + 1 /\ (e - 1) + (n + 1) = e + n + 1 - 1
      BY <1>1, <2>4 DEF Line
    <3>2. \A i \in (a + 1)..(e - 1) : t[i] = u[i + (n + 1)]
      BY <2>1, <3>1
    <3>3. SubSeq(t, a + 1, e - 1) = SubSeq(u, (a + 1) + (n + 1), (e - 1) + (n + 1))
      <4>1. e - 1 <= Len(t) /\ (e - 1) + (n + 1) <= Len(u)
        BY <1>1, <1>2, <3>1
      <4>2. QED
        BY <1>2, <3>1, <3>2, <4>1, SamePart
    <3>4. QED
      BY <3>1, <3>3
  <2>5. QED
    BY <2>2, <2>3, <2>4
<1>5. ASSUME NEW l \in Lines(s) PROVE l \in Lines(u)
  <2>1. PICK a \in Nat, e \in Nat : Line(s, a, e) /\ l = SubSeq(s, a + 1, e - 1)
    BY LinesAre
  <2>2. e <= n + 1
    BY <1>1, <2>1 DEF Line
  <2>3. QED
    BY <1>2, <1>3, <2>1, <2>2, LinesAre
<1>6. ASSUME NEW l \in Lines(t) PROVE l \in Lines(u)
  <2>1. PICK a \in Nat, e \in Nat : Line(t, a, e) /\ l = SubSeq(t, a + 1, e - 1)
    BY LinesAre
  <2>2. Line(u, a + n + 1, e + n + 1) /\ l = SubSeq(u, a + n + 1 + 1, e + n + 1 - 1)
    BY <1>4, <2>1
  <2>3. a + n + 1 \in Nat /\ e + n + 1 \in Nat
    OBVIOUS
  <2>4. QED
    BY <1>2, <2>2, <2>3, LinesAre
<1>7. ASSUME NEW l \in Lines(u) PROVE l \in Lines(s) \cup Lines(t)
  <2>1. PICK a \in Nat, e \in Nat : Line(u, a, e) /\ l = SubSeq(u, a + 1, e - 1)
    BY <1>2, LinesAre
  <2>2. CASE e <= n + 1
    BY <1>3, <2>1, <2>2, LinesAre
  <2>3. CASE e > n + 1
    <3>1. a >= n + 1
      <4>1. ~(n + 1 \in (a + 1)..(e - 1))
        BY <1>2, <2>1 DEF Line
      <4>2. QED
        BY <2>3, <4>1
    <3>2. PICK b \in Nat, f \in Nat : a = b + n + 1 /\ e = f + n + 1
      <4>1. a - n - 1 \in Nat /\ e - n - 1 \in Nat
             /\ a = (a - n - 1) + n + 1 /\ e = (e - n - 1) + n + 1
        BY <2>3, <3>1
      <4>2. QED
        BY <4>1
    <3>3. Line(t, b, f) /\ l = SubSeq(t, b + 1, f - 1)
      <4>1. Line(u, b + n + 1, f + n + 1) /\ l = SubSeq(u, b + n + 1 + 1, f + n + 1 - 1)
        BY <2>1, <3>2
      <4>2. QED
        BY <1>4, <4>1
    <3>4. QED
      BY <3>3, LinesAre
  <2>4. QED
    BY <2>2, <2>3
<1>8. QED
  BY <1>5, <1>6, <1>7 DEF u

\* A line is a text, of characters that the whole text has.
LEMMA LinesFrom ==
  ASSUME NEW s \in Text, NEW l \in Lines(s)
  PROVE  l \in Text /\ \A i \in 1..Len(l) : \E j \in 1..Len(s) : l[i] = s[j]
<1>1. PICK a \in Nat, e \in Nat : Line(s, a, e) /\ l = SubSeq(s, a + 1, e - 1)
  BY LinesAre
<1>2. PICK n \in Nat : n = Len(s)
  BY TextFacts
<1>3. a + 1 \in Nat /\ e - 1 \in Nat /\ 1 <= a + 1 /\ e - 1 <= n
       /\ (e - 1) - (a + 1) + 1 = e - a - 1 /\ e - a - 1 \in Nat
  BY <1>1, <1>2 DEF Line
<1>4. /\ l \in Text
      /\ a + 1 <= e - 1 => Len(l) = (e - 1) - (a + 1) + 1
      /\ a + 1 > e - 1 => Len(l) = 0
      /\ \A i \in 1..((e - 1) - (a + 1) + 1) : l[i] = s[(a + 1) + i - 1]
  BY <1>1, <1>2, <1>3, PartFacts
<1>5. ASSUME NEW i \in 1..Len(l) PROVE \E j \in 1..n : l[i] = s[j]
  <2>1. i \in 1..((e - 1) - (a + 1) + 1)
    BY <1>3, <1>4, <1>5
  <2>2. (a + 1) + i - 1 \in 1..n
    BY <1>3, <2>1
  <2>3. QED
    BY <1>4, <2>1, <2>2
<1>6. QED
  BY <1>2, <1>4, <1>5

LEMMA PairsOfJoined ==
  ASSUME NEW s \in Text, NEW t \in Text
  PROVE  Pairs(Joined(s, t)) = Pairs(s) \cup Pairs(t)
BY LinesOfJoined DEF Pairs

\* Blank lines do not count.
LEMMA PairsOfBlanks ==
  ASSUME NEW s \in Text, AllBlank(s)
  PROVE  Pairs(s) = {}
<1>1. ASSUME NEW l \in Lines(s) PROVE Trim(l) = <<>>
  <2>1. l \in Text /\ AllBlank(l)
    BY LinesFrom DEF AllBlank
  <2>2. QED
    BY <2>1, TrimBlank
<1>2. QED
  BY <1>1 DEF Pairs

\* A text without an end of line is one line.
LEMMA PairsOfLine ==
  ASSUME NEW s \in Text, ~AllBlank(s), \A i \in 1..Len(s) : s[i] # "LF"
  PROVE  Pairs(s) = {Pair(Trim(s))}
<1>1. PICK n \in Nat : n = Len(s)
  BY TextFacts
<1>2. SubSeq(s, 1, n) = s
  BY <1>1, SubSeqFull DEF Text
<1>3. ASSUME NEW a \in Nat, NEW e \in Nat, Line(s, a, e) PROVE a = 0 /\ e = n + 1
  BY <1>1, <1>3 DEF Line
<1>4. Line(s, 0, n + 1)
  BY <1>1 DEF Line
<1>5. 0 + 1 = 1 /\ n + 1 - 1 = n /\ 0 \in Nat /\ n + 1 \in Nat
  OBVIOUS
<1>6. s \in Lines(s)
  <2>1. \A l : l \in Lines(s) <=>
          \E a, e \in Nat : Line(s, a, e) /\ l = SubSeq(s, a + 1, e - 1)
    BY LinesAre
  <2>2. s = SubSeq(s, 0 + 1, (n + 1) - 1)
    BY <1>2, <1>5
  <2>3. \E a, e \in Nat : Line(s, a, e) /\ s = SubSeq(s, a + 1, e - 1)
    BY <1>4, <1>5, <2>2, Zenon
  <2>4. QED
    BY <2>1, <2>3, Zenon
<1>7. ASSUME NEW l \in Lines(s) PROVE l = s
  <2>1. PICK a \in Nat, e \in Nat : Line(s, a, e) /\ l = SubSeq(s, a + 1, e - 1)
    BY LinesAre
  <2>2. a = 0 /\ e = n + 1
    BY <1>3, <2>1
  <2>3. QED
    BY <1>2, <1>5, <2>1, <2>2
<1>8. Trim(s) # <<>>
  <2>1. PICK a \in 1..n, b \in 1..n : Core(s, a, b)
    BY <1>1, HasCore
  <2>2. Trim(s) = SubSeq(s, a, b) /\ a <= b
    BY <2>1, TrimIs DEF Core
  <2>3. a \in Nat /\ b \in Nat /\ 1 <= a /\ b <= Len(s) /\ b - a + 1 # 0
    BY <1>1, <2>1, <2>2
  <2>4. Len(SubSeq(s, a, b)) = b - a + 1
    BY <2>2, <2>3, PartFacts
  <2>5. Len(<<>>) = 0
    OBVIOUS
  <2>6. QED
    BY <2>2, <2>3, <2>4, <2>5
<1>9. Lines(s) = {s}
  BY <1>6, <1>7
<1>10. QED
  BY <1>8, <1>9 DEF Pairs

\* What is written before a value.
KeyText(k) == <<k, "SP", "=", "SP">>

LEMMA KeyTextFacts ==
  ASSUME NEW k \in Char
  PROVE  /\ KeyText(k) \in Text /\ Len(KeyText(k)) = 4
         /\ KeyText(k)[1] = k /\ KeyText(k)[2] = "SP" /\ KeyText(k)[3] = "="
         /\ KeyText(k)[4] = "SP"
<1>1. "SP" \in Char /\ "=" \in Char
  BY DEF Char
<1>2. QED
  BY <1>1 DEF KeyText, Text

LEMMA KeyedFacts ==
  ASSUME NEW k \in Char, NEW v \in Text, NEW n \in Nat, n = Len(v)
  PROVE  /\ KeyText(k) \o v \in Text
         /\ Len(KeyText(k) \o v) = 4 + n
         /\ (KeyText(k) \o v)[1] = k /\ (KeyText(k) \o v)[2] = "SP"
         /\ (KeyText(k) \o v)[3] = "=" /\ (KeyText(k) \o v)[4] = "SP"
         /\ \A i \in 1..n : (KeyText(k) \o v)[4 + i] = v[i]
<1>1. PICK t \in Text : /\ t = KeyText(k) /\ Len(t) = 4
                        /\ t[1] = k /\ t[2] = "SP" /\ t[3] = "=" /\ t[4] = "SP"
  BY KeyTextFacts
<1>2. PICK w \in Text : w = t \o v
  BY CatFacts
<1>3. /\ Len(w) = Len(t) + Len(v)
      /\ \A i \in 1..Len(t) : w[i] = t[i]
      /\ \A i \in 1..Len(v) : w[Len(t) + i] = v[i]
  BY <1>2, CatFacts
<1>4. /\ Len(w) = 4 + n /\ \A i \in 1..4 : w[i] = t[i]
      /\ \A i \in 1..n : w[4 + i] = v[i]
  BY <1>1, <1>3
<1>5. w[1] = k /\ w[2] = "SP" /\ w[3] = "=" /\ w[4] = "SP"
  BY <1>1, <1>4
<1>6. QED
  BY <1>1, <1>2, <1>4, <1>5

\* What the helper takes from the line of an entry.
LEMMA PairOfKeyed ==
  ASSUME NEW k \in Char, k \notin Blank, k # "=", NEW v \in Text
  PROVE  /\ ~AllBlank(KeyText(k) \o v)
         /\ Pair(Trim(KeyText(k) \o v)) = <<<<k>>, Trim(v)>>
<1>1. PICK n \in Nat : n = Len(v)
  BY TextFacts
<1>2. PICK w \in Text :
        /\ w = KeyText(k) \o v /\ Len(w) = 4 + n
        /\ w[1] = k /\ w[2] = "SP" /\ w[3] = "=" /\ w[4] = "SP"
        /\ \A i \in 1..n : w[4 + i] = v[i]
  <2> DEFINE w == KeyText(k) \o v
  <2>1. /\ w \in Text /\ Len(w) = 4 + n
        /\ w[1] = k /\ w[2] = "SP" /\ w[3] = "=" /\ w[4] = "SP"
        /\ \A i \in 1..n : w[4 + i] = v[i]
    BY <1>1, KeyedFacts
  <2>2. QED
    BY <2>1, Zenon
<1>3. ~AllBlank(w)
  <2>1. 1 \in 1..Len(w)
    BY <1>2
  <2>2. QED
    BY <1>2, <2>1 DEF AllBlank
<1>4. "=" \notin Blank /\ "SP" \in Blank
  BY DEF Blank
<1>5. \A i \in 5..(4 + n) : w[i] = v[i - 4] /\ i - 4 \in 1..n
  <2>1. TAKE i \in 5..(4 + n)
  <2>2. i - 4 \in 1..n /\ 4 + (i - 4) = i
    OBVIOUS
  <2>3. QED
    BY <1>2, <2>2
<1>6. ASSUME NEW b \in Nat, 3 <= b, b <= 4 + n, Core(w, 1, b)
      PROVE  Pair(Trim(w)) = <<<<k>>, Trim(SubSeq(SubSeq(w, 1, b), 4, b))>>
  <2>1. PICK x \in Text : /\ x = SubSeq(w, 1, b) /\ Len(x) = b
                          /\ \A i \in 1..b : x[i] = w[i]
    <3>1. b <= Len(w)
      BY <1>2, <1>6
    <3>2. QED
      BY <3>1, PrefixFacts
  <2>2. Trim(w) = x
    <3>1. Trim(w) = SubSeq(w, 1, b)
      BY <1>6, TrimIs, Zenon
    <3>2. QED
      BY <2>1, <3>1
  <2>3. x[1] = k /\ x[2] = "SP" /\ x[3] = "="
    BY <1>2, <1>6, <2>1
  <2> DEFINE eq == {i \in DOMAIN x : x[i] = "="}
  <2>4. DOMAIN x = 1..b /\ eq \in SUBSET Nat /\ 3 \in eq
    BY <1>6, <2>1, <2>3, TextFacts
  <2>5. \A i \in eq : i \in Nat /\ i # 0 /\ i # 1 /\ i # 2
    BY <1>4, <2>3, <2>4
  <2>6. Min(eq) = 3
    <3> HIDE DEF eq
    <3>1. eq \in SUBSET Nat /\ eq # {}
      BY <2>4
    <3>2. PICK m \in Nat : m = Min(eq) /\ m \in eq /\ m <= 3
      BY <2>4, <3>1, MinIs
    <3>3. m = 3
      BY <2>5, <3>2
    <3>4. QED
      BY <3>2, <3>3
  <2>7. Pair(x) = <<Trim(SubSeq(x, 1, 3 - 1)), Trim(SubSeq(x, 3 + 1, Len(x)))>>
    BY <2>4, <2>6 DEF Pair
  <2>8. Trim(SubSeq(x, 1, 2)) = <<k>>
    <3>1. PICK y \in Text : y = SubSeq(x, 1, 2) /\ Len(y) = 2 /\ y[1] = k /\ y[2] = "SP"
      <4>1. /\ SubSeq(x, 1, 2) \in Text /\ Len(SubSeq(x, 1, 2)) = 2
            /\ \A i \in 1..2 : SubSeq(x, 1, 2)[i] = x[i]
        <5>1. 2 <= Len(x) /\ 2 \in Nat
          BY <1>6, <2>1
        <5>2. QED
          BY <5>1, PrefixFacts, Zenon
      <4>2. 1 \in 1..2 /\ 2 \in 1..2
        OBVIOUS
      <4>3. QED
        BY <2>3, <4>1, <4>2
    <3>2. Core(y, 1, 1)
      BY <1>4, <3>1 DEF Core
    <3>3. Trim(y) = SubSeq(y, 1, 1)
      BY <3>2, TrimIs
    <3>4. SubSeq(y, 1, 1) = <<k>>
      <4>1. /\ SubSeq(y, 1, 1) \in Text /\ Len(SubSeq(y, 1, 1)) = 1
            /\ \A i \in 1..1 : SubSeq(y, 1, 1)[i] = y[i]
        <5>1. 1 <= Len(y) /\ 1 \in Nat
          BY <3>1
        <5>2. QED
          BY <5>1, PrefixFacts, Zenon
      <4>2. Len(SubSeq(y, 1, 1)) = 1 /\ SubSeq(y, 1, 1)[1] = k
        BY <3>1, <4>1
      <4>3. <<k>> \in Text /\ Len(<<k>>) = 1 /\ <<k>>[1] = k
        BY OneChar
      <4>4. \A i \in 1..1 : SubSeq(y, 1, 1)[i] = <<k>>[i]
        BY <4>2, <4>3
      <4>5. QED
        BY <4>1, <4>2, <4>3, <4>4, SameText
    <3>5. QED
      BY <3>1, <3>3, <3>4
  <2>9. QED
    BY <2>1, <2>2, <2>7, <2>8
<1>7. CASE AllBlank(v)
  <2>1. Core(w, 1, 3)
    <3>1. \A i \in 1..(4 + n) : i > 3 => w[i] \in Blank
      BY <1>1, <1>2, <1>4, <1>5, <1>7 DEF AllBlank
    <3>2. QED
      BY <1>2, <1>4, <3>1 DEF Core
  <2>2. SubSeq(SubSeq(w, 1, 3), 4, 3) = <<>>
    BY SubSeqEmpty
  <2>3. <<>> \in Text /\ AllBlank(<<>>)
    BY DEF Text, AllBlank
  <2>4. Trim(v) = <<>> /\ Trim(<<>>) = <<>>
    BY <1>7, <2>3, TrimBlank
  <2>5. 3 \in Nat /\ 3 <= 3 /\ 3 <= 4 + n
    OBVIOUS
  <2>6. Pair(Trim(w)) = <<<<k>>, Trim(SubSeq(SubSeq(w, 1, 3), 4, 3))>>
    BY <1>6, <2>1, <2>5, Zenon
  <2>7. QED
    BY <1>2, <1>3, <2>2, <2>4, <2>6, Zenon
<1>8. CASE ~AllBlank(v)
  <2>1. PICK c \in 1..n, d \in 1..n : Core(v, c, d)
    BY <1>1, <1>8, HasCore
  <2>2. c \in Nat /\ d \in Nat /\ 1 <= c /\ c <= d /\ d <= n /\ v[c] \notin Blank
         /\ v[d] \notin Blank /\ \A i \in 1..n : i < c \/ i > d => v[i] \in Blank
    BY <1>1, <2>1 DEF Core
  <2>3. PICK b \in Nat : b = 4 + d
    BY <2>2
  <2>4. Core(w, 1, b)
    <3>1. \A i \in 1..(4 + n) : i > b => w[i] \in Blank
      BY <1>5, <2>2, <2>3
    <3>2. w[b] \notin Blank
      BY <1>2, <2>2, <2>3
    <3>3. QED
      BY <1>2, <2>2, <2>3, <3>1, <3>2 DEF Core
  <2>5. PICK x \in Text : /\ x = SubSeq(w, 1, b) /\ Len(x) = b
                          /\ \A i \in 1..b : x[i] = w[i]
    <3>1. b <= Len(w)
      BY <1>2, <2>2, <2>3
    <3>2. QED
      BY <3>1, PrefixFacts
  <2>6. PICK z \in Text : /\ z = SubSeq(x, 4, b) /\ Len(z) = d + 1
                          /\ \A i \in 1..(d + 1) : z[i] = x[4 + i - 1]
    <3>1. b - 4 + 1 = d + 1 /\ 4 \in Nat /\ 4 <= b /\ 1 <= 4 /\ b <= Len(x)
      BY <2>2, <2>3, <2>5
    <3>2. /\ SubSeq(x, 4, b) \in Text /\ Len(SubSeq(x, 4, b)) = b - 4 + 1
          /\ \A i \in 1..(b - 4 + 1) : SubSeq(x, 4, b)[i] = x[4 + i - 1]
      BY <3>1, PartFacts, Zenon
    <3>3. QED
      BY <3>1, <3>2
  <2>7. z[1] = "SP" /\ \A i \in 1..d : z[i + 1] = v[i]
    <3>1. z[1] = w[4]
      BY <2>2, <2>3, <2>5, <2>6
    <3>2. ASSUME NEW i \in 1..d PROVE z[i + 1] = v[i]
      <4>1. i + 1 \in 1..(d + 1) /\ 4 + (i + 1) - 1 = 4 + i /\ 4 + i \in 1..b
             /\ i \in 1..n
        BY <2>2, <2>3
      <4>2. z[i + 1] = x[4 + i] /\ x[4 + i] = w[4 + i] /\ w[4 + i] = v[i]
        BY <1>2, <2>5, <2>6, <4>1
      <4>3. QED
        BY <4>2
    <3>3. QED
      BY <1>2, <3>1, <3>2
  <2>8. Core(z, c + 1, d + 1)
    <3>1. c + 1 \in 1..(d + 1) /\ d + 1 \in 1..(d + 1) /\ c + 1 <= d + 1
      BY <2>2
    <3>2. z[c + 1] \notin Blank /\ z[d + 1] \notin Blank
      BY <2>2, <2>7
    <3>3. ASSUME NEW i \in 1..(d + 1), i < c + 1 PROVE z[i] \in Blank
      <4>1. CASE i = 1
        BY <1>4, <2>7, <4>1
      <4>2. CASE i # 1
        <5>1. i - 1 \in 1..d /\ (i - 1) + 1 = i /\ i - 1 < c /\ i - 1 \in 1..n
          BY <2>2, <3>3, <4>2
        <5>2. z[i] = v[i - 1]
          BY <2>7, <5>1
        <5>3. QED
          BY <2>2, <5>1, <5>2
      <4>3. QED
        BY <4>1, <4>2
    <3>4. \A i \in 1..(d + 1) : ~(i > d + 1)
      BY <2>2
    <3>5. QED
      BY <2>6, <3>1, <3>2, <3>3, <3>4 DEF Core
  <2>9. Trim(z) = SubSeq(z, c + 1, d + 1)
    BY <2>8, TrimIs
  <2>10. SubSeq(v, c, d) = SubSeq(z, c + 1, d + 1)
    <3>1. d <= Len(v) /\ d + 1 <= Len(z) /\ 1 \in Nat /\ \A i \in c..d : v[i] = z[i + 1]
      BY <1>1, <2>2, <2>6, <2>7
    <3>2. QED
      BY <2>2, <3>1, SamePart
  <2>11. Trim(v) = SubSeq(v, c, d)
    BY <2>1, TrimIs
  <2>12. 3 <= b /\ b <= 4 + n
    BY <2>2, <2>3
  <2>13. Pair(Trim(w)) = <<<<k>>, Trim(SubSeq(SubSeq(w, 1, b), 4, b))>>
    BY <1>6, <2>4, <2>12, Zenon
  <2>14. Trim(SubSeq(SubSeq(w, 1, b), 4, b)) = Trim(v)
    BY <2>5, <2>6, <2>9, <2>10, <2>11, Zenon
  <2>15. QED
    BY <1>2, <1>3, <2>13, <2>14, Zenon
<1>9. QED
  BY <1>7, <1>8

-----------------------------------------------------------------------------
(* Texts of whole lines *)

Ended(s) == s = <<>> \/ \E c \in Text : s = c \o <<"LF">>

LEMMA EmptyText ==
  /\ <<>> \in Text /\ Len(<<>>) = 0 /\ AllBlank(<<>>)
  /\ Trim(<<>>) = <<>> /\ Pairs(<<>>) = {}
<1>1. <<>> \in Text /\ Len(<<>>) = 0
  BY DEF Text
<1>2. AllBlank(<<>>)
  BY <1>1 DEF AllBlank
<1>3. QED
  BY <1>1, <1>2, TrimBlank, PairsOfBlanks

\* \o of texts, as the library has it of sequences.
LEMMA CatLaws ==
  /\ \A s, t, u \in Text : (s \o t) \o u = s \o (t \o u)
  /\ \A s \in Text : s \o <<>> = s /\ <<>> \o s = s
  /\ <<"LF">> \in Text
<1>1. "LF" \in Char
  BY DEF Char
<1>2. <<"LF">> \in Text
  BY <1>1, OneChar
<1>3. QED
  BY <1>2, ConcatAssociative, ConcatEmptySeq DEF Text

LEMMA PairsOfEnded ==
  ASSUME NEW c \in Text
  PROVE  c \o <<"LF">> \in Text /\ Pairs(c \o <<"LF">>) = Pairs(c)
<1>1. Joined(c, <<>>) = c \o <<"LF">> /\ c \o <<"LF">> \in Text
  BY CatFacts, CatLaws DEF Joined
<1>2. Pairs(Joined(c, <<>>)) = Pairs(c) \cup Pairs(<<>>)
  BY EmptyText, PairsOfJoined, Zenon
<1>3. QED
  BY <1>1, <1>2, EmptyText

\* A text of whole lines before another adds its pairs.
LEMMA PairsCat ==
  ASSUME NEW s \in Text, NEW t \in Text, Ended(s)
  PROVE  Pairs(s \o t) = Pairs(s) \cup Pairs(t)
<1>1. CASE s = <<>>
  BY <1>1, EmptyText, CatLaws
<1>2. ASSUME NEW c \in Text, s = c \o <<"LF">> PROVE Pairs(s \o t) = Pairs(s) \cup Pairs(t)
  <2>1. s \o t = Joined(c, t)
    BY <1>2 DEF Joined
  <2>2. Pairs(Joined(c, t)) = Pairs(c) \cup Pairs(t)
    BY PairsOfJoined
  <2>3. Pairs(s) = Pairs(c)
    BY <1>2, PairsOfEnded
  <2>4. QED
    BY <2>1, <2>2, <2>3
<1>3. QED
  BY <1>1, <1>2 DEF Ended

LEMMA EndedCat ==
  ASSUME NEW s \in Text, NEW t \in Text, Ended(s), Ended(t)
  PROVE  s \o t \in Text /\ Ended(s \o t)
<1>1. s \o t \in Text
  BY CatFacts
<1>2. CASE t = <<>>
  BY <1>1, <1>2, CatLaws
<1>3. ASSUME NEW c \in Text, t = c \o <<"LF">> PROVE Ended(s \o t)
  <2>1. s \o c \in Text
    BY CatFacts
  <2>2. s \o t = (s \o c) \o <<"LF">>
    BY <1>3, CatLaws
  <2>3. QED
    BY <2>1, <2>2 DEF Ended
<1>4. QED
  BY <1>1, <1>2, <1>3 DEF Ended

\* One entry more.
LEMMA PairsMore ==
  ASSUME NEW s \in Text, Ended(s), NEW t \in Text, Ended(t)
  PROVE  /\ s \o t \in Text /\ Ended(s \o t)
         /\ Pairs(s \o t) = Pairs(s) \cup Pairs(t)
BY EndedCat, PairsCat

LEMMA EntryFacts ==
  ASSUME NEW k \in Char, NEW v \in Text
  PROVE  /\ Entry(k, v) \in Text /\ Ended(Entry(k, v))
         /\ Pairs(Entry(k, v)) = Pairs(KeyText(k) \o v)
<1>1. KeyText(k) \o v \in Text
  BY KeyTextFacts, CatFacts
<1>2. Entry(k, v) = (KeyText(k) \o v) \o <<"LF">>
  BY DEF Entry, KeyText
<1>3. QED
  BY <1>1, <1>2, PairsOfEnded DEF Ended

\* An entry whose value is of one line is one pair.
LEMMA PairsOfEntry ==
  ASSUME NEW k \in Char, k \notin Blank, k # "=", NEW v \in Text,
         \A i \in 1..Len(v) : v[i] # "LF"
  PROVE  Pairs(Entry(k, v)) = {<<<<k>>, Trim(v)>>}
<1>1. PICK n \in Nat : n = Len(v)
  BY TextFacts
<1>2. PICK w \in Text :
        /\ w = KeyText(k) \o v /\ Len(w) = 4 + n
        /\ w[1] = k /\ w[2] = "SP" /\ w[3] = "=" /\ w[4] = "SP"
        /\ \A i \in 1..n : w[4 + i] = v[i]
  <2> DEFINE w == KeyText(k) \o v
  <2>1. /\ w \in Text /\ Len(w) = 4 + n
        /\ w[1] = k /\ w[2] = "SP" /\ w[3] = "=" /\ w[4] = "SP"
        /\ \A i \in 1..n : w[4 + i] = v[i]
    BY <1>1, KeyedFacts
  <2>2. QED
    BY <2>1, Zenon
<1>3. k # "LF"
  BY DEF Blank
<1>4. ASSUME NEW i \in 1..Len(w) PROVE w[i] # "LF"
  <2>1. CASE i \in {1, 2, 3, 4}
    BY <1>2, <1>3, <2>1
  <2>2. CASE i \notin {1, 2, 3, 4}
    <3>1. i - 4 \in 1..n /\ 4 + (i - 4) = i
      BY <1>2, <2>2
    <3>2. w[i] = v[i - 4]
      BY <1>2, <3>1
    <3>3. QED
      BY <1>1, <3>1, <3>2
  <2>3. QED
    BY <2>1, <2>2
<1>5. ~AllBlank(w) /\ Pair(Trim(w)) = <<<<k>>, Trim(v)>>
  BY <1>2, PairOfKeyed
<1>6. Pairs(w) = {<<<<k>>, Trim(v)>>}
  BY <1>4, <1>5, PairsOfLine
<1>7. QED
  BY <1>2, <1>6, EntryFacts

-----------------------------------------------------------------------------
(* What trimming leaves *)

\* A text is all blanks, or it has a core.
LEMMA TrimCases ==
  ASSUME NEW s \in Text
  PROVE  \/ AllBlank(s) /\ Trim(s) = <<>>
         \/ \E a, b \in 1..Len(s) :
              /\ Core(s, a, b) /\ Trim(s) \in Text /\ Len(Trim(s)) = b - a + 1
              /\ \A i \in 1..(b - a + 1) : Trim(s)[i] = s[a + i - 1]
<1>1. CASE AllBlank(s)
  BY <1>1, TrimBlank
<1>2. CASE ~AllBlank(s)
  <2>1. PICK n \in Nat : n = Len(s)
    BY TextFacts
  <2>2. PICK a \in 1..n, b \in 1..n : Core(s, a, b)
    BY <1>2, <2>1, HasCore
  <2>3. a \in Nat /\ b \in Nat /\ 1 <= a /\ b <= Len(s) /\ a <= b
    BY <2>1, <2>2 DEF Core
  <2>4. /\ SubSeq(s, a, b) \in Text
        /\ Len(SubSeq(s, a, b)) = b - a + 1
        /\ \A i \in 1..(b - a + 1) : SubSeq(s, a, b)[i] = s[a + i - 1]
    BY <2>3, PartFacts
  <2>5. Trim(s) = SubSeq(s, a, b)
    BY <2>2, TrimIs
  <2>6. QED
    BY <2>1, <2>2, <2>4, <2>5
<1>3. QED
  BY <1>1, <1>2

LEMMA TrimFrom ==
  ASSUME NEW s \in Text
  PROVE  /\ Trim(s) \in Text
         /\ \A i \in 1..Len(Trim(s)) : \E j \in 1..Len(s) : Trim(s)[i] = s[j]
<1>1. CASE AllBlank(s)
  BY <1>1, EmptyText, TrimBlank
<1>2. ASSUME NEW a \in 1..Len(s), NEW b \in 1..Len(s), Core(s, a, b),
             Len(Trim(s)) = b - a + 1,
             \A i \in 1..(b - a + 1) : Trim(s)[i] = s[a + i - 1],
             NEW i \in 1..Len(Trim(s))
      PROVE  \E j \in 1..Len(s) : Trim(s)[i] = s[j]
  <2>1. PICK n \in Nat : n = Len(s)
    BY TextFacts
  <2>2. i \in 1..(b - a + 1) /\ a + i - 1 \in 1..n
    BY <1>2, <2>1 DEF Core
  <2>3. QED
    BY <1>2, <2>1, <2>2
<1>3. QED
  BY <1>1, <1>2, TrimCases

\* Trimming twice is trimming once.
LEMMA TrimTwice ==
  ASSUME NEW s \in Text
  PROVE  Trim(Trim(s)) = Trim(s)
<1>1. CASE AllBlank(s)
  BY <1>1, EmptyText, TrimBlank
<1>2. ASSUME NEW a \in 1..Len(s), NEW b \in 1..Len(s), Core(s, a, b), Trim(s) \in Text,
             Len(Trim(s)) = b - a + 1,
             \A i \in 1..(b - a + 1) : Trim(s)[i] = s[a + i - 1]
      PROVE  Trim(Trim(s)) = Trim(s)
  <2>1. PICK n \in Nat : n = Len(s)
    BY TextFacts
  <2>2. PICK t \in Text, k \in Nat : t = Trim(s) /\ k = b - a + 1 /\ Len(t) = k
    BY <1>2, <2>1 DEF Core
  <2>3. 1 <= k /\ a + 1 - 1 = a /\ a + k - 1 = b /\ 1 \in 1..k /\ k \in 1..k
    BY <1>2, <2>1, <2>2 DEF Core
  <2>4. t[1] = s[a] /\ t[k] = s[b]
    BY <1>2, <2>2, <2>3
  <2>5. Core(t, 1, k)
    BY <1>2, <2>2, <2>3, <2>4 DEF Core
  <2>6. Trim(t) = SubSeq(t, 1, k)
    BY <2>5, TrimIs
  <2>7. SubSeq(t, 1, k) = t
    BY <2>2, SubSeqFull DEF Text
  <2>8. QED
    BY <2>2, <2>6, <2>7
<1>3. QED
  BY <1>1, <1>2, TrimCases

LEMMA TrimOne ==
  ASSUME NEW s \in Text, NEW a \in 1..Len(s), Core(s, a, a)
  PROVE  Trim(s) = <<s[a]>>
<1>1. PICK n \in Nat : n = Len(s)
  BY TextFacts
<1>2. a \in Nat /\ 1 <= a /\ a <= Len(s) /\ a <= a /\ a - a + 1 = 1 /\ a + 1 - 1 = a
  BY <1>1
<1>3. /\ SubSeq(s, a, a) \in Text /\ Len(SubSeq(s, a, a)) = a - a + 1
      /\ \A i \in 1..(a - a + 1) : SubSeq(s, a, a)[i] = s[a + i - 1]
  BY <1>2, PartFacts, Zenon
<1>4. Len(SubSeq(s, a, a)) = 1 /\ SubSeq(s, a, a)[1] = s[a] /\ s[a] \in Char
  BY <1>2, <1>3, TextFacts
<1>5. <<s[a]>> \in Text /\ Len(<<s[a]>>) = 1 /\ <<s[a]>>[1] = s[a]
  BY <1>4, OneChar
<1>6. \A i \in 1..1 : SubSeq(s, a, a)[i] = <<s[a]>>[i]
  BY <1>4, <1>5
<1>7. SubSeq(s, a, a) = <<s[a]>>
  BY <1>3, <1>4, <1>5, <1>6, SameText
<1>8. QED
  BY <1>7, TrimIs

-----------------------------------------------------------------------------
(* The pin *)

\* An end of line splits a text.
LEMMA SplitAtEnd ==
  ASSUME NEW s \in Text, NEW e \in 1..Len(s), s[e] = "LF"
  PROVE  \E c, d \in Text :
           /\ s = Joined(c, d) /\ Len(c) = e - 1 /\ Len(d) = Len(s) - e
           /\ \A i \in 1..(e - 1) : c[i] = s[i]
           /\ \A i \in 1..Len(d) : d[i] = s[e + i]
<1>1. PICK n \in Nat : n = Len(s)
  BY TextFacts
<1>2. PICK l \in Nat, r \in Nat : l = e - 1 /\ r = n - e
  <2>1. e - 1 \in Nat /\ n - e \in Nat
    BY <1>1
  <2>2. QED
    BY <2>1, Zenon
<1>3. PICK c \in Text : Len(c) = l /\ \A i \in 1..l : c[i] = s[i]
  <2>1. l <= Len(s)
    BY <1>1, <1>2
  <2>2. QED
    BY <2>1, PrefixFacts
<1>4. PICK d \in Text : Len(d) = r /\ \A i \in 1..r : d[i] = s[e + i]
  <2>1. CASE r = 0
    BY <2>1, EmptyText
  <2>2. CASE r # 0
    <3>1. e + 1 \in Nat /\ n \in Nat /\ 1 <= e + 1 /\ n <= Len(s) /\ e + 1 <= n
           /\ n - (e + 1) + 1 = r
      BY <1>1, <1>2, <2>2
    <3>2. /\ SubSeq(s, e + 1, n) \in Text
          /\ Len(SubSeq(s, e + 1, n)) = n - (e + 1) + 1
          /\ \A i \in 1..(n - (e + 1) + 1) : SubSeq(s, e + 1, n)[i] = s[(e + 1) + i - 1]
      BY <3>1, PartFacts, Zenon
    <3>3. \A i \in 1..r : (e + 1) + i - 1 = e + i
      BY <1>1
    <3>4. \A i \in 1..r : SubSeq(s, e + 1, n)[i] = s[e + i]
      BY <3>1, <3>2, <3>3
    <3>5. QED
      BY <3>1, <3>2, <3>4
  <2>3. QED
    BY <2>1, <2>2
<1>5. PICK u \in Text :
        /\ u = Joined(c, d) /\ Len(u) = Len(c) + 1 + Len(d)
        /\ \A i \in 1..Len(c) : u[i] = c[i]
        /\ u[Len(c) + 1] = "LF"
        /\ \A i \in 1..Len(d) : u[Len(c) + 1 + i] = d[i]
  <2>1. /\ Joined(c, d) \in Text
        /\ Len(Joined(c, d)) = Len(c) + 1 + Len(d)
        /\ \A i \in 1..Len(c) : Joined(c, d)[i] = c[i]
        /\ Joined(c, d)[Len(c) + 1] = "LF"
        /\ \A i \in 1..Len(d) : Joined(c, d)[Len(c) + 1 + i] = d[i]
    BY JoinedFacts
  <2>2. QED
    BY <2>1, Zenon
<1>6. /\ Len(u) = n /\ l + 1 = e
      /\ \A i \in 1..l : u[i] = c[i]
      /\ u[e] = "LF"
      /\ \A i \in 1..r : u[e + i] = d[i]
  BY <1>1, <1>2, <1>3, <1>4, <1>5
<1>7. ASSUME NEW i \in 1..n PROVE u[i] = s[i]
  <2>1. CASE i < e
    BY <1>2, <1>3, <1>6, <2>1
  <2>2. CASE i = e
    BY <1>6, <2>2
  <2>3. CASE i > e
    <3>1. i - e \in 1..r /\ e + (i - e) = i
      BY <1>1, <1>2, <2>3
    <3>2. QED
      BY <1>4, <1>6, <3>1
  <2>4. QED
    BY <2>1, <2>2, <2>3
<1>8. s = u
  BY <1>1, <1>6, <1>7, SameText
<1>9. /\ s = Joined(c, d) /\ Len(c) = e - 1 /\ Len(d) = Len(s) - e
      /\ \A i \in 1..(e - 1) : c[i] = s[i]
      /\ \A i \in 1..Len(d) : d[i] = s[e + i]
  BY <1>1, <1>2, <1>3, <1>4, <1>5, <1>8
<1>10. QED
  BY <1>9, Zenon

\* A pin whose check passed is "hex" with blanks around it.
LEMMA PinShape ==
  ASSUME NEW s \in Text, Trim(s) = <<"hex">>
  PROVE  \E a \in 1..Len(s) : Core(s, a, a) /\ s[a] = "hex"
<1>1. "hex" \in Char
  BY DEF Char
<1>2. Len(<<"hex">>) = 1 /\ <<"hex">>[1] = "hex" /\ Len(<<>>) = 0
  BY <1>1, OneChar, EmptyText
<1>3. ~(Trim(s) = <<>>)
  BY <1>2
<1>4. PICK a \in 1..Len(s), b \in 1..Len(s) :
        /\ Core(s, a, b) /\ Len(Trim(s)) = b - a + 1
        /\ \A i \in 1..(b - a + 1) : Trim(s)[i] = s[a + i - 1]
  BY <1>3, TrimCases
<1>5. PICK n \in Nat : n = Len(s)
  BY TextFacts
<1>6. a = b /\ b - a + 1 = 1 /\ a + 1 - 1 = a
  BY <1>2, <1>4, <1>5
<1>7. \A i \in 1..1 : Trim(s)[i] = s[a + i - 1]
  BY <1>4, <1>6
<1>8. s[a] = "hex"
  BY <1>2, <1>6, <1>7
<1>9. QED
  BY <1>4, <1>6, <1>8

\* No end of line before the digits.
PinOk(s) == \A i, j \in DOMAIN s : s[i] = "LF" /\ s[j] = "hex" => j < i

PinKey == "trusted-cert"

LEMMA PinKeyFacts == PinKey \in Char /\ PinKey \notin Blank /\ PinKey # "="
BY DEF PinKey, Char, Blank

\* What the helper takes from the entry of a pin: all of it if it begins on the first
\* line, and else a key without a value.
LEMMA PairsOfPin ==
  ASSUME NEW s \in Text, Trim(s) = <<"hex">>
  PROVE  /\ PinOk(s) => Pairs(Entry(PinKey, s)) = {<<<<PinKey>>, <<"hex">>>>}
         /\ ~PinOk(s) => <<<<PinKey>>, <<>>>> \in Pairs(Entry(PinKey, s))
<1>1. PICK n \in Nat : n = Len(s) /\ DOMAIN s = 1..n
  BY TextFacts
<1>2. PICK a \in 1..n : Core(s, a, a) /\ s[a] = "hex"
  BY <1>1, PinShape
<1>3. \A i \in 1..n : i # a => s[i] \in Blank
  BY <1>1, <1>2 DEF Core
<1>4. "hex" \notin Blank /\ "LF" \in Blank /\ "hex" # "LF"
  BY DEF Blank
<1>5. PinOk(s) <=> \A i \in 1..n : s[i] = "LF" => a < i
  BY <1>1, <1>2, <1>3, <1>4 DEF PinOk
<1>6. CASE \A i \in 1..n : s[i] # "LF"
  <2>1. Pairs(Entry(PinKey, s)) = {<<<<PinKey>>, Trim(s)>>}
    BY <1>1, <1>6, PinKeyFacts, PairsOfEntry
  <2>2. PinOk(s)
    BY <1>5, <1>6
  <2>3. QED
    BY <2>1, <2>2
<1>7. CASE ~(\A i \in 1..n : s[i] # "LF")
  <2> DEFINE T == {i \in 1..n : s[i] = "LF"}
  <2>1. T \in SUBSET Nat /\ T # {}
    BY <1>7
  <2>2. PICK e \in T : \A y \in T : e <= y
    BY <2>1, LeastOf
  <2>3. e \in 1..n /\ e \in Nat /\ s[e] = "LF" /\ \A i \in 1..n : s[i] = "LF" => e <= i
    BY <2>2
  <2>4. PICK c \in Text, d \in Text :
          /\ s = Joined(c, d) /\ Len(c) = e - 1 /\ Len(d) = n - e
          /\ \A i \in 1..(e - 1) : c[i] = s[i]
          /\ \A i \in 1..Len(d) : d[i] = s[e + i]
    BY <1>1, <2>3, SplitAtEnd
  <2>5. Pairs(Entry(PinKey, s)) = {<<<<PinKey>>, Trim(c)>>} \cup Pairs(d)
    <3>1. \A i \in 1..Len(c) : c[i] # "LF"
      BY <1>1, <2>3, <2>4
    <3>2. Pairs(Entry(PinKey, c)) = {<<<<PinKey>>, Trim(c)>>}
      BY <3>1, PinKeyFacts, PairsOfEntry
    <3>3. PICK h \in Text : h = KeyText(PinKey)
      BY PinKeyFacts, KeyTextFacts
    <3>4. h \o c \in Text /\ c \o <<"LF">> \in Text
      BY CatFacts, CatLaws
    <3>5. h \o s = Joined(h \o c, d)
      <4>1. (h \o (c \o <<"LF">>)) \o d = h \o ((c \o <<"LF">>) \o d)
        <5>1. PICK q \in Text : q = c \o <<"LF">>
          BY <3>4
        <5>2. (h \o q) \o d = h \o (q \o d)
          BY CatLaws, Zenon
        <5>3. QED
          BY <5>1, <5>2
      <4>2. (h \o c) \o <<"LF">> = h \o (c \o <<"LF">>)
        BY CatLaws, Zenon
      <4>3. QED
        BY <2>4, <4>1, <4>2 DEF Joined
    <3>6. Pairs(Joined(h \o c, d)) = Pairs(h \o c) \cup Pairs(d)
      BY <3>4, PairsOfJoined, Zenon
    <3>7. Pairs(Entry(PinKey, s)) = Pairs(h \o s) /\ Pairs(Entry(PinKey, c)) = Pairs(h \o c)
      BY <3>3, PinKeyFacts, EntryFacts
    <3>8. QED
      BY <3>2, <3>5, <3>6, <3>7
  <2>6. CASE a < e
    <3>1. PinOk(s)
      BY <1>1, <1>2, <1>5, <2>3, <2>6
    <3>2. a \in 1..Len(c) /\ c[a] = "hex"
      BY <1>1, <1>2, <2>3, <2>4, <2>6
    <3>3. Core(c, a, a)
      <4>1. \A i \in 1..Len(c) : i # a => c[i] \in Blank
        BY <1>1, <1>3, <2>3, <2>4
      <4>2. a \in Nat /\ a <= a /\ c[a] \notin Blank /\ Len(c) \in Nat
        BY <1>4, <3>2, TextFacts
      <4>3. \A i \in 1..Len(c) : i < a \/ i > a => c[i] \in Blank
        BY <4>1, <4>2
      <4>4. QED
        BY <3>2, <4>2, <4>3 DEF Core
    <3>4. Trim(c) = <<"hex">>
      BY <3>2, <3>3, TrimOne
    <3>5. AllBlank(d)
      <4>1. ASSUME NEW i \in 1..Len(d) PROVE d[i] \in Blank
        <5>1. e + i \in 1..n /\ e + i # a
          BY <1>1, <2>3, <2>4, <2>6
        <5>2. QED
          BY <1>3, <2>4, <5>1
      <4>2. QED
        BY <4>1 DEF AllBlank
    <3>6. QED
      BY <2>5, <3>1, <3>4, <3>5, PairsOfBlanks
  <2>7. CASE ~(a < e)
    <3>1. ~PinOk(s)
      BY <1>1, <1>2, <1>5, <2>3, <2>7
    <3>2. AllBlank(c)
      <4>1. ASSUME NEW i \in 1..Len(c) PROVE c[i] \in Blank
        <5>1. i \in 1..(e - 1) /\ i \in 1..n /\ i # a
          BY <1>1, <2>3, <2>4, <2>7, <4>1
        <5>2. QED
          BY <1>3, <2>4, <5>1
      <4>2. QED
        BY <4>1 DEF AllBlank
    <3>3. Trim(c) = <<>>
      BY <3>2, TrimBlank
    <3>4. QED
      BY <2>5, <3>1, <3>3
  <2>8. QED
    BY <2>6, <2>7
<1>8. QED
  BY <1>6, <1>7

-----------------------------------------------------------------------------
(* Hosts and names *)

\* Nothing but blanks up to here, or from here on.
Edge(s, i) ==
  (\A j \in 1..i : s[j] \in Blank) \/ (\A j \in i..Len(s) : s[j] \in Blank)

HostOk(s) == \A i \in DOMAIN s : s[i] = "x" \/ Edge(s, i)

NameOk(s) ==
  \A i \in DOMAIN s : s[i] \notin {"=", "ctl"} /\ (s[i] \in Blank => Edge(s, i))

LEMMA EdgeIs ==
  ASSUME NEW s \in Text, NEW a, NEW b, Core(s, a, b), NEW i \in 1..Len(s)
  PROVE  /\ Edge(s, i) <=> i < a \/ i > b
         /\ ~Edge(s, i) <=> i \in a..b
<1>1. PICK n \in Nat : n = Len(s)
  BY TextFacts
<1>2. /\ a \in 1..n /\ b \in 1..n /\ a <= b /\ i \in 1..n
      /\ s[a] \notin Blank /\ s[b] \notin Blank
      /\ \A j \in 1..n : j < a \/ j > b => s[j] \in Blank
  BY <1>1 DEF Core
<1>3. CASE i < a
  <2>1. \A j \in 1..i : s[j] \in Blank
    BY <1>2, <1>3
  <2>2. QED
    BY <1>2, <1>3, <2>1 DEF Edge
<1>4. CASE i > b
  <2>1. \A j \in i..n : s[j] \in Blank
    BY <1>2, <1>4
  <2>2. QED
    BY <1>1, <1>2, <1>4, <2>1 DEF Edge
<1>5. CASE ~(i < a \/ i > b)
  <2>1. a \in 1..i /\ b \in i..n /\ i \in a..b
    BY <1>2, <1>5
  <2>2. ~Edge(s, i)
    BY <1>1, <1>2, <2>1 DEF Edge
  <2>3. QED
    BY <1>5, <2>1, <2>2
<1>6. QED
  BY <1>3, <1>4, <1>5

\* The characters that trimming leaves are those of the core.
LEMMA CharsOfTrim ==
  ASSUME NEW s \in Text, ~AllBlank(s)
  PROVE  \A c : c \in Chars(Trim(s)) <=> \E i \in 1..Len(s) : ~Edge(s, i) /\ c = s[i]
<1>1. PICK n \in Nat : n = Len(s)
  BY TextFacts
<1>2. PICK a \in 1..n, b \in 1..n :
        /\ Core(s, a, b) /\ Trim(s) \in Text /\ Len(Trim(s)) = b - a + 1
        /\ \A i \in 1..(b - a + 1) : Trim(s)[i] = s[a + i - 1]
  <2>1. ~(AllBlank(s) /\ Trim(s) = <<>>)
    OBVIOUS
  <2>2. QED
    BY <1>1, <2>1, TrimCases
<1>3. a <= b
  BY <1>2 DEF Core
<1>4. PICK t \in Text, k \in Nat :
        t = Trim(s) /\ k = b - a + 1 /\ Len(t) = k /\ DOMAIN t = 1..k
  <2>1. b - a + 1 \in Nat /\ DOMAIN Trim(s) = 1..Len(Trim(s))
    BY <1>2, <1>3, TextFacts
  <2>2. QED
    BY <1>2, <2>1
<1>5. \A i \in 1..n : ~Edge(s, i) <=> i \in a..b
  BY <1>1, <1>2, EdgeIs
<1>6. ASSUME NEW i \in 1..k
      PROVE  a + i - 1 \in a..b /\ a + i - 1 \in 1..n /\ t[i] = s[a + i - 1]
  BY <1>2, <1>4
<1>7. ASSUME NEW i \in a..b PROVE \E j \in 1..k : t[j] = s[i]
  <2>1. i - a + 1 \in 1..k /\ a + (i - a + 1) - 1 = i
    BY <1>2, <1>4
  <2>2. QED
    BY <1>6, <2>1
<1>8. ASSUME NEW c, c \in Chars(t) PROVE \E i \in 1..n : ~Edge(s, i) /\ c = s[i]
  <2>1. PICK j \in 1..k : c = t[j]
    BY <1>4, <1>8 DEF Chars
  <2>2. QED
    BY <1>5, <1>6, <2>1
<1>9. ASSUME NEW c, NEW i \in 1..n, ~Edge(s, i), c = s[i] PROVE c \in Chars(t)
  <2>1. i \in a..b
    BY <1>5, <1>9
  <2>2. PICK j \in 1..k : t[j] = s[i]
    BY <1>7, <2>1
  <2>3. QED
    BY <1>4, <1>9, <2>2 DEF Chars
<1>10. QED
  BY <1>1, <1>4, <1>8, <1>9

LEMMA BlankEdge ==
  ASSUME NEW s \in Text, NEW i \in 1..Len(s), Edge(s, i)
  PROVE  s[i] \in Blank
BY TextFacts DEF Edge

LEMMA HostIs ==
  ASSUME NEW s \in Text, Trim(s) # <<>>
  PROVE  HostOk(s) <=> Chars(Trim(s)) \subseteq {"x"}
<1>1. ~AllBlank(s) /\ DOMAIN s = 1..Len(s)
  BY TrimBlank, TextFacts
<1>2. QED
  BY <1>1, CharsOfTrim DEF HostOk

LEMMA NameIs ==
  ASSUME NEW s \in Text
  PROVE  NameOk(s) <=> Chars(Trim(s)) \cap ({"=", "ctl"} \cup Blank) = {}
<1>1. DOMAIN s = 1..Len(s)
  BY TextFacts
<1>2. \A i \in 1..Len(s) : s[i] \in Blank => s[i] \notin {"=", "ctl"}
  BY DEF Blank
<1>3. CASE AllBlank(s)
  <2>1. Chars(Trim(s)) = {}
    BY <1>3, TrimBlank DEF Chars
  <2>2. ASSUME NEW i \in 1..Len(s) PROVE Edge(s, i)
    <3>1. \A j \in 1..i : j \in 1..Len(s)
      BY TextFacts
    <3>2. QED
      BY <1>3, <3>1 DEF AllBlank, Edge
  <2>3. NameOk(s)
    BY <1>1, <1>2, <1>3, <2>2 DEF NameOk, AllBlank
  <2>4. QED
    BY <2>1, <2>3
<1>4. CASE ~AllBlank(s)
  <2>1. \A c : c \in Chars(Trim(s)) <=> \E i \in 1..Len(s) : ~Edge(s, i) /\ c = s[i]
    BY <1>4, CharsOfTrim
  <2>2. \A i \in 1..Len(s) : Edge(s, i) => s[i] \in Blank
    BY BlankEdge
  <2>3. ASSUME NameOk(s), NEW c \in Chars(Trim(s)) PROVE c \notin {"=", "ctl"} \cup Blank
    <3>1. PICK i \in 1..Len(s) : ~Edge(s, i) /\ c = s[i]
      BY <2>1, <2>3
    <3>2. QED
      BY <1>1, <2>3, <3>1 DEF NameOk
  <2>4. ASSUME \A c \in Chars(Trim(s)) : c \notin {"=", "ctl"} \cup Blank,
               NEW i \in 1..Len(s)
        PROVE  s[i] \notin {"=", "ctl"} /\ (s[i] \in Blank => Edge(s, i))
    <3>1. CASE Edge(s, i)
      BY <1>2, <2>2, <3>1
    <3>2. CASE ~Edge(s, i)
      BY <2>1, <2>4, <3>2
    <3>3. QED
      BY <3>1, <3>2
  <2>5. QED
    BY <1>1, <2>3, <2>4 DEF NameOk
<1>5. QED
  BY <1>3, <1>4

-----------------------------------------------------------------------------
(* The config *)

PairOk(pr) ==
  \E k \in AllowedKey :
    /\ pr[1] = ToText(k)
    /\ pr[2] # <<>> \/ k = "realm"
    /\ ValueOk(k, pr[2])

LEMMA PairOkIs ==
  ASSUME NEW k \in AllowedKey, NEW v
  PROVE  PairOk(<<<<k>>, v>>) <=> (v # <<>> \/ k = "realm") /\ ValueOk(k, v)
<1>1. \A j \in AllowedKey : <<k>> = ToText(j) <=> k = j
  BY DEF ToText
<1>2. QED
  BY <1>1 DEF PairOk

\* What a profile is to the model.
ProfileOf(p) ==
  /\ p.host \in Text /\ p.username \in Text /\ p.realm \in Text
  /\ p.cert \in Text \cup {Unset}

PinPairs(p)   == IF p.cert = Unset THEN {} ELSE Pairs(Entry(PinKey, p.cert))
RealmPairs(p) == IF Trim(p.realm) = <<>> THEN {} ELSE {<<<<"realm">>, Trim(p.realm)>>}

\* The pairs of the config, one entry after the other.
THEOREM PairsOfRender ==
  ASSUME NEW p, ProfileOf(p), Ready(p)
  PROVE  /\ Render(p, "code") \in Text
         /\ Pairs(Render(p, "code")) =
              ((((({<<<<"host">>, Trim(p.host)>>} \cup {<<<<"port">>, <<"port">>>>})
                  \cup {<<<<"username">>, Trim(p.username)>>})
                 \cup RealmPairs(p)) \cup PinPairs(p))
                \cup {<<<<"no-ftm-push">>, <<"1">>>>}) \cup {<<<<"otp">>, <<"code">>>>}
<1>1. ASSUME NEW v \in Text, "LF" \notin Chars(v), NEW i \in 1..Len(Trim(v))
      PROVE  Trim(v)[i] # "LF"
  <2>1. PICK j \in 1..Len(v) : Trim(v)[i] = v[j]
    BY TrimFrom
  <2>2. QED
    BY <1>1, <2>1, TextFacts DEF Chars
<1>2. ASSUME NEW k \in Char, k \notin Blank, k # "=", NEW v \in Text, "LF" \notin Chars(v)
      PROVE  /\ Entry(k, Trim(v)) \in Text /\ Ended(Entry(k, Trim(v)))
             /\ Pairs(Entry(k, Trim(v))) = {<<<<k>>, Trim(v)>>}
  <2>1. PICK w \in Text : w = Trim(v)
    BY TrimFrom
  <2>2. \A i \in 1..Len(w) : w[i] # "LF"
    BY <1>1, <1>2, <2>1
  <2>3. Pairs(Entry(k, w)) = {<<<<k>>, Trim(w)>>}
    BY <1>2, <2>2, PairsOfEntry
  <2>4. Entry(k, w) \in Text /\ Ended(Entry(k, w))
    BY EntryFacts
  <2>5. QED
    BY <2>1, <2>3, <2>4, TrimTwice
<1>3. ASSUME NEW k \in Char, k \notin Blank, k # "=",
             NEW c \in Char, c \notin Blank
      PROVE  /\ Entry(k, ToText(c)) \in Text /\ Ended(Entry(k, ToText(c)))
             /\ Pairs(Entry(k, ToText(c))) = {<<<<k>>, <<c>>>>}
  <2>1. PICK w \in Text : w = <<c>> /\ Len(w) = 1 /\ w[1] = c
    BY OneChar
  <2>2. c # "LF"
    BY <1>3 DEF Blank
  <2>3. \A i \in 1..Len(w) : w[i] # "LF"
    BY <2>1, <2>2
  <2>4. Pairs(Entry(k, w)) = {<<<<k>>, Trim(w)>>}
    BY <1>3, <2>3, PairsOfEntry
  <2>5. Entry(k, w) \in Text /\ Ended(Entry(k, w))
    BY EntryFacts
  <2>6. Trim(w) = <<c>>
    <3>1. 1 \in 1..Len(w) /\ Core(w, 1, 1)
      BY <1>3, <2>1 DEF Core
    <3>2. Trim(w) = <<w[1]>>
      BY <3>1, TrimOne
    <3>3. QED
      BY <2>1, <3>2
  <2>7. QED
    BY <2>1, <2>4, <2>5, <2>6 DEF ToText
<1>4. /\ "LF" \notin Chars(p.host) /\ "LF" \notin Chars(p.username)
      /\ "LF" \notin Chars(p.realm)
  BY DEF Ready
<1>5. \A k \in {"host", "port", "username", "realm", "trusted-cert", "no-ftm-push", "otp"} :
        k \in Char /\ k \notin Blank /\ k # "="
  BY DEF Char, Blank
<1>6. \A c \in {"port", "1", "code"} : c \in Char /\ c \notin Blank
  BY DEF Char, Blank
<1> DEFINE h == Entry("host", Trim(p.host))
           o == Entry("port", ToText("port"))
           u == Entry("username", Trim(p.username))
           r == IF Trim(p.realm) = <<>> THEN <<>> ELSE Entry("realm", Trim(p.realm))
           c == IF p.cert = Unset THEN <<>> ELSE Entry("trusted-cert", p.cert)
           n == Entry("no-ftm-push", ToText("1"))
           t == Entry("otp", ToText("code"))
<1>7. h \in Text /\ Ended(h) /\ Pairs(h) = {<<<<"host">>, Trim(p.host)>>}
  BY <1>2, <1>4, <1>5 DEF ProfileOf
<1>8. o \in Text /\ Ended(o) /\ Pairs(o) = {<<<<"port">>, <<"port">>>>}
  BY <1>3, <1>5, <1>6
<1>9. u \in Text /\ Ended(u) /\ Pairs(u) = {<<<<"username">>, Trim(p.username)>>}
  BY <1>2, <1>4, <1>5 DEF ProfileOf
<1>10. r \in Text /\ Ended(r) /\ Pairs(r) = RealmPairs(p)
  <2>1. CASE Trim(p.realm) = <<>>
    BY <2>1, EmptyText DEF Ended, RealmPairs
  <2>2. CASE Trim(p.realm) # <<>>
    <3>1. /\ Entry("realm", Trim(p.realm)) \in Text /\ Ended(Entry("realm", Trim(p.realm)))
          /\ Pairs(Entry("realm", Trim(p.realm))) = {<<<<"realm">>, Trim(p.realm)>>}
      BY <1>2, <1>4, <1>5 DEF ProfileOf
    <3>2. QED
      BY <2>2, <3>1 DEF RealmPairs
  <2>3. QED
    BY <2>1, <2>2
<1>11. c \in Text /\ Ended(c) /\ Pairs(c) = PinPairs(p)
  <2>1. CASE p.cert = Unset
    BY <2>1, EmptyText DEF Ended, PinPairs
  <2>2. CASE p.cert # Unset
    <3>1. p.cert \in Text
      BY <2>2 DEF ProfileOf
    <3>2. Entry("trusted-cert", p.cert) \in Text /\ Ended(Entry("trusted-cert", p.cert))
      BY <1>5, <3>1, EntryFacts
    <3>3. QED
      BY <2>2, <3>2 DEF PinPairs, PinKey
  <2>3. QED
    BY <2>1, <2>2
<1>12. n \in Text /\ Ended(n) /\ Pairs(n) = {<<<<"no-ftm-push">>, <<"1">>>>}
  BY <1>3, <1>5, <1>6
<1>13. t \in Text /\ Ended(t) /\ Pairs(t) = {<<<<"otp">>, <<"code">>>>}
  BY <1>3, <1>5, <1>6
<1>14. Render(p, "code") = (((((h \o o) \o u) \o r) \o c) \o n) \o t
  BY DEF Render
<1> HIDE DEF h, o, u, r, c, n, t
<1>15. PICK s1 \in Text : s1 = h \o o /\ Ended(s1) /\ Pairs(s1) = Pairs(h) \cup Pairs(o)
  BY <1>7, <1>8, PairsMore
<1>16. PICK s2 \in Text : s2 = s1 \o u /\ Ended(s2) /\ Pairs(s2) = Pairs(s1) \cup Pairs(u)
  BY <1>9, <1>15, PairsMore
<1>17. PICK s3 \in Text : s3 = s2 \o r /\ Ended(s3) /\ Pairs(s3) = Pairs(s2) \cup Pairs(r)
  BY <1>10, <1>16, PairsMore
<1>18. PICK s4 \in Text : s4 = s3 \o c /\ Ended(s4) /\ Pairs(s4) = Pairs(s3) \cup Pairs(c)
  BY <1>11, <1>17, PairsMore
<1>19. PICK s5 \in Text : s5 = s4 \o n /\ Ended(s5) /\ Pairs(s5) = Pairs(s4) \cup Pairs(n)
  BY <1>12, <1>18, PairsMore
<1>20. PICK s6 \in Text : s6 = s5 \o t /\ Ended(s6) /\ Pairs(s6) = Pairs(s5) \cup Pairs(t)
  BY <1>13, <1>19, PairsMore
<1>21. Render(p, "code") = s6
  BY <1>14, <1>15, <1>16, <1>17, <1>18, <1>19, <1>20
<1>22. Pairs(s6) = (((((Pairs(h) \cup Pairs(o)) \cup Pairs(u)) \cup Pairs(r)) \cup Pairs(c))
                     \cup Pairs(n)) \cup Pairs(t)
  BY <1>15, <1>16, <1>17, <1>18, <1>19, <1>20, Zenon
<1>23. QED
  BY <1>7, <1>8, <1>9, <1>10, <1>11, <1>12, <1>13, <1>21, <1>22, Zenon

\* The helper takes what a profile that passed validate_ready is written as exactly if
\* its names are plain and its pin begins on the first line, and then the pin is one
\* pair.
THEOREM AcceptsIs ==
  ASSUME NEW p, ProfileOf(p), Ready(p)
  PROVE  /\ Accepts(Render(p, "code")) <=>
              /\ HostOk(p.host) /\ NameOk(p.username) /\ NameOk(p.realm)
              /\ PinOk(p.cert)
         /\ PinOk(p.cert) =>
              PinPairs(p) = IF p.cert = Unset THEN {} ELSE {<<<<PinKey>>, <<"hex">>>>}
<1>1. /\ PairOk(<<<<"port">>, <<"port">>>>) /\ PairOk(<<<<"no-ftm-push">>, <<"1">>>>)
      /\ PairOk(<<<<"otp">>, <<"code">>>>) /\ PairOk(<<<<PinKey>>, <<"hex">>>>)
  <2>1. /\ "port" \in AllowedKey /\ "no-ftm-push" \in AllowedKey /\ "otp" \in AllowedKey
        /\ PinKey \in AllowedKey
    BY DEF AllowedKey, PinKey
  <2>2. \A x : <<x>> # <<>>
    OBVIOUS
  <2>3. /\ ValueOk("port", <<"port">>) /\ ValueOk("no-ftm-push", <<"1">>)
        /\ ValueOk("otp", <<"code">>) /\ ValueOk(PinKey, <<"hex">>)
    BY DEF ValueOk, ToText, PinKey
  <2>4. QED
    BY <2>1, <2>2, <2>3, PairOkIs
<1>2. ~PairOk(<<<<PinKey>>, <<>>>>)
  <2>1. PinKey \in AllowedKey /\ PinKey # "realm"
    BY DEF AllowedKey, PinKey
  <2>2. QED
    BY <2>1, PairOkIs
<1>3. PairOk(<<<<"host">>, Trim(p.host)>>) <=> HostOk(p.host)
  <2>1. "host" \in AllowedKey
    BY DEF AllowedKey
  <2>2. Trim(p.host) # <<>> /\ p.host \in Text
    BY DEF Ready, ProfileOf
  <2>3. ValueOk("host", Trim(p.host)) <=> Chars(Trim(p.host)) \subseteq {"x"}
    BY DEF ValueOk
  <2>4. QED
    BY <2>1, <2>2, <2>3, HostIs, PairOkIs
<1>4. PairOk(<<<<"username">>, Trim(p.username)>>) <=> NameOk(p.username)
  <2>1. "username" \in AllowedKey
    BY DEF AllowedKey
  <2>2. Trim(p.username) # <<>> /\ p.username \in Text
    BY DEF Ready, ProfileOf
  <2>3. ValueOk("username", Trim(p.username)) <=>
          Chars(Trim(p.username)) \cap ({"=", "ctl"} \cup Blank) = {}
    BY DEF ValueOk
  <2>4. QED
    BY <2>1, <2>2, <2>3, NameIs, PairOkIs
<1>5. (\A q \in RealmPairs(p) : PairOk(q)) <=> NameOk(p.realm)
  <2>1. "realm" \in AllowedKey /\ p.realm \in Text
    BY DEF AllowedKey, ProfileOf
  <2>2. ValueOk("realm", Trim(p.realm)) <=>
          Chars(Trim(p.realm)) \cap ({"=", "ctl"} \cup Blank) = {}
    BY DEF ValueOk
  <2>3. PairOk(<<<<"realm">>, Trim(p.realm)>>) <=> NameOk(p.realm)
    BY <2>1, <2>2, NameIs, PairOkIs
  <2>4. CASE Trim(p.realm) = <<>>
    <3>1. Chars(Trim(p.realm)) = {}
      BY <2>4 DEF Chars
    <3>2. NameOk(p.realm)
      BY <2>1, <3>1, NameIs
    <3>3. QED
      BY <2>4, <3>2 DEF RealmPairs
  <2>5. CASE Trim(p.realm) # <<>>
    BY <2>3, <2>5 DEF RealmPairs
  <2>6. QED
    BY <2>4, <2>5
<1>6. PinOk(p.cert) =>
        PinPairs(p) = IF p.cert = Unset THEN {} ELSE {<<<<PinKey>>, <<"hex">>>>}
  BY PairsOfPin DEF PinPairs, Ready, ProfileOf, ToText
<1>7. (\A q \in PinPairs(p) : PairOk(q)) <=> PinOk(p.cert)
  <2>1. CASE p.cert = Unset
    <3>1. p.cert = <<"unset">>
      BY <2>1 DEF Unset
    <3>2. \A i \in DOMAIN p.cert : p.cert[i] # "LF"
      BY <3>1
    <3>3. PinOk(p.cert)
      BY <3>2 DEF PinOk
    <3>4. QED
      BY <2>1, <3>3 DEF PinPairs
  <2>2. CASE p.cert # Unset
    <3>1. p.cert \in Text /\ Trim(p.cert) = <<"hex">>
      BY <2>2 DEF Ready, ProfileOf, ToText
    <3>2. /\ PinOk(p.cert) => PinPairs(p) = {<<<<PinKey>>, <<"hex">>>>}
          /\ ~PinOk(p.cert) => <<<<PinKey>>, <<>>>> \in PinPairs(p)
      BY <2>2, <3>1, PairsOfPin DEF PinPairs
    <3>3. QED
      BY <1>1, <1>2, <3>2
  <2>3. QED
    BY <2>1, <2>2
<1>8. Accepts(Render(p, "code")) <=> \A q \in Pairs(Render(p, "code")) : PairOk(q)
  BY DEF Accepts, PairOk
<1>9. QED
  BY <1>1, <1>3, <1>4, <1>5, <1>6, <1>7, <1>8, PairsOfRender
=============================================================================
