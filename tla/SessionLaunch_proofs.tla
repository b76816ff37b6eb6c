------------------------- MODULE SessionLaunch_proofs -------------------------
(***************************************************************************)
(* Proofs about SessionLaunch.  What a password becomes on its way is      *)
(* first: the recursive functions of Encode and Decode are shown to exist, *)
(* and what they do to a text is shown by induction on it.                 *)
(***************************************************************************)
EXTENDS SessionLaunch, ConfigGrammar_proofs, FiniteSetTheorems, FunctionTheorems

-----------------------------------------------------------------------------
(* Recursion *)

\* Rules for the values of a function on 0..N, from its values below.
Rules(N, T) == [0..N -> [[0..N -> T] -> T]]

FromBelow(N, T, H) ==
  \A i \in 0..N : \A f, g \in [0..N -> T] :
    (\A j \in 0..N : j < i => f[j] = g[j]) => H[i][f] = H[i][g]

Solvable(N, T, H) == \E f \in [0..N -> T] : \A i \in 0..N : f[i] = H[i][f]

\* A function that is defined by its values below exists.
LEMMA RecursionOn ==
  ASSUME NEW N \in Nat, NEW T, <<>> \in T, NEW H \in Rules(N, T), FromBelow(N, T, H)
  PROVE  Solvable(N, T, H)
<1>0. /\ <<>> \in T /\ H \in [0..N -> [[0..N -> T] -> T]]
      /\ \A i \in 0..N : \A f, g \in [0..N -> T] :
           (\A j \in 0..N : j < i => f[j] = g[j]) => H[i][f] = H[i][g]
  BY Zenon DEF Rules, FromBelow
<1> DEFINE Upto == {k \in Nat : \E f \in [0..N -> T] : \A i \in 0..N : i < k => f[i] = H[i][f]}
<1>1. 0 \in Upto
  <2>1. [i \in 0..N |-> <<>>] \in [0..N -> T]
    BY <1>0
  <2>2. \A i \in 0..N : ~(i < 0)
    OBVIOUS
  <2>3. QED
    BY <2>1, <2>2
<1>2. ASSUME NEW k \in Nat, k \in Upto PROVE k + 1 \in Upto
  <2>1. PICK f \in [0..N -> T] : \A i \in 0..N : i < k => f[i] = H[i][f]
    BY <1>2
  <2>2. CASE k \in 0..N
    <3>1. PICK g \in [0..N -> T] : /\ g[k] = H[k][f]
                                   /\ \A i \in 0..N : i # k => g[i] = f[i]
      <4>1. H[k][f] \in T
        BY <1>0, <2>2
      <4>2. [f EXCEPT ![k] = H[k][f]] \in [0..N -> T]
        BY <4>1
      <4>3. QED
        BY <2>2, <4>2
    <3>2. ASSUME NEW i \in 0..N, i < k + 1 PROVE g[i] = H[i][g]
      <4>1. \A j \in 0..N : j < i => f[j] = g[j]
        BY <3>1, <3>2
      <4>2. H[i][f] = H[i][g]
        BY <1>0, <4>1
      <4>3. CASE i = k
        BY <3>1, <4>2, <4>3
      <4>4. CASE i # k
        <5>1. i < k
          BY <3>2, <4>4
        <5>2. QED
          BY <2>1, <3>1, <4>2, <4>4, <5>1
      <4>5. QED
        BY <4>3, <4>4
    <3>3. QED
      BY <3>2
  <2>3. CASE k \notin 0..N
    <3>1. \A i \in 0..N : i < k + 1 => i < k
      BY <2>3
    <3>2. \A i \in 0..N : i < k + 1 => f[i] = H[i][f]
      BY <2>1, <3>1
    <3>3. k + 1 \in Nat
      OBVIOUS
    <3>4. QED
      BY <3>2, <3>3, Zenon
  <2>4. QED
    BY <2>2, <2>3
<1>3. N + 1 \in Upto
  <2>1. \A k \in Nat : k \in Upto
    <3> HIDE DEF Upto
    <3>1. QED
      BY <1>1, <1>2, InductionOn
  <2>2. N + 1 \in Nat
    OBVIOUS
  <2>3. QED
    BY <2>1, <2>2, Zenon
<1>4. PICK f \in [0..N -> T] : \A i \in 0..N : i < N + 1 => f[i] = H[i][f]
  BY <1>3
<1>5. \A i \in 0..N : i < N + 1
  OBVIOUS
<1>6. \A i \in 0..N : f[i] = H[i][f]
  BY <1>4, <1>5
<1>7. QED
  BY <1>6 DEF Solvable

\* Induction on a text, one character at its end after the other.
LEMMA TextInduction ==
  ASSUME NEW T, <<>> \in T,
         \A s \in Text : \A c \in Char : s \in T => s \o <<c>> \in T
  PROVE  \A s \in Text : s \in T
<1> DEFINE Long == {n \in Nat : \A s \in Text : Len(s) = n => s \in T}
<1>1. 0 \in Long
  <2>1. ASSUME NEW s \in Text, Len(s) = 0 PROVE s = <<>>
    BY <2>1, EmptySeq DEF Text
  <2>2. QED
    BY <2>1
<1>2. ASSUME NEW n \in Nat, n \in Long PROVE n + 1 \in Long
  <2>1. ASSUME NEW s \in Text, Len(s) = n + 1 PROVE s \in T
    <3>1. s # <<>>
      BY <2>1, EmptyText
    <3>2. PICK r \in Text, c \in Char : s = Append(r, c)
      BY <3>1, SequenceEmptyOrAppend DEF Text
    <3>3. s = r \o <<c>> /\ Len(s) = Len(r) + 1
      BY <3>2, AppendIsConcat, AppendProperties DEF Text
    <3>4. Len(r) = n
      BY <2>1, <3>3, TextFacts
    <3>5. QED
      BY <1>2, <3>3, <3>4
  <2>2. QED
    BY <2>1
<1>3. \A n \in Nat : n \in Long
  <2> HIDE DEF Long
  <2>1. QED
    BY <1>1, <1>2, InductionOn
<1>4. QED
  BY <1>3, TextFacts

-----------------------------------------------------------------------------
(* The percent coding *)

\* What a character is written as.
Code(c) == IF c \in DOMAIN Escape THEN Escape[c] ELSE ToText(c)

LEMMA CodeFacts ==
  ASSUME NEW c \in Char
  PROVE  /\ Code(c) \in Text
         /\ \A i \in 1..Len(Code(c)) : Code(c)[i] \notin {"LF", "CR"}
         /\ c \notin {"%", "byte", "CR", "LF"} => Code(c) = <<c>>
         /\ c \in {"%", "byte", "CR", "LF"} =>
              /\ c \in DOMAIN Escape /\ Code(c) = Escape[c] /\ Len(Code(c)) = 3
              /\ Code(c)[1] = "%" /\ Code(c)[3] # "SP"
<1>1. DOMAIN Escape = {"%", "CR", "LF", "byte"}
  BY DEF Escape
<1>2. /\ Escape["%"] = <<"%", "2", "5">> /\ Escape["CR"] = <<"%", "0", "D">>
      /\ Escape["LF"] = <<"%", "0", "A">> /\ Escape["byte"] = <<"%", "B", "B">>
  BY DEF Escape
<1>3. /\ "%" \in Char /\ "2" \in Char /\ "5" \in Char /\ "0" \in Char /\ "D" \in Char
      /\ "A" \in Char /\ "B" \in Char
  BY DEF Char
<1>4. ASSUME NEW x \in Char, NEW y \in Char, NEW z \in Char
      PROVE  /\ <<x, y, z>> \in Text /\ Len(<<x, y, z>>) = 3
             /\ <<x, y, z>>[1] = x /\ <<x, y, z>>[2] = y /\ <<x, y, z>>[3] = z
  BY DEF Text
<1>5. CASE c \notin {"%", "byte", "CR", "LF"}
  <2>1. Code(c) = <<c>>
    BY <1>1, <1>5 DEF Code, ToText
  <2>2. QED
    BY <1>5, <2>1, OneChar
<1>6. ASSUME NEW x \in Char, NEW y \in Char, Code(c) = <<"%", x, y>>,
             x \notin {"LF", "CR"}, y \notin {"LF", "CR"}
      PROVE  /\ Code(c) \in Text /\ Len(Code(c)) = 3 /\ Code(c)[1] = "%" /\ Code(c)[3] = y
             /\ \A i \in 1..Len(Code(c)) : Code(c)[i] \notin {"LF", "CR"}
  BY <1>3, <1>4, <1>6
<1>7. CASE c \in {"%", "byte", "CR", "LF"}
  <2>1. c \in DOMAIN Escape /\ Code(c) = Escape[c]
    BY <1>1, <1>7 DEF Code
  <2>2. PICK x \in Char, y \in Char : /\ Code(c) = <<"%", x, y>> /\ y # "SP"
                                      /\ x \notin {"LF", "CR"} /\ y \notin {"LF", "CR"}
    BY <1>2, <1>3, <1>7, <2>1
  <2>3. QED
    BY <1>6, <1>7, <2>1, <2>2
<1>8. QED
  BY <1>5, <1>7

LEMMA EncodeSteps ==
  ASSUME NEW s \in Text
  PROVE  \E e : /\ e[0] = <<>> /\ Encode(s) = e[Len(s)]
                /\ \A i \in 1..Len(s) : e[i] = e[i - 1] \o Code(s[i])
<1>1. PICK n \in Nat : n = Len(s) /\ \A i \in 1..n : s[i] \in Char
  BY TextFacts
<1> DEFINE H == [i \in 0..n |-> [f \in [0..n -> Text] |->
                  IF i = 0 THEN <<>> ELSE f[i - 1] \o Code(s[i])]]
<1>2. <<>> \in Text
  BY EmptyText
<1>3. ASSUME NEW i \in 0..n, i # 0, NEW f \in [0..n -> Text]
      PROVE  f[i - 1] \o Code(s[i]) \in Text /\ i - 1 \in 0..n /\ i - 1 < i
  <2>1. i - 1 \in 0..n /\ i \in 1..n /\ i - 1 < i
    BY <1>3
  <2>2. f[i - 1] \in Text /\ Code(s[i]) \in Text
    BY <1>1, <2>1, CodeFacts
  <2>3. QED
    BY <2>1, <2>2, CatFacts
<1>4. H \in Rules(n, Text)
  BY <1>2, <1>3 DEF Rules
<1>5. FromBelow(n, Text, H)
  <2>1. ASSUME NEW i \in 0..n, NEW f \in [0..n -> Text], NEW g \in [0..n -> Text],
               \A j \in 0..n : j < i => f[j] = g[j]
        PROVE  H[i][f] = H[i][g]
    BY <1>3, <2>1
  <2>2. QED
    BY <2>1 DEF FromBelow
<1>6. PICK f \in [0..n -> Text] : \A i \in 0..n : f[i] = H[i][f]
  <2> HIDE DEF H
  <2>1. Solvable(n, Text, H)
    BY <1>2, <1>4, <1>5, RecursionOn
  <2>2. QED
    BY <2>1 DEF Solvable
<1>7. \A i \in 0..n : f[i] = IF i = 0 THEN <<>> ELSE f[i - 1] \o Code(s[i])
  BY <1>6
<1> HIDE DEF H
<1> DEFINE Fits(g) == g = [i \in 0..Len(s) |->
                 IF i = 0 THEN <<>>
                 ELSE g[i - 1] \o (IF s[i] \in DOMAIN Escape THEN Escape[s[i]]
                                   ELSE ToText(s[i]))]
           e == CHOOSE g : Fits(g)
<1>8. Fits(f)
  BY <1>1, <1>7 DEF Code
<1>9. Fits(e)
  BY <1>8
<1>10. Encode(s) = e[Len(s)]
  BY DEF Encode
<1>11. \A i \in 0..n : e[i] = IF i = 0 THEN <<>> ELSE e[i - 1] \o Code(s[i])
  BY <1>1, <1>9 DEF Code
<1>12. e[0] = <<>> /\ \A i \in 1..n : e[i] = e[i - 1] \o Code(s[i])
  <2>1. 0 \in 0..n /\ \A i \in 1..n : i \in 0..n /\ i # 0
    OBVIOUS
  <2>2. QED
    BY <1>11, <2>1, Zenon
<1>13. QED
  BY <1>1, <1>10, <1>12

LEMMA EncodeEmpty == Encode(<<>>) = <<>>
<1>1. PICK f : f[0] = <<>> /\ Encode(<<>>) = f[Len(<<>>)]
  BY EmptyText, EncodeSteps
<1>2. QED
  BY <1>1, EmptyText

\* A character more at the end is its code more at the end.
LEMMA EncodeMore ==
  ASSUME NEW s \in Text, NEW c \in Char
  PROVE  Encode(s \o <<c>>) = Encode(s) \o Code(c)
<1>1. PICK n \in Nat : n = Len(s)
  BY TextFacts
<1>2. PICK t \in Text : /\ t = s \o <<c>> /\ Len(t) = n + 1 /\ t[n + 1] = c
                        /\ \A i \in 1..n : t[i] = s[i]
  <2>1. <<c>> \in Text /\ Len(<<c>>) = 1 /\ <<c>>[1] = c /\ 1 \in 1..1
    BY OneChar
  <2>2. /\ s \o <<c>> \in Text
        /\ Len(s \o <<c>>) = Len(s) + Len(<<c>>)
        /\ \A i \in 1..Len(s) : (s \o <<c>>)[i] = s[i]
        /\ \A i \in 1..Len(<<c>>) : (s \o <<c>>)[Len(s) + i] = <<c>>[i]
    BY <2>1, CatFacts
  <2>3. (s \o <<c>>)[n + 1] = c
    BY <1>1, <2>1, <2>2
  <2>4. QED
    BY <1>1, <2>1, <2>2, <2>3
<1>3. PICK f : /\ f[0] = <<>> /\ Encode(s) = f[n]
               /\ \A i \in 1..n : f[i] = f[i - 1] \o Code(s[i])
  BY <1>1, EncodeSteps
<1>4. PICK g : /\ g[0] = <<>> /\ Encode(t) = g[n + 1]
               /\ \A i \in 1..(n + 1) : g[i] = g[i - 1] \o Code(t[i])
  <2>1. PICK g : /\ g[0] = <<>> /\ Encode(t) = g[Len(t)]
                 /\ \A i \in 1..Len(t) : g[i] = g[i - 1] \o Code(t[i])
    BY EncodeSteps
  <2>2. QED
    BY <1>2, <2>1
<1> DEFINE Same == {i \in Nat : i <= n => f[i] = g[i]}
<1>5. \A i \in Nat : i \in Same
  <2>1. 0 \in Same
    BY <1>3, <1>4
  <2>2. ASSUME NEW i \in Nat, i \in Same PROVE i + 1 \in Same
    <3>1. ASSUME i + 1 <= n PROVE f[i + 1] = g[i + 1]
      <4>1. i + 1 \in 1..n /\ i + 1 \in 1..(n + 1) /\ (i + 1) - 1 = i /\ i <= n
        BY <3>1
      <4>2. f[i] = g[i] /\ t[i + 1] = s[i + 1]
        BY <1>2, <2>2, <4>1
      <4>3. f[i + 1] = f[i] \o Code(s[i + 1]) /\ g[i + 1] = g[i] \o Code(t[i + 1])
        BY <1>3, <1>4, <4>1
      <4>4. QED
        BY <4>2, <4>3
    <3>2. QED
      BY <3>1
  <2>3. QED
    <3> HIDE DEF Same
    <3>1. QED
      BY <2>1, <2>2, InductionOn
<1>6. f[n] = g[n]
  BY <1>5
<1>7. n + 1 \in 1..(n + 1) /\ (n + 1) - 1 = n
  OBVIOUS
<1>8. g[n + 1] = g[n] \o Code(t[n + 1])
  BY <1>4, <1>7
<1>9. QED
  BY <1>2, <1>3, <1>4, <1>6, <1>8

\* What is written is a text of one line.
LEMMA EncodeText ==
  ASSUME NEW s \in Text
  PROVE  /\ Encode(s) \in Text
         /\ \A i \in 1..Len(Encode(s)) : Encode(s)[i] \notin {"LF", "CR"}
<1> DEFINE T == {r \in Text : /\ Encode(r) \in Text
                              /\ \A i \in 1..Len(Encode(r)) : Encode(r)[i] \notin {"LF", "CR"}}
<1>1. <<>> \in T
  BY EmptyText, EncodeEmpty
<1>2. ASSUME NEW r \in Text, NEW c \in Char, r \in T PROVE r \o <<c>> \in T
  <2>1. r \o <<c>> \in Text /\ Encode(r \o <<c>>) = Encode(r) \o Code(c)
    BY OneChar, CatFacts, EncodeMore
  <2>2. PICK a \in Text : a = Encode(r) /\ \A i \in 1..Len(a) : a[i] \notin {"LF", "CR"}
    BY <1>2
  <2>3. PICK b \in Text : b = Code(c) /\ \A i \in 1..Len(b) : b[i] \notin {"LF", "CR"}
    BY CodeFacts
  <2>4. PICK n \in Nat, m \in Nat : n = Len(a) /\ m = Len(b)
    BY TextFacts
  <2>5. PICK w \in Text : /\ w = a \o b /\ Len(w) = n + m
                          /\ \A i \in 1..n : w[i] = a[i]
                          /\ \A i \in 1..m : w[n + i] = b[i]
    <3>1. /\ a \o b \in Text
          /\ Len(a \o b) = Len(a) + Len(b)
          /\ \A i \in 1..Len(a) : (a \o b)[i] = a[i]
          /\ \A i \in 1..Len(b) : (a \o b)[Len(a) + i] = b[i]
      BY CatFacts
    <3>2. QED
      BY <2>4, <3>1
  <2>6. ASSUME NEW i \in 1..(n + m) PROVE w[i] \notin {"LF", "CR"}
    <3>1. CASE i \in 1..n
      BY <2>2, <2>4, <2>5, <3>1
    <3>2. CASE i \notin 1..n
      <4>1. i - n \in 1..m /\ n + (i - n) = i
        BY <3>2
      <4>2. QED
        BY <2>3, <2>4, <2>5, <4>1
    <3>3. QED
      BY <3>1, <3>2
  <2>7. QED
    BY <2>1, <2>2, <2>3, <2>5, <2>6
<1>3. \A r \in Text : r \in T
  <2> HIDE DEF T
  <2>1. QED
    BY <1>1, <1>2, TextInduction
<1>4. QED
  BY <1>3

\* Blanks stay as they are.
LEMMA EncodeBlanks ==
  ASSUME NEW s \in Text, NEW r \in Text, \A i \in 1..Len(r) : r[i] = "SP"
  PROVE  Encode(s \o r) = Encode(s) \o r
<1> DEFINE T == {q \in Text : (\A i \in 1..Len(q) : q[i] = "SP")
                                => Encode(s \o q) = Encode(s) \o q}
<1>0. "SP" \in Char /\ Encode(s) \in Text
  BY EncodeText DEF Char
<1>1. <<>> \in T
  BY <1>0, EmptyText, CatLaws
<1>2. ASSUME NEW q \in Text, NEW c \in Char, q \in T PROVE q \o <<c>> \in T
  <2>1. PICK n \in Nat : n = Len(q)
    BY TextFacts
  <2>2. <<c>> \in Text /\ Len(<<c>>) = 1 /\ <<c>>[1] = c
    BY OneChar
  <2>3. PICK w \in Text : /\ w = q \o <<c>> /\ Len(w) = n + 1 /\ w[n + 1] = c
                          /\ \A i \in 1..n : w[i] = q[i]
    <3>1. /\ q \o <<c>> \in Text
          /\ Len(q \o <<c>>) = Len(q) + Len(<<c>>)
          /\ \A i \in 1..Len(q) : (q \o <<c>>)[i] = q[i]
          /\ \A i \in 1..Len(<<c>>) : (q \o <<c>>)[Len(q) + i] = <<c>>[i]
      BY <2>2, CatFacts
    <3>2. (q \o <<c>>)[n + 1] = c
      BY <2>1, <2>2, <3>1
    <3>3. QED
      BY <2>1, <2>2, <3>1, <3>2
  <2>4. ASSUME \A i \in 1..Len(w) : w[i] = "SP" PROVE Encode(s \o w) = Encode(s) \o w
    <3>1. n + 1 \in 1..Len(w) /\ \A i \in 1..n : i \in 1..Len(w)
      BY <2>3
    <3>2. c = "SP" /\ \A i \in 1..Len(q) : q[i] = "SP"
      BY <2>1, <2>3, <2>4, <3>1
    <3>3. Encode(s \o q) = Encode(s) \o q
      BY <1>2, <3>2
    <3>4. s \o q \in Text /\ (s \o q) \o <<c>> = s \o (q \o <<c>>)
      <4>1. PICK x \in Text : x = <<c>>
        BY <2>2
      <4>2. s \o q \in Text
        BY CatFacts
      <4>3. (s \o q) \o x = s \o (q \o x)
        BY CatLaws
      <4>4. QED
        BY <4>1, <4>2, <4>3
    <3>5. Encode((s \o q) \o <<c>>) = Encode(s \o q) \o Code(c)
      BY <3>4, EncodeMore
    <3>6. Code(c) = <<c>>
      BY <3>2, CodeFacts
    <3>7. (Encode(s) \o q) \o <<c>> = Encode(s) \o (q \o <<c>>)
      BY <1>0, <2>2, CatLaws
    <3>8. QED
      BY <2>3, <3>3, <3>4, <3>5, <3>6, <3>7
  <2>5. QED
    BY <2>3, <2>4
<1>3. \A q \in Text : q \in T
  <2> HIDE DEF T
  <2>1. QED
    BY <1>1, <1>2, TextInduction
<1>4. QED
  BY <1>3

\* The character that the three from here on stand for.
Meant(s, i) == CHOOSE c \in DOMAIN Escape : Escape[c] = SubSeq(s, i, i + 2)

\* What the last n characters are decoded to, by what the fewer are.
Decoded(s, n, d) ==
  IF n = 0 THEN <<>>
  ELSE IF s[Len(s) - n + 1] = "%" /\ n >= 3
       THEN <<Meant(s, Len(s) - n + 1)>> \o d[n - 3]
       ELSE <<s[Len(s) - n + 1]>> \o d[n - 1]

LEMMA DecodeSteps ==
  ASSUME NEW s \in Text
  PROVE  \E d : /\ Decode(s) = d[Len(s)]
                /\ \A n \in 0..Len(s) : d[n] = Decoded(s, n, d)
<1>1. PICK m \in Nat : m = Len(s) /\ \A i \in 1..m : s[i] \in Char
  BY TextFacts
<1> DEFINE S == Char \cup {Meant(s, i) : i \in 0..m}
           T == Seq(S)
           H == [n \in 0..m |-> [d \in [0..m -> T] |-> Decoded(s, n, d)]]
<1>2. <<>> \in T
  BY EmptySeq
<1>3. ASSUME NEW n \in 0..m, n # 0
      PROVE  /\ n - 1 \in 0..m /\ n - 1 < n /\ m - n + 1 \in 1..m /\ m - n + 1 \in 0..m
             /\ n >= 3 => n - 3 \in 0..m /\ n - 3 < n
  BY <1>3
<1>4. ASSUME NEW n \in 0..m, NEW d \in [0..m -> T] PROVE Decoded(s, n, d) \in T
  <2>1. ASSUME NEW x \in S, NEW r \in T PROVE <<x>> \o r \in T
    <3>1. <<x>> \in Seq(S)
      OBVIOUS
    <3>2. QED
      BY <3>1, ConcatProperties
  <2>2. CASE n = 0
    BY <1>2, <2>2 DEF Decoded
  <2>3. CASE n # 0
    <3>1. Meant(s, m - n + 1) \in S /\ s[m - n + 1] \in S
      BY <1>1, <1>3, <2>3
    <3>2. d[n - 1] \in T /\ (n >= 3 => d[n - 3] \in T)
      BY <1>3, <2>3
    <3> HIDE DEF S, T
    <3>3. /\ <<s[m - n + 1]>> \o d[n - 1] \in T
          /\ n >= 3 => <<Meant(s, m - n + 1)>> \o d[n - 3] \in T
      BY <2>1, <3>1, <3>2
    <3>4. QED
      BY <1>1, <2>3, <3>3 DEF Decoded
  <2>4. QED
    BY <2>2, <2>3
<1>5. H \in Rules(m, T)
  <2> HIDE DEF T
  <2>1. QED
    BY <1>4 DEF Rules
<1>6. FromBelow(m, T, H)
  <2> HIDE DEF T
  <2>1. ASSUME NEW n \in 0..m, NEW f \in [0..m -> T], NEW g \in [0..m -> T],
               \A j \in 0..m : j < n => f[j] = g[j]
        PROVE  H[n][f] = H[n][g]
    <3>1. n # 0 => f[n - 1] = g[n - 1] /\ (n >= 3 => f[n - 3] = g[n - 3])
      BY <1>3, <2>1
    <3>2. Decoded(s, n, f) = Decoded(s, n, g)
      BY <3>1 DEF Decoded
    <3>3. QED
      BY <3>2
  <2>2. QED
    BY <2>1 DEF FromBelow
<1>7. PICK f \in [0..m -> T] : \A n \in 0..m : f[n] = H[n][f]
  <2> HIDE DEF H, T
  <2>1. Solvable(m, T, H)
    BY <1>2, <1>5, <1>6, RecursionOn
  <2>2. QED
    BY <2>1 DEF Solvable
<1>8. \A n \in 0..m : f[n] = Decoded(s, n, f)
  BY <1>7
<1> HIDE DEF H, T, S
<1> DEFINE Fits(g) == g = [n \in 0..Len(s) |->
                 IF n = 0 THEN <<>>
                 ELSE IF s[Len(s) - n + 1] = "%" /\ n >= 3
                      THEN ToText(CHOOSE c \in DOMAIN Escape :
                                    Escape[c] = SubSeq(s, Len(s) - n + 1, Len(s) - n + 1 + 2))
                             \o g[n - 3]
                      ELSE ToText(s[Len(s) - n + 1]) \o g[n - 1]]
           e == CHOOSE g : Fits(g)
<1>9. Fits(f)
  BY <1>1, <1>8 DEF Decoded, Meant, ToText
<1>10. Fits(e)
  BY <1>9
<1>11. Decode(s) = e[Len(s)]
  BY DEF Decode
<1>12. \A n \in 0..m : e[n] = Decoded(s, n, e)
  BY <1>1, <1>10 DEF Decoded, Meant, ToText
<1> HIDE DEF e, Fits
<1>13. QED
  BY <1>1, <1>11, <1>12

\* The end of a text is decoded to the same, whatever is before it.
LEMMA DecodeEnd ==
  ASSUME NEW s \in Text, NEW t \in Text, NEW k \in Nat, Len(s) = k + Len(t),
         \A i \in 1..Len(t) : t[i] = s[i + k],
         NEW d, \A n \in 0..Len(s) : d[n] = Decoded(s, n, d)
  PROVE  d[Len(t)] = Decode(t)
<1>1. PICK m \in Nat : m = Len(t)
  BY TextFacts
<1>2. PICK e : Decode(t) = e[m] /\ \A n \in 0..m : e[n] = Decoded(t, n, e)
  BY <1>1, DecodeSteps
<1> DEFINE Same == {n \in Nat : \A j \in 0..n : j <= m => d[j] = e[j]}
<1>3. ASSUME NEW n \in Nat, n <= m, \A j \in 0..m : j < n => d[j] = e[j]
      PROVE  d[n] = e[n]
  <2>1. d[n] = Decoded(s, n, d) /\ e[n] = Decoded(t, n, e)
    BY <1>1, <1>2, <1>3
  <2>2. CASE n = 0
    BY <2>1, <2>2 DEF Decoded
  <2>3. CASE n # 0
    <3>1. PICK i \in 1..m : i = m - n + 1
      BY <1>3, <2>3
    <3>2. i = Len(t) - n + 1 /\ i + k = Len(s) - n + 1
      BY <1>1, <3>1
    <3>3. t[i] = s[i + k]
      BY <1>1
    <3>4. d[n - 1] = e[n - 1]
      <4>1. n - 1 \in 0..m /\ n - 1 < n
        BY <1>3, <2>3
      <4>2. QED
        BY <1>3, <4>1
    <3>5. ASSUME n >= 3 PROVE d[n - 3] = e[n - 3] /\ Meant(t, i) = Meant(s, i + k)
      <4>1. n - 3 \in 0..m /\ n - 3 < n
        BY <1>3, <3>5
      <4>2. d[n - 3] = e[n - 3]
        BY <1>3, <4>1
      <4>3. PICK p \in Nat : p = i + 2
        OBVIOUS
      <4>4. i \in Nat /\ 1 <= i /\ p <= Len(t) /\ p + k <= Len(s)
             /\ \A j \in i..p : j \in 1..Len(t)
        BY <1>1, <3>1, <3>5, <4>3
      <4>5. \A j \in i..p : t[j] = s[j + k]
        BY <4>4
      <4>6. SubSeq(t, i, p) = SubSeq(s, i + k, p + k)
        BY <4>4, <4>5, SamePart
      <4>7. p + k = (i + k) + 2
        BY <4>3
      <4>8. QED
        BY <4>2, <4>3, <4>6, <4>7 DEF Meant
    <3>6. /\ Decoded(t, n, e) = IF t[i] = "%" /\ n >= 3 THEN <<Meant(t, i)>> \o e[n - 3]
                                ELSE <<t[i]>> \o e[n - 1]
          /\ Decoded(s, n, d) = IF s[i + k] = "%" /\ n >= 3
                                THEN <<Meant(s, i + k)>> \o d[n - 3]
                                ELSE <<s[i + k]>> \o d[n - 1]
      BY <2>3, <3>2 DEF Decoded
    <3>7. QED
      BY <2>1, <3>3, <3>4, <3>5, <3>6
  <2>4. QED
    BY <2>2, <2>3
<1>4. 0 \in Same
  <2>1. \A j \in 0..m : ~(j < 0)
    OBVIOUS
  <2>2. d[0] = e[0]
    BY <1>3, <2>1
  <2>3. \A j \in 0..0 : j = 0
    OBVIOUS
  <2>4. QED
    BY <2>2, <2>3
<1>5. ASSUME NEW n \in Nat, n \in Same PROVE n + 1 \in Same
  <2>1. ASSUME NEW j \in 0..(n + 1), j <= m PROVE d[j] = e[j]
    <3>1. CASE j \in 0..n
      BY <1>5, <2>1, <3>1
    <3>2. CASE j \notin 0..n
      <4>1. j = n + 1 /\ j \in Nat
        BY <3>2
      <4>2. \A i \in 0..m : i < j => i \in 0..n /\ i <= m
        BY <4>1
      <4>3. \A i \in 0..m : i < j => d[i] = e[i]
        BY <1>5, <4>2
      <4>4. QED
        BY <1>3, <2>1, <4>1, <4>3
    <3>3. QED
      BY <3>1, <3>2
  <2>2. QED
    BY <2>1
<1>6. m \in Same
  <2>1. \A n \in Nat : n \in Same
    <3> HIDE DEF Same
    <3>1. QED
      BY <1>4, <1>5, InductionOn
  <2>2. QED
    BY <2>1
<1>7. m \in 0..m /\ m <= m
  OBVIOUS
<1>8. d[m] = e[m]
  BY <1>6, <1>7
<1>9. QED
  BY <1>1, <1>2, <1>8

LEMMA DecodeEmpty == Decode(<<>>) = <<>>
<1>1. <<>> \in Text /\ Len(<<>>) = 0 /\ 0 \in 0..0
  BY EmptyText
<1>2. PICK d : Decode(<<>>) = d[0] /\ \A n \in 0..0 : d[n] = Decoded(<<>>, n, d)
  BY <1>1, DecodeSteps
<1>3. QED
  BY <1>1, <1>2 DEF Decoded

\* The code of a character at the front is decoded to the character.
LEMMA DecodeMore ==
  ASSUME NEW c \in Char, NEW t \in Text
  PROVE  Decode(Code(c) \o t) = <<c>> \o Decode(t)
<1>1. PICK k \in Nat, m \in Nat : k = Len(Code(c)) /\ m = Len(t)
  BY CodeFacts, TextFacts
<1>2. PICK w \in Text :
        /\ w = Code(c) \o t /\ Len(w) = k + m
        /\ \A i \in 1..k : w[i] = Code(c)[i]
        /\ \A i \in 1..m : w[k + i] = t[i]
  <2>1. Code(c) \in Text
    BY CodeFacts
  <2>2. /\ Code(c) \o t \in Text
        /\ Len(Code(c) \o t) = Len(Code(c)) + Len(t)
        /\ \A i \in 1..Len(Code(c)) : (Code(c) \o t)[i] = Code(c)[i]
        /\ \A i \in 1..Len(t) : (Code(c) \o t)[Len(Code(c)) + i] = t[i]
    BY <2>1, CatFacts
  <2>3. QED
    BY <1>1, <2>2
<1>3. PICK d : Decode(w) = d[k + m] /\ \A n \in 0..(k + m) : d[n] = Decoded(w, n, d)
  <2>1. PICK d : Decode(w) = d[Len(w)] /\ \A n \in 0..Len(w) : d[n] = Decoded(w, n, d)
    BY DecodeSteps
  <2>2. QED
    BY <1>2, <2>1
<1>4. d[m] = Decode(t)
  <2>1. /\ Len(w) = k + Len(t) /\ \A n \in 0..Len(w) : d[n] = Decoded(w, n, d)
        /\ \A i \in 1..Len(t) : t[i] = w[i + k]
    BY <1>1, <1>2, <1>3
  <2>2. d[Len(t)] = Decode(t)
    BY <2>1, DecodeEnd
  <2>3. QED
    BY <1>1, <2>2
<1>5. CASE c \notin {"%", "byte", "CR", "LF"}
  <2>1. Code(c) = <<c>> /\ k = 1
    BY <1>1, <1>5, CodeFacts, OneChar
  <2>2. w[1] = c /\ c # "%"
    BY <1>2, <1>5, <2>1
  <2>3. d[1 + m] = Decoded(w, 1 + m, d)
    BY <1>3, <2>1
  <2>4. 1 + m # 0 /\ (1 + m) - 1 = m /\ Len(w) - (1 + m) + 1 = 1
    BY <1>2, <2>1
  <2>5. Decoded(w, 1 + m, d) = <<c>> \o d[m]
    BY <2>2, <2>4 DEF Decoded
  <2>6. QED
    BY <1>2, <1>3, <1>4, <2>1, <2>3, <2>5
<1>6. CASE c \in {"%", "byte", "CR", "LF"}
  <2>1. c \in DOMAIN Escape /\ Code(c) = Escape[c] /\ k = 3 /\ Code(c)[1] = "%"
    BY <1>1, <1>6, CodeFacts
  <2>2. w[1] = "%"
    BY <1>2, <2>1
  <2>3. d[3 + m] = Decoded(w, 3 + m, d)
    BY <1>3, <2>1
  <2>4. 3 + m # 0 /\ 3 + m >= 3 /\ (3 + m) - 3 = m /\ Len(w) - (3 + m) + 1 = 1
    BY <1>2, <2>1
  <2>5. Decoded(w, 3 + m, d) = <<Meant(w, 1)>> \o d[m]
    BY <2>2, <2>4 DEF Decoded
  <2>6. SubSeq(w, 1, 1 + 2) = Escape[c]
    <3>1. /\ SubSeq(w, 1, 3) \in Text /\ Len(SubSeq(w, 1, 3)) = 3
          /\ \A i \in 1..3 : SubSeq(w, 1, 3)[i] = w[i]
      <4>1. 3 \in Nat /\ 3 <= Len(w)
        BY <1>2, <2>1
      <4>2. QED
        BY <4>1, PrefixFacts, Zenon
    <3>2. Code(c) \in Text /\ Len(Code(c)) = 3
      BY <1>1, <2>1, CodeFacts
    <3>3. \A i \in 1..3 : SubSeq(w, 1, 3)[i] = Code(c)[i]
      BY <1>2, <2>1, <3>1
    <3>4. SubSeq(w, 1, 3) = Code(c)
      BY <3>1, <3>2, <3>3, SameText
    <3>5. 1 + 2 = 3
      OBVIOUS
    <3>6. QED
      BY <2>1, <3>4, <3>5
  <2>7. \A x \in DOMAIN Escape : Escape[x] = Escape[c] => x = c
    BY <1>6 DEF Escape
  <2>8. Meant(w, 1) = c
    BY <2>1, <2>6, <2>7 DEF Meant
  <2>9. QED
    BY <1>2, <1>3, <1>4, <2>1, <2>3, <2>5, <2>8
<1>7. QED
  BY <1>5, <1>6

\* What is encoded is decoded to what it was.
LEMMA DecodeEncode ==
  ASSUME NEW s \in Text
  PROVE  Decode(Encode(s)) = s
<1> DEFINE T == {r \in Text : \A t \in Text : Decode(t) \in Text =>
                                Decode(Encode(r) \o t) = r \o Decode(t)}
<1>1. <<>> \in T
  <2>1. ASSUME NEW t \in Text, Decode(t) \in Text
        PROVE  Decode(Encode(<<>>) \o t) = <<>> \o Decode(t)
    <3>1. Encode(<<>>) \o t = t
      BY EncodeEmpty, CatLaws
    <3>2. <<>> \o Decode(t) = Decode(t)
      BY <2>1, CatLaws
    <3>3. QED
      BY <3>1, <3>2
  <2>2. QED
    BY <2>1, EmptyText
<1>2. ASSUME NEW r \in Text, NEW c \in Char, r \in T PROVE r \o <<c>> \in T
  <2>1. PICK x \in Text, y \in Text, z \in Text : x = <<c>> /\ y = Code(c) /\ z = Encode(r)
    BY OneChar, CodeFacts, EncodeText
  <2>2. r \o x \in Text /\ Encode(r \o x) = z \o y
    BY <2>1, CatFacts, EncodeMore
  <2>3. ASSUME NEW t \in Text, Decode(t) \in Text
        PROVE  Decode((z \o y) \o t) = (r \o x) \o Decode(t)
    <3>1. Decode(y \o t) = x \o Decode(t) /\ y \o t \in Text /\ x \o Decode(t) \in Text
      BY <2>1, <2>3, DecodeMore, CatFacts
    <3>2. Decode(z \o (y \o t)) = r \o (x \o Decode(t))
      BY <1>2, <2>1, <3>1
    <3>3. (z \o y) \o t = z \o (y \o t) /\ (r \o x) \o Decode(t) = r \o (x \o Decode(t))
      <4>1. (z \o y) \o t = z \o (y \o t)
        BY CatLaws
      <4>2. \A q \in Text : (r \o x) \o q = r \o (x \o q)
        BY CatLaws
      <4>3. QED
        BY <2>3, <4>1, <4>2
    <3>4. QED
      BY <3>2, <3>3
  <2>4. QED
    BY <2>1, <2>2, <2>3
<1>3. \A r \in Text : r \in T
  <2> HIDE DEF T
  <2>1. QED
    BY <1>1, <1>2, TextInduction
<1>4. Decode(Encode(s) \o <<>>) = s \o <<>>
  BY <1>3, EmptyText, DecodeEmpty
<1>5. QED
  BY <1>4, CatLaws, EncodeText

-----------------------------------------------------------------------------
(* The reply *)

LEMMA PrefixIs ==
  ASSUME NEW w \in Text, NEW s \in Text, NEW n \in Nat, n = Len(s), n <= Len(w),
         \A i \in 1..n : w[i] = s[i]
  PROVE  SubSeq(w, 1, n) = s
<1>1. PICK v \in Text : v = SubSeq(w, 1, n) /\ Len(v) = n /\ \A i \in 1..n : v[i] = w[i]
  BY PrefixFacts
<1>2. Len(v) = Len(s) /\ \A i \in 1..Len(v) : v[i] = s[i]
  BY <1>1
<1>3. QED
  BY <1>1, <1>2, SameText

LEMMA TrimEndCat ==
  ASSUME NEW s \in Text, NEW r \in Text, s # <<>>, s[Len(s)] \notin Blank, AllBlank(r)
  PROVE  TrimEnd(s \o r) = s
<1>1. PICK n \in Nat, m \in Nat : n = Len(s) /\ m = Len(r)
  BY TextFacts
<1>2. n # 0
  BY <1>1, EmptySeq DEF Text
<1>3. PICK w \in Text : /\ w = s \o r /\ Len(w) = n + m
                        /\ \A i \in 1..n : w[i] = s[i]
                        /\ \A i \in 1..m : w[n + i] = r[i]
  <2>1. /\ s \o r \in Text /\ Len(s \o r) = Len(s) + Len(r)
        /\ \A i \in 1..Len(s) : (s \o r)[i] = s[i]
        /\ \A i \in 1..Len(r) : (s \o r)[Len(s) + i] = r[i]
    BY CatFacts
  <2>2. QED
    BY <1>1, <2>1
<1> DEFINE kept == {i \in DOMAIN w : w[i] \notin Blank}
<1>4. DOMAIN w = 1..(n + m) /\ n \in kept
  <2>1. DOMAIN w = 1..(n + m) /\ n \in 1..n /\ n \in 1..(n + m)
    BY <1>2, <1>3, TextFacts
  <2>2. w[n] \notin Blank
    BY <1>1, <1>3, <2>1
  <2>3. QED
    BY <2>1, <2>2
<1>5. \A i \in kept : i <= n
  <2>1. ASSUME NEW i \in 1..(n + m), i > n PROVE w[i] \in Blank
    <3>1. i - n \in 1..m /\ n + (i - n) = i
      BY <2>1
    <3>2. QED
      BY <1>1, <1>3, <3>1 DEF AllBlank
  <2>2. QED
    BY <1>4, <2>1
<1>6. Max(kept) = n
  <2>1. n + m \in Nat /\ kept \in SUBSET (0..(n + m)) /\ kept # {}
    BY <1>4
  <2> HIDE DEF kept
  <2>2. Max(kept) \in kept /\ \A y \in kept : y <= Max(kept)
    BY <2>1, MaxIs
  <2>3. PICK x \in Nat : x = Max(kept)
    <3>1. \A i \in kept : i \in Nat
      BY <2>1
    <3>2. Max(kept) \in Nat
      BY <2>2, <3>1, Zenon
    <3>3. QED
      BY <3>2, Zenon
  <2>4. x <= n /\ n <= x
    BY <1>4, <1>5, <2>2, <2>3
  <2>5. QED
    BY <2>3, <2>4
<1>7. TrimEnd(w) = SubSeq(w, 1, n)
  <2>1. kept # {}
    BY <1>4
  <2>2. QED
    BY <1>6, <2>1 DEF TrimEnd
<1>8. SubSeq(w, 1, n) = s
  <2>1. n <= Len(w)
    BY <1>3
  <2>2. QED
    BY <1>1, <1>3, <2>1, PrefixIs
<1>9. QED
  BY <1>3, <1>7, <1>8

LEMMA ReadLineIs ==
  ASSUME NEW s \in Text, \A i \in 1..Len(s) : s[i] # "LF"
  PROVE  ReadLine(s \o <<"LF">>) = s
<1>1. PICK n \in Nat : n = Len(s)
  BY TextFacts
<1>2. PICK w \in Text : /\ w = s \o <<"LF">> /\ Len(w) = n + 1 /\ w[n + 1] = "LF"
                        /\ \A i \in 1..n : w[i] = s[i]
  <2>1. <<"LF">> \in Text /\ Len(<<"LF">>) = 1 /\ <<"LF">>[1] = "LF"
    BY OneChar DEF Char
  <2>2. /\ s \o <<"LF">> \in Text
        /\ Len(s \o <<"LF">>) = Len(s) + Len(<<"LF">>)
        /\ \A i \in 1..Len(s) : (s \o <<"LF">>)[i] = s[i]
        /\ \A i \in 1..Len(<<"LF">>) : (s \o <<"LF">>)[Len(s) + i] = <<"LF">>[i]
    BY <2>1, CatFacts
  <2>3. (s \o <<"LF">>)[n + 1] = "LF"
    BY <1>1, <2>1, <2>2
  <2>4. QED
    BY <1>1, <2>1, <2>2, <2>3
<1> DEFINE end == {i \in DOMAIN w : w[i] = "LF"}
<1>3. end = {n + 1}
  <2>1. DOMAIN w = 1..(n + 1)
    BY <1>2, TextFacts
  <2>2. QED
    BY <1>1, <1>2, <2>1
<1>4. Min(end) = n + 1
  <2>1. end \in SUBSET Nat /\ end # {}
    BY <1>3
  <2> HIDE DEF end
  <2>2. Min(end) \in end
    BY <2>1, MinIs
  <2>3. QED
    BY <1>3, <2>2
<1>5. ReadLine(w) = SubSeq(w, 1, n)
  <2>1. end # {} /\ (n + 1) - 1 = n
    BY <1>3
  <2>2. QED
    BY <1>4, <2>1 DEF ReadLine
<1>6. SubSeq(w, 1, n) = s
  <2>1. n <= Len(w)
    BY <1>2
  <2>2. QED
    BY <1>1, <1>2, <2>1, PrefixIs
<1>7. QED
  BY <1>2, <1>5, <1>6

\* The end of a text after its first two characters.
LEMMA AfterTwo ==
  ASSUME NEW x \in Char, NEW y \in Char, NEW s \in Text
  PROVE  /\ <<x, y>> \o s \in Text /\ Len(<<x, y>> \o s) = 2 + Len(s)
         /\ (<<x, y>> \o s)[1] = x /\ (<<x, y>> \o s)[2] = y
         /\ \A i \in 1..Len(s) : (<<x, y>> \o s)[2 + i] = s[i]
         /\ SubSeq(<<x, y>> \o s, 3, Len(<<x, y>> \o s)) = s
<1>1. PICK h \in Text : h = <<x, y>> /\ Len(h) = 2 /\ h[1] = x /\ h[2] = y
  <2>1. <<x, y>> \in Text
    BY DEF Text
  <2>2. Len(<<x, y>>) = 2 /\ <<x, y>>[1] = x /\ <<x, y>>[2] = y
    OBVIOUS
  <2>3. QED
    BY <2>1, <2>2, Zenon
<1>2. PICK n \in Nat : n = Len(s)
  BY TextFacts
<1>3. PICK w \in Text : /\ w = h \o s /\ Len(w) = 2 + n
                        /\ \A i \in 1..2 : w[i] = h[i]
                        /\ \A i \in 1..n : w[2 + i] = s[i]
  <2>1. /\ h \o s \in Text /\ Len(h \o s) = Len(h) + Len(s)
        /\ \A i \in 1..Len(h) : (h \o s)[i] = h[i]
        /\ \A i \in 1..Len(s) : (h \o s)[Len(h) + i] = s[i]
    BY CatFacts
  <2>2. QED
    BY <1>1, <1>2, <2>1
<1>4. w[1] = x /\ w[2] = y
  <2>1. 1 \in 1..2 /\ 2 \in 1..2
    OBVIOUS
  <2>2. QED
    BY <1>1, <1>3, <2>1
<1>5. SubSeq(w, 3, 2 + n) = s
  <2>1. CASE n = 0
    <3>1. s = <<>>
      BY <1>2, <2>1, EmptySeq DEF Text
    <3>2. 3 \in Int /\ 2 + n \in Int /\ 3 > 2 + n
      BY <2>1
    <3>3. SubSeq(w, 3, 2 + n) = <<>>
      BY <3>2, SubSeqEmpty
    <3>4. QED
      BY <3>1, <3>3
  <2>2. CASE n # 0
    <3>1. 3 \in Nat /\ 2 + n \in Nat /\ 1 <= 3 /\ 2 + n <= Len(w) /\ 3 <= 2 + n
           /\ (2 + n) - 3 + 1 = n
      BY <1>3, <2>2
    <3>2. /\ SubSeq(w, 3, 2 + n) \in Text
          /\ Len(SubSeq(w, 3, 2 + n)) = (2 + n) - 3 + 1
          /\ \A i \in 1..((2 + n) - 3 + 1) : SubSeq(w, 3, 2 + n)[i] = w[3 + i - 1]
      BY <3>1, PartFacts, Zenon
    <3>3. \A i \in 1..n : 3 + i - 1 = 2 + i
      OBVIOUS
    <3>4. \A i \in 1..n : SubSeq(w, 3, 2 + n)[i] = s[i]
      BY <1>3, <3>1, <3>2, <3>3
    <3>5. QED
      BY <1>2, <3>1, <3>2, <3>4, SameText
  <2>3. QED
    BY <2>1, <2>2
<1>6. QED
  BY <1>1, <1>2, <1>3, <1>4, <1>5

\* A text is of blanks, or it ends in blanks after a last other character.
LEMMA LastOther ==
  ASSUME NEW s \in Text
  PROVE  \/ \A i \in 1..Len(s) : s[i] = "SP"
         \/ \E n \in 1..Len(s) : s[n] # "SP" /\ \A i \in (n + 1)..Len(s) : s[i] = "SP"
<1>1. PICK m \in Nat : m = Len(s)
  BY TextFacts
<1> DEFINE T == {i \in 1..m : s[i] # "SP"}
<1>2. CASE T = {}
  BY <1>1, <1>2
<1>3. CASE T # {}
  <2>1. T \in SUBSET (0..m)
    OBVIOUS
  <2>2. Max(T) \in T /\ \A y \in T : y <= Max(T)
    <3> HIDE DEF T
    <3>1. QED
      BY <1>3, <2>1, MaxIs
  <2>3. PICK n \in T : \A y \in T : y <= n
    BY <2>2
  <2>4. ASSUME NEW i \in (n + 1)..m PROVE s[i] = "SP"
    <3>1. i \in 1..m /\ ~(i <= n)
      BY <2>3
    <3>2. QED
      BY <2>3, <3>1
  <2>5. QED
    BY <1>1, <2>3, <2>4
<1>4. QED
  BY <1>2, <1>3

\* A text in two parts.
LEMMA SplitAt ==
  ASSUME NEW s \in Text, NEW n \in Nat, n <= Len(s)
  PROVE  \E a, b \in Text :
           /\ s = a \o b /\ a = SubSeq(s, 1, n) /\ Len(a) = n /\ Len(b) = Len(s) - n
           /\ \A i \in 1..n : a[i] = s[i]
           /\ \A i \in 1..Len(b) : b[i] = s[n + i]
<1>1. PICK m \in Nat : m = Len(s)
  BY TextFacts
<1>2. PICK a \in Text : a = SubSeq(s, 1, n) /\ Len(a) = n /\ \A i \in 1..n : a[i] = s[i]
  BY PrefixFacts
<1>3. PICK b \in Text : Len(b) = m - n /\ \A i \in 1..(m - n) : b[i] = s[n + i]
  <2>1. CASE m = n
    <3>1. m - n = 0
      BY <2>1
    <3>2. QED
      BY <3>1, EmptyText
  <2>2. CASE m # n
    <3>1. n + 1 \in Nat /\ m \in Nat /\ 1 <= n + 1 /\ m <= Len(s) /\ n + 1 <= m
           /\ m - (n + 1) + 1 = m - n
      BY <1>1, <2>2
    <3>2. /\ SubSeq(s, n + 1, m) \in Text
          /\ Len(SubSeq(s, n + 1, m)) = m - (n + 1) + 1
          /\ \A i \in 1..(m - (n + 1) + 1) : SubSeq(s, n + 1, m)[i] = s[(n + 1) + i - 1]
      BY <3>1, PartFacts, Zenon
    <3>3. \A i \in 1..(m - n) : (n + 1) + i - 1 = n + i
      BY <1>1
    <3>4. \A i \in 1..(m - n) : SubSeq(s, n + 1, m)[i] = s[n + i]
      BY <3>1, <3>2, <3>3
    <3>5. QED
      BY <3>1, <3>2, <3>4
  <2>3. QED
    BY <2>1, <2>2
<1>4. PICK w \in Text : /\ w = a \o b /\ Len(w) = m
                        /\ \A i \in 1..n : w[i] = a[i]
                        /\ \A i \in 1..(m - n) : w[n + i] = b[i]
  <2>1. /\ a \o b \in Text /\ Len(a \o b) = Len(a) + Len(b)
        /\ \A i \in 1..Len(a) : (a \o b)[i] = a[i]
        /\ \A i \in 1..Len(b) : (a \o b)[Len(a) + i] = b[i]
    BY CatFacts
  <2>2. n + (m - n) = m
    OBVIOUS
  <2>3. Len(a \o b) = m
    BY <1>2, <1>3, <2>1, <2>2
  <2>4. /\ \A i \in 1..n : (a \o b)[i] = a[i]
        /\ \A i \in 1..(m - n) : (a \o b)[n + i] = b[i]
    BY <1>2, <1>3, <2>1
  <2>5. QED
    BY <2>1, <2>3, <2>4, Zenon
<1>5. ASSUME NEW i \in 1..m PROVE w[i] = s[i]
  <2>1. CASE i <= n
    BY <1>2, <1>4, <2>1
  <2>2. CASE ~(i <= n)
    <3>1. i - n \in 1..(m - n) /\ n + (i - n) = i
      BY <2>2
    <3>2. QED
      BY <1>3, <1>4, <3>1
  <2>3. QED
    BY <2>1, <2>2
<1>6. s = w
  BY <1>1, <1>4, <1>5, SameText
<1>7. /\ s = a \o b /\ a = SubSeq(s, 1, n) /\ Len(a) = n /\ Len(b) = Len(s) - n
      /\ \A i \in 1..n : a[i] = s[i]
      /\ \A i \in 1..Len(b) : b[i] = s[n + i]
  BY <1>1, <1>2, <1>3, <1>4, <1>6
<1>8. QED
  BY <1>7, Zenon

\* A code does not end in a blank unless it is of one.
LEMMA EncodeLast ==
  ASSUME NEW s \in Text, NEW n \in Nat, n = Len(s), n # 0, s[n] # "SP"
  PROVE  /\ Encode(s) \in Text /\ Encode(s) # <<>>
         /\ Encode(s)[Len(Encode(s))] \notin Blank
<1>1. PICK r \in Text, c \in Char : s = r \o <<c>> /\ c # "SP"
  <2>1. s # <<>>
    BY EmptyText
  <2>2. PICK r \in Text, c \in Char : s = Append(r, c)
    BY <2>1, SequenceEmptyOrAppend DEF Text
  <2>3. s = r \o <<c>> /\ Len(s) = Len(r) + 1 /\ s[Len(r) + 1] = c
    BY <2>2, AppendIsConcat, AppendProperties DEF Text
  <2>4. n = Len(r) + 1
    BY <2>3
  <2>5. QED
    BY <2>3, <2>4
<1>2. PICK x \in Text, y \in Text : x = Encode(r) /\ y = Code(c)
  BY EncodeText, CodeFacts
<1>3. Encode(s) = x \o y
  BY <1>1, <1>2, EncodeMore
<1>4. PICK k \in Nat, l \in Nat : k = Len(x) /\ l = Len(y)
  BY TextFacts
<1>5. l # 0 /\ y[l] \notin Blank
  <2>1. CASE c \notin {"%", "byte", "CR", "LF"}
    <3>1. y = <<c>> /\ l = 1 /\ y[l] = c
      BY <1>2, <1>4, <2>1, CodeFacts, OneChar
    <3>2. QED
      BY <1>1, <2>1, <3>1 DEF Blank
  <2>2. CASE c \in {"%", "byte", "CR", "LF"}
    <3>1. l = 3 /\ y[3] # "SP"
      BY <1>2, <1>4, <2>2, CodeFacts
    <3>2. \A i \in 1..l : y[i] \notin {"LF", "CR"}
      BY <1>2, <1>4, CodeFacts
    <3>3. y[3] \notin {"LF", "CR"}
      BY <3>1, <3>2
    <3>4. QED
      BY <3>1, <3>3 DEF Blank
  <2>3. QED
    BY <2>1, <2>2
<1>6. PICK w \in Text : w = x \o y /\ Len(w) = k + l /\ w[k + l] = y[l]
  <2>1. /\ x \o y \in Text /\ Len(x \o y) = Len(x) + Len(y)
        /\ \A i \in 1..Len(y) : (x \o y)[Len(x) + i] = y[i]
    BY CatFacts
  <2>2. l \in 1..l
    BY <1>5
  <2>3. (x \o y)[k + l] = y[l]
    BY <1>4, <2>1, <2>2
  <2>4. QED
    BY <1>4, <2>1, <2>3
<1>7. w # <<>>
  BY <1>5, <1>6, EmptyText
<1>8. QED
  BY <1>3, <1>5, <1>6, <1>7

\* What pinentry-tofv makes of the reply: the password without the blanks at its end,
\* and nothing of one that is all blanks.
THEOREM FetchedReply ==
  ASSUME NEW p \in Text
  PROVE  \/ (\A i \in 1..Len(p) : p[i] = "SP") /\ Fetched(Reply(p)) = Cancelled
         \/ \E n \in 1..Len(p) :
              /\ p[n] # "SP" /\ \A i \in (n + 1)..Len(p) : p[i] = "SP"
              /\ Fetched(Reply(p)) = <<"D">> \o SubSeq(p, 1, n)
<1>1. "D" \in Char /\ "SP" \in Char /\ "D" # "LF" /\ "SP" # "LF" /\ "D" \notin Blank
       /\ "SP" \in Blank
  BY DEF Char, Blank
<1>2. PICK h \in Text : h = <<"D", "SP">>
  <2>1. <<"D", "SP">> \in Text
    BY <1>1 DEF Text
  <2>2. QED
    BY <2>1, Zenon
<1>3. PICK c \in Text : c = Encode(p) /\ \A i \in 1..Len(c) : c[i] \notin {"LF", "CR"}
  BY EncodeText
<1>4. PICK l \in Text : /\ l = h \o c /\ Len(l) = 2 + Len(c) /\ l[1] = "D" /\ l[2] = "SP"
                        /\ \A i \in 1..Len(c) : l[2 + i] = c[i]
  <2>1. /\ h \o c \in Text /\ Len(h \o c) = 2 + Len(c)
        /\ (h \o c)[1] = "D" /\ (h \o c)[2] = "SP"
        /\ \A i \in 1..Len(c) : (h \o c)[2 + i] = c[i]
    BY <1>1, <1>2, AfterTwo
  <2>2. QED
    BY <2>1, Zenon
<1>5. \A i \in 1..Len(l) : l[i] # "LF"
  <2>1. PICK m \in Nat : m = Len(c)
    BY TextFacts
  <2>2. ASSUME NEW i \in 1..(2 + m) PROVE l[i] # "LF"
    <3>1. CASE i \in {1, 2}
      BY <1>1, <1>4, <3>1
    <3>2. CASE i \notin {1, 2}
      <4>1. i - 2 \in 1..m /\ 2 + (i - 2) = i
        BY <3>2
      <4>2. QED
        BY <1>3, <1>4, <2>1, <4>1
    <3>3. QED
      BY <3>1, <3>2
  <2>3. QED
    BY <1>4, <2>1, <2>2
<1>6. ReadLine(Reply(p)) = l
  <2>1. Reply(p) = l \o <<"LF">>
    BY <1>2, <1>3, <1>4 DEF Reply
  <2>2. QED
    BY <1>5, <2>1, ReadLineIs
<1>7. Fetched(Reply(p)) =
        IF Len(TrimEnd(l)) < 2 \/ TrimEnd(l)[1] # "D" THEN Cancelled
        ELSE <<"D">> \o Decode(Encode(Decode(SubSeq(TrimEnd(l), 3, Len(TrimEnd(l))))))
  BY <1>6 DEF Fetched
<1>8. CASE \A i \in 1..Len(p) : p[i] = "SP"
  <2>1. c = p
    <3>1. Encode(<<>> \o p) = Encode(<<>>) \o p
      BY <1>8, EmptyText, EncodeBlanks
    <3>2. QED
      BY <1>3, <3>1, EncodeEmpty, CatLaws
  <2>2. PICK d \in Text, b \in Text : d = <<"D">> /\ b = <<"SP">>
    BY <1>1, OneChar
  <2>3. PICK r \in Text : /\ r = b \o p /\ AllBlank(r)
    <3>1. b \o p \in Text
      BY CatFacts
    <3>2. PICK m \in Nat : m = Len(p)
      BY TextFacts
    <3>3. /\ Len(b \o p) = 1 + m /\ (b \o p)[1] = "SP"
          /\ \A i \in 1..m : (b \o p)[1 + i] = p[i]
      <4>1. /\ Len(b \o p) = Len(b) + Len(p)
            /\ \A i \in 1..Len(b) : (b \o p)[i] = b[i]
            /\ \A i \in 1..Len(p) : (b \o p)[Len(b) + i] = p[i]
        BY CatFacts
      <4>2. Len(b) = 1 /\ b[1] = "SP" /\ 1 \in 1..1
        BY <1>1, <2>2, OneChar
      <4>3. QED
        BY <3>2, <4>1, <4>2
    <3>4. ASSUME NEW i \in 1..(1 + m) PROVE (b \o p)[i] \in Blank
      <4>1. CASE i = 1
        BY <1>1, <3>3, <4>1
      <4>2. CASE i # 1
        <5>1. i - 1 \in 1..m /\ 1 + (i - 1) = i
          BY <4>2
        <5>2. QED
          BY <1>1, <1>8, <3>2, <3>3, <5>1
      <4>3. QED
        BY <4>1, <4>2
    <3>5. AllBlank(b \o p)
      BY <3>3, <3>4 DEF AllBlank
    <3>6. QED
      BY <3>1, <3>5, Zenon
  <2>4. l = d \o r
    <3>1. h = d \o b
      BY <1>2, <2>2
    <3>2. (d \o b) \o p = d \o (b \o p)
      <4>1. \A s, t \in Text : (d \o s) \o t = d \o (s \o t)
        BY CatLaws, Zenon
      <4>2. \A t \in Text : (d \o b) \o t = d \o (b \o t)
        BY <4>1, Zenon
      <4>3. QED
        BY <4>2, Zenon
    <3>3. QED
      BY <1>4, <2>1, <2>3, <3>1, <3>2
  <2>5. Len(d) = 1 /\ d[1] = "D" /\ d # <<>>
    BY <1>1, <2>2, OneChar, EmptyText
  <2>6. TrimEnd(l) = d
    BY <1>1, <2>3, <2>4, <2>5, TrimEndCat
  <2>7. Len(TrimEnd(l)) < 2
    BY <2>5, <2>6
  <2>8. QED
    BY <1>7, <1>8, <2>7
<1>9. ASSUME NEW n \in 1..Len(p), p[n] # "SP", \A i \in (n + 1)..Len(p) : p[i] = "SP"
      PROVE  Fetched(Reply(p)) = <<"D">> \o SubSeq(p, 1, n)
  <2>1. n \in Nat /\ n # 0 /\ n <= Len(p) /\ Len(p) \in Nat
    BY TextFacts
  <2>2. PICK a \in Text, b \in Text :
          /\ p = a \o b /\ a = SubSeq(p, 1, n) /\ Len(a) = n /\ Len(b) = Len(p) - n
          /\ \A i \in 1..n : a[i] = p[i]
          /\ \A i \in 1..Len(b) : b[i] = p[n + i]
    BY <2>1, SplitAt
  <2>3. \A i \in 1..Len(b) : b[i] = "SP"
    <3>1. \A i \in 1..(Len(p) - n) : n + i \in (n + 1)..Len(p)
      BY <2>1
    <3>2. QED
      BY <1>9, <2>2, <3>1
  <2>4. a[n] # "SP"
    <3>1. n \in 1..n
      BY <2>1
    <3>2. QED
      BY <1>9, <2>2, <3>1
  <2>5. PICK u \in Text : u = Encode(a) /\ u # <<>> /\ u[Len(u)] \notin Blank
    BY <2>1, <2>2, <2>4, EncodeLast
  <2>6. c = u \o b
    BY <1>3, <2>2, <2>3, <2>5, EncodeBlanks
  <2>7. PICK v \in Text : /\ v = h \o u /\ Len(v) = 2 + Len(u) /\ v[1] = "D"
                          /\ \A i \in 1..Len(u) : v[2 + i] = u[i]
                          /\ SubSeq(v, 3, Len(v)) = u
    <3>1. /\ h \o u \in Text /\ Len(h \o u) = 2 + Len(u) /\ (h \o u)[1] = "D"
          /\ \A i \in 1..Len(u) : (h \o u)[2 + i] = u[i]
          /\ SubSeq(h \o u, 3, Len(h \o u)) = u
      BY <1>1, <1>2, AfterTwo
    <3>2. QED
      BY <3>1, Zenon
  <2>8. PICK k \in Nat : k = Len(u) /\ k # 0
    <3>1. Len(u) \in Nat /\ Len(u) # 0
      BY <2>5, TextFacts, EmptySeq DEF Text
    <3>2. QED
      BY <3>1, Zenon
  <2>9. Len(v) = 2 + k /\ v[2 + k] \notin Blank /\ v # <<>>
    <3>1. k \in 1..k /\ v[2 + k] = u[k]
      BY <2>7, <2>8
    <3>2. QED
      BY <2>5, <2>7, <2>8, <3>1, EmptyText
  <2>10. AllBlank(b)
    BY <1>1, <2>3 DEF AllBlank
  <2>11. l = v \o b
    <3>1. (h \o u) \o b = h \o (u \o b)
      <4>1. \A s, t \in Text : (h \o s) \o t = h \o (s \o t)
        BY CatLaws, Zenon
      <4>2. \A t \in Text : (h \o u) \o t = h \o (u \o t)
        BY <4>1, Zenon
      <4>3. QED
        BY <4>2, Zenon
    <3>2. QED
      BY <1>4, <2>6, <2>7, <3>1
  <2>12. TrimEnd(l) = v
    BY <2>9, <2>10, <2>11, TrimEndCat
  <2>13. ~(Len(v) < 2 \/ v[1] # "D")
    BY <2>7, <2>9
  <2>14. Decode(Encode(Decode(u))) = a
    BY <2>5, DecodeEncode
  <2>15. QED
    BY <1>7, <2>2, <2>7, <2>12, <2>13, <2>14
<1>10. QED
  BY <1>8, <1>9, LastOther

-----------------------------------------------------------------------------
(* What a connect finds *)

\* The invariant, with what this connect finds.
Known == IInv /\ case \in Cases

\* secret-tool and its end of line: a text that does not end in one comes back as it is.
LEMMA LookupIs ==
  ASSUME NEW s \in Text
  PROVE  /\ Lookup(s) \in Text \cup {None}
         /\ s # <<>> /\ s[Len(s)] # "LF" => Lookup(s) = s
<1> DEFINE Without(t, c) ==
             IF t # <<>> /\ t[Len(t)] = c THEN SubSeq(t, 1, Len(t) - 1) ELSE t
           kept == IF Without(s, "LF") = s THEN s ELSE Without(Without(s, "LF"), "CR")
<1>1. ASSUME NEW t \in Text, NEW c PROVE Without(t, c) \in Text
  <2>1. CASE t # <<>> /\ t[Len(t)] = c
    <3>1. PICK n \in Nat : n = Len(t) - 1 /\ n <= Len(t)
      <4>1. Len(t) \in Nat /\ Len(t) # 0
        BY <2>1, EmptySeq DEF Text
      <4>2. Len(t) - 1 \in Nat /\ Len(t) - 1 <= Len(t)
        BY <4>1
      <4>3. QED
        BY <4>2, Zenon
    <3>2. SubSeq(t, 1, n) \in Text
      BY <3>1, PrefixFacts
    <3>3. QED
      BY <2>1, <3>1, <3>2
  <2>2. CASE ~(t # <<>> /\ t[Len(t)] = c)
    BY <2>2
  <2>3. QED
    BY <2>1, <2>2
<1>2. kept \in Text
  <2> HIDE DEF Without
  <2>1. QED
    BY <1>1
<1>3. Lookup(s) = IF kept = <<>> THEN None ELSE kept
  BY DEF Lookup
<1>4. s # <<>> /\ s[Len(s)] # "LF" => kept = s
  OBVIOUS
<1> HIDE DEF kept
<1>5. QED
  BY <1>2, <1>3, <1>4

LEMMA CaseFacts ==
  ASSUME NEW c \in Cases
  PROVE  /\ c.machine \in Machine /\ c.others \in BOOLEAN /\ ProfileOf(c.profile)
         /\ c.stored \in Text \cup {None} /\ c.next \in Text \cup {None}
         /\ c.next # <<>> => c.next[Len(c.next)] # "LF"
BY LaunchAssumption DEF ProfileOf

LEMMA NoneIsNoText == None \notin Text
<1>1. ASSUME None \in Text PROVE FALSE
  <2>1. Len(None) = 1 /\ None[1] = "none"
    BY DEF None
  <2>2. None[1] \in Char
    BY <1>1, <2>1, TextFacts
  <2>3. QED
    BY <2>1, <2>2 DEF Char
<1>2. QED
  BY <1>1

LEMMA KnownFacts ==
  ASSUME Known
  PROVE  /\ machine \in Machine /\ ProfileOf(profile)
         /\ case.stored \in Text \cup {None} /\ case.next \in Text \cup {None}
         /\ case.next # <<>> => case.next[Len(case.next)] # "LF"
         /\ stored \in Text \cup {None} /\ Password \in Text \cup {None}
<1>1. /\ machine \in Machine /\ ProfileOf(profile)
      /\ case.stored \in Text \cup {None} /\ case.next \in Text \cup {None}
      /\ case.next # <<>> => case.next[Len(case.next)] # "LF"
  BY CaseFacts DEF Known, machine, profile
<1>2. stored \in Text \cup {None}
  BY <1>1 DEF Known, IInv, TypeOK
<1>3. Password \in Text \cup {None}
  BY <1>2, LookupIs DEF Password
<1>4. QED
  BY <1>1, <1>2, <1>3

\* A password that the user saves can be read.
LEMMA SavedIsFound ==
  ASSUME Known, case.next \notin {None, <<>>}
  PROVE  case.next # None /\ Lookup(case.next) # None
<1>1. case.next \in Text /\ case.next[Len(case.next)] # "LF" /\ case.next # <<>>
  BY KnownFacts
<1>2. QED
  BY <1>1, LookupIs

\* What is missing of a machine that the doctor let through, and a profile that is
\* ready.
LEMMA RefusalIs ==
  ASSUME machine \in Machine, ~DoctorBlocks(machine), Ready(profile),
         StartRefusal # "nothing"
  PROVE  \/ StartRefusal = "password" /\ Password = None
         \/ StartRefusal = "openfortivpn" /\ machine.vpn = "gone"
         \/ /\ StartRefusal = "elevate"
            /\ machine.elevate = "sudo" \/ "usr" \notin machine.path
<1> DEFINE d == DefaultConfig(machine)
<1>1. /\ d.at = machine.at /\ d.path = machine.path /\ d.var = machine.var
      /\ d.vpn = "unset" /\ d.pin = "unset"
  BY DEF DefaultConfig, Machine
<1>2. /\ ResolveOpenfortivpn(d) /\ Which(machine, "secret-tool")
      /\ FindBin(machine, "pkexec", {"usr"})
      /\ ResolvePinentryBin(d) /\ ResolveHelper(machine)
  BY DEF DoctorBlocks
<1> HIDE DEF d
<1>3. ResolvePinentryBin(machine)
  BY <1>1, <1>2 DEF ResolvePinentryBin, Which
<1>4. machine.vpn # "gone" => ResolveOpenfortivpn(machine)
  <2>1. machine.vpn \in {"unset", "file", "gone", "name"}
    BY DEF Machine
  <2>2. QED
    BY <1>1, <1>2, <2>1 DEF ResolveOpenfortivpn, Which
<1>5. ~Which(machine, machine.elevate) =>
        machine.elevate = "sudo" \/ "usr" \notin machine.path
  <2>1. machine.elevate \in {"pkexec", "sudo"}
    BY DEF Machine
  <2>2. QED
    BY <1>2, <2>1 DEF FindBin, Which
<1>6. QED
  BY <1>2, <1>3, <1>4, <1>5 DEF StartRefusal

-----------------------------------------------------------------------------
(* The steps *)

\* What the app and the child do.
Acts ==
  \/ BeginConnect \/ SavePassword \/ ClearPassword \/ StartSession \/ HelperStart
  \/ VpnExits \/ DropBegin \/ DropEnd

\* What is done over the socket.
Talks == Serve \/ (\E c \in Client : Connect(c)) \/ GetPin \/ Answer \/ GiveUp

LEMMA NextIs == [Next]_vars => Acts \/ Talks \/ UNCHANGED vars
BY DEF Next, Acts, Talks

LEMMA ActsKeep ==
  ASSUME Acts
  PROVE  /\ UNCHANGED peers /\ UNCHANGED <<queue, cur, behind, served>> /\ case' = case
         /\ server' = server \/ (StartSession /\ server' = "accept")
BY DEF Acts, BeginConnect, SavePassword, ClearPassword, StartSession, HelperStart, VpnExits,
       DropBegin, DropEnd, launch, files, thread, peers

LEMMA TalksKeep ==
  ASSUME Talks
  PROVE  UNCHANGED launch /\ UNCHANGED files
BY DEF Talks, Serve, Accept, AcceptNobody, Handle, Look, Connect, GetPin, Answer, GiveUp

LEMMA SameCase ==
  ASSUME Known, [Next]_vars
  PROVE  case' = case /\ case' \in Cases /\ machine' = machine /\ profile' = profile
<1>1. case' = case
  <2>1. CASE Acts
    BY <2>1, ActsKeep
  <2>2. CASE Talks
    BY <2>2, TalksKeep DEF launch
  <2>3. CASE UNCHANGED vars
    BY <2>3 DEF vars, launch
  <2>4. QED
    BY <2>1, <2>2, <2>3, NextIs
<1>2. QED
  BY <1>1 DEF Known, machine, profile

\* The gate.
LEMMA GateStep ==
  ASSUME Known, [Next]_vars
  PROVE  GateSound' /\ GateHeld'
<1>1. /\ GateSound /\ GateHeld /\ machine \in Machine
      /\ machine' = machine /\ profile' = profile
  BY KnownFacts, SameCase DEF Known, IInv
<1>2. CASE UNCHANGED launch
  BY <1>1, <1>2 DEF launch, GateSound, GateHeld, Password
<1>3. CASE BeginConnect
  BY <1>1, <1>3 DEF BeginConnect, GateSound, GateHeld, Password
<1>4. CASE SavePassword
  <2>1. stored' # None /\ Password' # None /\ stage' = "code" /\ stage = "code"
    BY <1>4, SavedIsFound DEF SavePassword, Password
  <2>2. QED
    BY <1>1, <2>1 DEF GateSound, GateHeld
<1>5. CASE ClearPassword
  BY <1>1, <1>5 DEF ClearPassword, GateSound, GateHeld
<1>6. CASE StartSession
  <2>1. /\ stage = "code" /\ stored' = stored /\ ~DoctorBlocks(machine) /\ Ready(profile)
        /\ Password # None \/ stored = None
    BY <1>1, <1>6 DEF StartSession, GateHeld
  <2>2. CASE StartRefusal # "nothing"
    <3>1. stage' = "failed" /\ why' = StartRefusal
      BY <1>6, <2>2 DEF StartSession
    <3>2. GateSound'
      BY <1>1, <2>1, <2>2, <3>1, RefusalIs DEF GateSound
    <3>3. QED
      BY <1>1, <2>1, <3>1, <3>2 DEF GateHeld
  <2>3. CASE StartRefusal = "nothing"
    <3>1. stage' = "started"
      BY <1>6, <2>3 DEF StartSession
    <3>2. QED
      BY <1>1, <2>1, <3>1 DEF GateSound, GateHeld
  <2>4. QED
    BY <2>2, <2>3
<1>7. CASE HelperStart \/ VpnExits \/ DropBegin \/ DropEnd
  <2>1. stage' \in {"dropped", "closed"} \/ (stage' = stage /\ child # "none")
    BY <1>7 DEF HelperStart, VpnExits, DropBegin, DropEnd
  <2>2. child # "none" => stage \in Begun
    BY DEF Known, IInv, Staged
  <2>3. stage' # "failed" /\ stage' # "code"
    BY <2>1, <2>2 DEF Begun
  <2>4. stage' \notin {"asked", "refused"} => stage \notin {"asked", "refused"}
    BY <1>7, <2>1 DEF HelperStart, VpnExits, DropBegin, DropEnd
  <2>5. QED
    BY <1>1, <2>3, <2>4 DEF GateSound, GateHeld
<1>8. QED
  BY <1>2, <1>3, <1>4, <1>5, <1>6, <1>7, NextIs, TalksKeep DEF Acts, vars

\* What there is at each stage.
LEMMA StagedStep ==
  ASSUME Known, [Next]_vars
  PROVE  Staged'
<1>1. /\ Staged /\ GateHeld /\ TypeOK /\ profile' = profile
  BY SameCase DEF Known, IInv
<1>2. CASE Talks
  <2>1. UNCHANGED <<case, stored, stage, child, why, conf, path>>
    BY <1>2, TalksKeep DEF launch, files
  <2>2. CASE stage \in Begun
    <3>1. server' = "gone" => server = "gone" \/ ~path
      BY <1>2 DEF Talks, Serve, Accept, AcceptNobody, Handle, Look, Connect, GetPin, Answer,
                  GiveUp, thread
    <3>2. QED
      BY <1>1, <2>1, <2>2, <3>1 DEF Staged, Password
  <2>3. CASE stage \notin Begun
    <3>1. /\ server = "none" /\ ~path /\ child = "none" /\ reply = None
          /\ client[Pinentry] = "away"
      BY <1>1, <2>3 DEF Staged, Begun, Client
    <3>2. FALSE
      BY <1>2, <3>1 DEF Talks, Serve, Accept, AcceptNobody, Handle, Look, Connect, Arrive,
                        GetPin, Answer, GiveUp
    <3>3. QED
      BY <3>2
  <2>4. QED
    BY <2>2, <2>3
<1>3. CASE BeginConnect
  BY <1>1, <1>3, ActsKeep DEF Acts, BeginConnect, Staged, Begun, files, thread, peers
<1>4. CASE SavePassword \/ ClearPassword
  BY <1>1, <1>4 DEF SavePassword, ClearPassword, Staged, Begun, files, thread, peers
<1>5. CASE StartSession
  <2>1. CASE StartRefusal # "nothing"
    BY <1>1, <1>5, <2>1 DEF StartSession, Staged, Begun, files, peers
  <2>2. CASE StartRefusal = "nothing"
    <3>1. Password # None
      BY <2>2 DEF StartRefusal
    <3>2. Password' # None
      BY <1>5, <3>1 DEF StartSession, Password
    <3>3. QED
      BY <1>1, <1>5, <2>2, <3>2 DEF StartSession, Staged, Begun
  <2>3. QED
    BY <2>1, <2>2
<1>6. CASE HelperStart \/ VpnExits
  BY <1>1, <1>6 DEF HelperStart, VpnExits, Staged, Begun, files, thread, peers, Password
<1>7. CASE DropBegin
  BY <1>1, <1>7 DEF DropBegin, Staged, Begun, thread, peers, Password
<1>8. CASE DropEnd
  BY <1>1, <1>8 DEF DropEnd, Staged, Begun, thread, peers, Password
<1>9. CASE UNCHANGED vars
  BY <1>1, <1>9 DEF vars, launch, files, thread, peers, Staged, Password
<1>10. QED
  BY <1>2, <1>3, <1>4, <1>5, <1>6, <1>7, <1>8, <1>9, NextIs DEF Acts

\* What the helper was told.
LEMMA HelperLookedStep ==
  ASSUME Known, [Next]_vars
  PROVE  HelperLooked'
<1>1. /\ HelperLooked /\ Staged /\ profile' = profile
  BY SameCase DEF Known, IInv
<1>2. CASE UNCHANGED launch
  BY <1>1, <1>2 DEF launch, HelperLooked
<1>3. CASE BeginConnect
  BY <1>1, <1>3 DEF BeginConnect, HelperLooked, Staged, Begun
<1>4. CASE SavePassword \/ ClearPassword
  BY <1>1, <1>4 DEF SavePassword, ClearPassword, HelperLooked, Staged, Begun
<1>5. CASE StartSession
  BY <1>1, <1>5 DEF StartSession, HelperLooked, Staged, Begun
<1>6. CASE HelperStart
  <2>1. /\ child = "polkit" /\ stage \in Begun /\ stage' = stage /\ why = "nothing"
        /\ conf = IF stage = "closed" THEN None ELSE Render(profile, "code")
    BY <1>1, <1>6 DEF HelperStart, HelperLooked, Staged, Begun
  <2>3. HelperRefusal = "nothing" => Accepts(Render(profile, "code"))
    BY <2>1 DEF HelperRefusal
  <2>4. HelperRefusal = "config" /\ stage # "closed" =>
          ~Accepts(Render(profile, "code")) \/ Render(profile, "code") = None
    BY <2>1 DEF HelperRefusal
  <2>5. Render(profile, "code") # None
    <3>1. Ready(profile) /\ ProfileOf(profile)
      BY <2>1, KnownFacts DEF Known, IInv, GateHeld, Begun
    <3>2. QED
      BY <3>1, PairsOfRender, NoneIsNoText
  <2>6. QED
    BY <1>1, <1>6, <2>1, <2>3, <2>4, <2>5 DEF HelperStart, HelperLooked, Begun
<1>7. CASE VpnExits
  BY <1>1, <1>7 DEF VpnExits, HelperLooked, Staged, Begun
<1>8. CASE DropBegin \/ DropEnd
  BY <1>1, <1>8 DEF DropBegin, DropEnd, HelperLooked, Staged, Begun
<1>9. QED
  BY <1>2, <1>3, <1>4, <1>5, <1>6, <1>7, <1>8, NextIs, TalksKeep DEF Acts, vars

\* The helper takes what HelperWillTake says, and what it takes says what the profile
\* does.
LEMMA TakesIs ==
  ASSUME NEW p, ProfileOf(p), Ready(p)
  PROVE  /\ Accepts(Render(p, "code")) <=> HelperWillTake(p)
         /\ Accepts(Render(p, "code")) => Pairs(Render(p, "code")) = Fields(p)
<1>1. HelperWillTake(p) <=> /\ HostOk(p.host) /\ NameOk(p.username) /\ NameOk(p.realm)
                            /\ PinOk(p.cert)
  BY DEF HelperWillTake, HostOk, NameOk, Edge, PinOk
<1>2. ASSUME Accepts(Render(p, "code")) PROVE Pairs(Render(p, "code")) = Fields(p)
  <2>1. PinPairs(p) = {<<ToText("trusted-cert"), ToText("hex")>> : c \in {p.cert} \ {Unset}}
    <3>1. PinPairs(p) = IF p.cert = Unset THEN {} ELSE {<<<<PinKey>>, <<"hex">>>>}
      BY <1>2, AcceptsIs
    <3>2. QED
      BY <3>1 DEF ToText, PinKey
  <2>2. RealmPairs(p) =
          {<<ToText("realm"), Trim(r)>> : r \in {r \in {p.realm} : Chars(r) \ Blank # {}}}
    <3>1. p.realm \in Text /\ DOMAIN p.realm = 1..Len(p.realm)
      BY TextFacts DEF ProfileOf
    <3>2. Chars(p.realm) \ Blank = {} <=> AllBlank(p.realm)
      BY <3>1 DEF Chars, AllBlank
    <3>3. AllBlank(p.realm) <=> Trim(p.realm) = <<>>
      <4>1. CASE AllBlank(p.realm)
        BY <3>1, <4>1, TrimBlank
      <4>2. CASE ~AllBlank(p.realm)
        <5>1. PICK a \in 1..Len(p.realm), b \in 1..Len(p.realm) :
                Core(p.realm, a, b) /\ Len(Trim(p.realm)) = b - a + 1
          BY <3>1, <4>2, TrimCases
        <5>2. a <= b /\ Len(p.realm) \in Nat
          BY <3>1, <5>1, TextFacts DEF Core
        <5>3. Len(Trim(p.realm)) # 0
          BY <5>1, <5>2
        <5>4. QED
          BY <4>2, <5>3, EmptyText
      <4>3. QED
        BY <4>1, <4>2
    <3>4. QED
      BY <3>2, <3>3 DEF RealmPairs, ToText
  <2>3. Fields(p) = {<<<<"host">>, Trim(p.host)>>, <<<<"port">>, <<"port">>>>,
                     <<<<"username">>, Trim(p.username)>>,
                     <<<<"no-ftm-push">>, <<"1">>>>, <<<<"otp">>, <<"code">>>>}
                    \cup RealmPairs(p) \cup PinPairs(p)
    BY <2>1, <2>2 DEF Fields, ToText
  <2>4. QED
    BY <2>3, PairsOfRender
<1>3. QED
  BY <1>1, <1>2, AcceptsIs

\* The queue.
LEMMA QueueStep ==
  ASSUME Known, [Next]_vars
  PROVE  QueueWaits'
<1>1. /\ QueueWaits /\ Staged /\ queue \in Seq(Client) /\ client \in [Client -> {"away",
            "waiting", "answered", "refused", "cutOff"}] /\ cur \in Client
  BY DEF Known, IInv, TypeOK
<1>2. PICK n \in Nat : n = Len(queue) /\ \A i \in 1..n : queue[i] \in Client
  BY <1>1
<1>3. CASE Acts
  <2>1. UNCHANGED <<queue, client, cur>> /\ (server' = "handle" => server = "handle")
    BY <1>3, ActsKeep DEF peers
  <2>2. QED
    BY <1>1, <2>1 DEF QueueWaits
<1>4. CASE Accept
  <2>1. /\ server = "accept" /\ n # 0 /\ queue' = Tail(queue)
    BY <1>1, <1>2, <1>4 DEF Accept
  <2>2. /\ Len(queue') = n - 1 /\ \A i \in 1..(n - 1) : queue'[i] = queue[i + 1]
        /\ Head(queue) = queue[1]
    BY <1>1, <1>2, <2>1
  <2>3. PICK c \in Client : c = queue[1] /\ client[c] = "waiting"
    BY <1>1, <1>2, <2>1 DEF QueueWaits
  <2>4. ASSUME NEW i \in 1..(n - 1)
        PROVE  /\ client[queue'[i]] = "waiting" /\ queue'[i] # c
               /\ \A j \in 1..(n - 1) : queue'[i] = queue'[j] => i = j
    <3>1. i + 1 \in 1..n /\ i + 1 # 1 /\ 1 \in 1..n
      BY <2>1
    <3>2. client[queue[i + 1]] = "waiting" /\ queue[i + 1] # c
      BY <1>1, <1>2, <2>3, <3>1 DEF QueueWaits
    <3>3. ASSUME NEW j \in 1..(n - 1), queue'[i] = queue'[j] PROVE i = j
      <4>1. j + 1 \in 1..n /\ queue[i + 1] = queue[j + 1]
        BY <2>2, <3>3
      <4>2. i + 1 = j + 1
        BY <1>1, <1>2, <3>1, <4>1 DEF QueueWaits
      <4>3. QED
        BY <4>2
    <3>4. QED
      BY <2>2, <3>2, <3>3
  <2>5. CASE c \in Refused \/ served >= MaxServes
    <3>1. server' = "accept" /\ client' = [client EXCEPT ![c] = "refused"]
      BY <1>4, <2>1, <2>2, <2>3, <2>5 DEF Accept, Become
    <3>2. \A i \in 1..(n - 1) : queue'[i] \in Client
      BY <1>2, <2>2
    <3>3. QED
      BY <1>1, <2>2, <2>4, <3>1, <3>2 DEF QueueWaits
  <2>6. CASE ~(c \in Refused \/ served >= MaxServes)
    <3>1. server' = "handle" /\ cur' = c /\ client' = client
      BY <1>4, <2>1, <2>2, <2>3, <2>6 DEF Accept
    <3>2. QED
      BY <2>2, <2>3, <2>4, <2>6, <3>1 DEF QueueWaits
  <2>7. QED
    BY <2>5, <2>6
<1>5. CASE AcceptNobody \/ Answer \/ GiveUp
  BY <1>1, <1>5 DEF AcceptNobody, Answer, GiveUp, QueueWaits, thread, peers
<1>6. CASE Handle
  <2>1. PICK x : client' = [client EXCEPT ![cur] = x]
    BY <1>6 DEF Handle, Become
  <2>2. queue' = queue /\ server = "handle" /\ server' = "look"
    BY <1>6 DEF Handle
  <2>3. QED
    BY <1>1, <1>2, <2>1, <2>2 DEF QueueWaits
<1>7. CASE Look
  <2>1. CASE path
    BY <1>1, <1>7, <2>1 DEF Look, QueueWaits
  <2>2. CASE ~path
    BY <1>7, <2>2 DEF Look, QueueWaits
  <2>3. QED
    BY <2>1, <2>2
<1>8. ASSUME NEW c \in Client, NEW text, Arrive(c, text), UNCHANGED <<server, cur>>
      PROVE  QueueWaits'
  <2>1. /\ queue' = Append(queue, c) /\ client' = [client EXCEPT ![c] = "waiting"]
        /\ client[c] = "away"
    BY <1>8 DEF Arrive, Become
  <2>2. /\ Len(queue') = n + 1 /\ queue'[n + 1] = c /\ \A i \in 1..n : queue'[i] = queue[i]
    BY <1>1, <1>2, <2>1
  <2>3. \A i \in 1..n : queue[i] # c /\ client'[queue[i]] = "waiting"
    BY <1>1, <1>2, <2>1 DEF QueueWaits
  <2>4. client'[c] = "waiting" /\ (server = "handle" => c # cur)
    BY <1>1, <2>1 DEF QueueWaits
  <2>5. ASSUME NEW i \in 1..(n + 1)
        PROVE  /\ client'[queue'[i]] = "waiting"
               /\ server' = "handle" => queue'[i] # cur'
               /\ \A j \in 1..(n + 1) : queue'[i] = queue'[j] => i = j
    <3>1. CASE i = n + 1
      BY <1>8, <2>2, <2>3, <2>4, <3>1
    <3>2. CASE i # n + 1
      <4>1. i \in 1..n
        BY <3>2
      <4>2. \A j \in 1..(n + 1) : j = n + 1 \/ j \in 1..n
        OBVIOUS
      <4>3. QED
        BY <1>1, <1>2, <1>8, <2>2, <2>3, <4>1, <4>2 DEF QueueWaits
    <3>3. QED
      BY <3>1, <3>2
  <2>6. server' = "handle" => client'[cur'] = "waiting" /\ cur' \notin Refused
    BY <1>1, <1>8, <2>1 DEF QueueWaits
  <2>7. QED
    BY <2>2, <2>5, <2>6 DEF QueueWaits
<1>9. ASSUME NEW c \in Client, Connect(c) PROVE QueueWaits'
  BY <1>8, <1>9 DEF Connect
<1>10. CASE GetPin
  <2>1. CASE path
    BY <1>8, <1>10, <2>1 DEF GetPin, Client
  <2>2. CASE ~path
    BY <1>1, <1>10, <2>2 DEF GetPin, QueueWaits
  <2>3. QED
    BY <2>1, <2>2
<1>11. CASE UNCHANGED vars
  BY <1>1, <1>11 DEF vars, thread, peers, QueueWaits
<1>12. QED
  BY <1>3, <1>4, <1>5, <1>6, <1>7, <1>9, <1>10, <1>11, NextIs DEF Talks, Serve

\* What is over stays over, and a request that was handled is one more.
LEMMA DoneStep ==
  ASSUME Known, [Next]_vars
  PROVE  /\ Cardinality(Done) \in Nat /\ Cardinality(Done') \in Nat
         /\ Cardinality(Done) <= Cardinality(Done')
         /\ Handle /\ cur \in Own => Cardinality(Done') = Cardinality(Done) + 1
<1>1. /\ QueueWaits
      /\ client \in [Client -> {"away", "waiting", "answered", "refused", "cutOff"}]
      /\ queue \in Seq(Client) /\ cur \in Client
  BY DEF Known, IInv, TypeOK
<1>2. IsFiniteSet(Own)
  BY LaunchAssumption, FS_Subset
<1>3. IsFiniteSet(Done) /\ IsFiniteSet(Done')
  <2>1. Done \in SUBSET Own /\ Done' \in SUBSET Own
    BY DEF Done
  <2>2. QED
    BY <1>2, <2>1, FS_Subset
<1>4. ASSUME NEW c \in Client, client[c] \in {"answered", "cutOff"}
      PROVE  client'[c] = client[c]
  <2>1. CASE Acts \/ UNCHANGED vars
    BY <2>1, ActsKeep DEF vars, peers
  <2>2. CASE Accept
    <3>1. queue # <<>> /\ Head(queue) = queue[1] /\ 1 \in 1..Len(queue)
      BY <1>1, <2>2 DEF Accept
    <3>2. client[Head(queue)] = "waiting"
      BY <1>1, <3>1 DEF QueueWaits
    <3>3. client' = client \/ client' = [client EXCEPT ![Head(queue)] = "refused"]
      BY <2>2 DEF Accept, Become
    <3>4. QED
      BY <1>1, <1>4, <3>2, <3>3
  <2>3. CASE AcceptNobody \/ Answer \/ GiveUp
    BY <2>3 DEF AcceptNobody, Answer, GiveUp, peers
  <2>4. CASE Handle
    <3>1. client[cur] = "waiting" /\ \E x : client' = [client EXCEPT ![cur] = x]
      BY <1>1, <2>4 DEF Handle, Become, QueueWaits
    <3>2. QED
      BY <1>1, <1>4, <3>1
  <2>5. CASE Look
    BY <1>1, <1>4, <2>5 DEF Look
  <2>6. CASE (\E x \in Client : Connect(x)) \/ GetPin
    <3>1. client' = client \/
            \E x \in Client : client[x] = "away" /\ client' = [client EXCEPT ![x] = "waiting"]
      BY <2>6 DEF Connect, GetPin, Arrive, Become, Client
    <3>2. QED
      BY <1>1, <1>4, <3>1
  <2>7. QED
    BY <2>1, <2>2, <2>3, <2>4, <2>5, <2>6, NextIs DEF Talks, Serve
<1>5. Done \in SUBSET (Done')
  BY <1>4 DEF Done, Client
<1>6. Cardinality(Done) \in Nat /\ Cardinality(Done') \in Nat
  BY <1>3, FS_CardinalityType
<1>7. Cardinality(Done) <= Cardinality(Done')
  BY <1>3, <1>5, FS_Subset
<1>8. ASSUME Handle, cur \in Own PROVE Cardinality(Done') = Cardinality(Done) + 1
  <2>1. client[cur] = "waiting"
    BY <1>1, <1>8 DEF Handle, QueueWaits
  <2>2. PICK x \in {"answered", "cutOff"} : client' = [client EXCEPT ![cur] = x]
    BY <1>8 DEF Handle, Become
  <2>3. Done' = Done \cup {cur} /\ cur \notin Done
    BY <1>1, <1>8, <2>1, <2>2 DEF Done, Client
  <2>4. QED
    BY <1>3, <2>3, FS_AddElement
<1>9. QED
  BY <1>6, <1>7, <1>8

\* The cap.
LEMMA CountedStep ==
  ASSUME Known, [Next]_vars
  PROVE  Counted'
<1>1. /\ Counted /\ QueueWaits /\ Staged /\ queue \in Seq(Client) /\ cur \in Client
      /\ client \in [Client -> {"away", "waiting", "answered", "refused", "cutOff"}]
      /\ served \in Nat /\ MaxServes \in Nat
      /\ Pinentry \in Client /\ Pinentry \notin Own /\ Pinentry \notin Refused
  BY LaunchAssumption DEF Known, IInv, TypeOK, Client
<1>2. PICK m \in Nat, n \in Nat : m = Cardinality(Done) /\ n = Cardinality(Done') /\ m <= n
  BY DoneStep
<1>3. /\ client[Pinentry] \in {"away", "waiting"} /\ ~(server = "handle" /\ cur = Pinentry) =>
           served <= m + (IF server = "handle" THEN 1 ELSE 0)
      /\ client[Pinentry] = "refused" => m >= MaxServes
  BY <1>1, <1>2 DEF Counted
<1> DEFINE Goal ==
  /\ client'[Pinentry] \in {"away", "waiting"} /\ ~(server' = "handle" /\ cur' = Pinentry) =>
       served' <= n + (IF server' = "handle" THEN 1 ELSE 0)
  /\ client'[Pinentry] = "refused" => n >= MaxServes
<1>4. Goal => Counted'
  BY <1>2 DEF Counted
<1> DEFINE Same ==
  /\ \/ client'[Pinentry] = client[Pinentry]
     \/ client[Pinentry] = "away" /\ client'[Pinentry] = "waiting"
  /\ cur' = cur /\ served' = served
  /\ server' = "handle" <=> server = "handle"
<1>5. Same => Goal
  BY <1>1, <1>2, <1>3
<1>6. CASE Acts
  <2>1. client' = client /\ cur' = cur /\ served' = served
    BY <1>6, ActsKeep DEF peers
  <2>2. server' = "handle" <=> server = "handle"
    <3>1. CASE server' = server
      BY <3>1
    <3>2. CASE server' # server
      <4>1. stage = "code" /\ server' = "accept"
        BY <1>6, <3>2, ActsKeep DEF StartSession
      <4>2. server = "none"
        BY <1>1, <4>1 DEF Staged, Begun
      <4>3. QED
        BY <4>1, <4>2
    <3>3. QED
      BY <3>1, <3>2
  <2>3. QED
    BY <1>4, <1>5, <2>1, <2>2
<1>7. CASE Accept
  <2>1. /\ server = "accept" /\ queue # <<>>
        /\ Head(queue) = queue[1] /\ 1 \in 1..Len(queue)
    BY <1>1, <1>7 DEF Accept
  <2>2. PICK c \in Client : c = Head(queue) /\ client[c] = "waiting"
    BY <1>1, <2>1 DEF QueueWaits
  <2>3. CASE c \in Refused \/ served >= MaxServes
    <3>1. /\ client' = [client EXCEPT ![c] = "refused"] /\ server' = server
          /\ cur' = cur /\ served' = served
      BY <1>7, <2>2, <2>3 DEF Accept, Become
    <3>2. CASE c = Pinentry
      <4>1. client'[Pinentry] = "refused" /\ served >= MaxServes /\ served <= m
        BY <1>1, <1>3, <2>1, <2>2, <2>3, <3>1, <3>2
      <4>2. QED
        BY <1>1, <1>2, <1>4, <4>1
    <3>3. CASE c # Pinentry
      <4>1. client'[Pinentry] = client[Pinentry]
        BY <1>1, <3>1, <3>3
      <4>2. QED
        BY <1>4, <1>5, <3>1, <4>1
    <3>4. QED
      BY <3>2, <3>3
  <2>4. CASE ~(c \in Refused \/ served >= MaxServes)
    <3>1. client' = client /\ server' = "handle" /\ cur' = c /\ served' = served + 1
      BY <1>7, <2>2, <2>4 DEF Accept
    <3>2. QED
      BY <1>1, <1>2, <1>3, <1>4, <2>1, <3>1
  <2>5. QED
    BY <2>3, <2>4
<1>8. CASE AcceptNobody \/ Answer \/ GiveUp
  BY <1>4, <1>5, <1>8 DEF AcceptNobody, Answer, GiveUp, peers, thread
<1>9. CASE Handle
  <2>1. /\ server = "handle" /\ server' = "look" /\ served' = served /\ cur' = cur
        /\ client[cur] = "waiting" /\ cur \notin Refused
    BY <1>1, <1>9 DEF Handle, QueueWaits
  <2>2. PICK x \in {"answered", "cutOff"} : client' = [client EXCEPT ![cur] = x]
    BY <1>9 DEF Handle, Become
  <2>3. CASE cur = Pinentry
    <3>1. client'[Pinentry] \in {"answered", "cutOff"}
      BY <1>1, <2>2, <2>3
    <3>2. QED
      BY <1>4, <3>1
  <2>4. CASE cur # Pinentry
    <3>1. cur \in Own /\ client'[Pinentry] = client[Pinentry]
      BY <1>1, <2>1, <2>2, <2>4 DEF Client
    <3>2. n = m + 1
      BY <1>2, <1>9, <3>1, DoneStep
    <3>3. QED
      BY <1>1, <1>2, <1>3, <1>4, <2>1, <2>4, <3>1, <3>2
  <2>5. QED
    BY <2>3, <2>4
<1>10. CASE Look
  <2>1. /\ server = "look" /\ server' # "handle" /\ cur' = cur /\ served' = served
    BY <1>10 DEF Look
  <2>2. client'[Pinentry] = client[Pinentry] \/ client'[Pinentry] = "cutOff"
    BY <1>1, <1>10 DEF Look
  <2>3. client'[Pinentry] = "cutOff" => Goal
    OBVIOUS
  <2>4. QED
    BY <1>4, <1>5, <2>1, <2>2, <2>3
<1>11. ASSUME NEW c \in Client, NEW text, Arrive(c, text), UNCHANGED <<server, cur, served>>
       PROVE  Goal
  <2>1. client[c] = "away" /\ client' = [client EXCEPT ![c] = "waiting"]
    BY <1>11 DEF Arrive, Become
  <2>2. \/ client'[Pinentry] = client[Pinentry]
        \/ client[Pinentry] = "away" /\ client'[Pinentry] = "waiting"
    <3>1. CASE c = Pinentry
      BY <1>1, <2>1, <3>1
    <3>2. CASE c # Pinentry
      BY <1>1, <2>1, <3>2
    <3>3. QED
      BY <3>1, <3>2
  <2>3. QED
    BY <1>5, <1>11, <2>2
<1>12. ASSUME NEW c \in Client, Connect(c) PROVE Goal
  BY <1>11, <1>12 DEF Connect
<1>13. CASE GetPin
  <2>1. CASE path
    <3>1. Arrive(Pinentry, "GET") /\ UNCHANGED <<server, cur, served>>
      BY <1>13, <2>1 DEF GetPin
    <3>2. QED
      BY <1>1, <1>4, <1>11, <3>1
  <2>2. CASE ~path
    <3>1. Same
      BY <1>13, <2>2 DEF GetPin
    <3>2. QED
      BY <1>4, <1>5, <3>1
  <2>3. QED
    BY <1>4, <2>1, <2>2
<1>14. CASE UNCHANGED vars
  BY <1>4, <1>5, <1>14 DEF vars, peers, thread
<1>15. QED
  BY <1>4, <1>6, <1>7, <1>8, <1>9, <1>10, <1>12, <1>13, <1>14, NextIs DEF Talks, Serve

\* The line on the socket is none of the other things that pinentry-tofv can read.
LEMMA ReplyShape ==
  /\ \A p \in Text : Reply(p)[1] = "D" /\ Reply(p) # None
  /\ Error # None
<1>1. Error # None
  <2>1. Error[1] = "ERR" /\ None[1] = "none"
    BY DEF Error, None
  <2>2. QED
    BY <2>1
<1>2. ASSUME NEW p \in Text PROVE Reply(p)[1] = "D"
  <2>1. "D" \in Char /\ "SP" \in Char /\ "LF" \in Char
    BY DEF Char
  <2>2. PICK h \in Text, e \in Text : h = <<"D", "SP">> /\ e = <<"LF">>
    <3>1. <<"D", "SP">> \in Text /\ <<"LF">> \in Text
      BY <2>1 DEF Text
    <3>2. QED
      BY <3>1, Zenon
  <2>3. PICK l \in Text : l = h \o Encode(p) /\ Len(l) = 2 + Len(Encode(p)) /\ l[1] = "D"
    <3>1. Encode(p) \in Text
      BY EncodeText
    <3>2. /\ h \o Encode(p) \in Text /\ Len(h \o Encode(p)) = 2 + Len(Encode(p))
          /\ (h \o Encode(p))[1] = "D"
      BY <2>1, <2>2, <3>1, AfterTwo
    <3>3. QED
      BY <3>2, Zenon
  <2>4. 1 \in 1..Len(l)
    <3>1. Len(Encode(p)) \in Nat
      BY EncodeText, TextFacts
    <3>2. QED
      BY <2>3, <3>1
  <2>5. (l \o e)[1] = l[1]
    BY <2>4, CatFacts
  <2>6. QED
    BY <2>2, <2>3, <2>5 DEF Reply
<1>3. None[1] = "none"
  BY DEF None
<1>4. QED
  BY <1>1, <1>2, <1>3

\* What a session has, it keeps: the password, and that its path is gone.
LEMMA BegunKeep ==
  ASSUME Known, [Next]_vars, stage \in Begun
  PROVE  Password \in Text /\ Password' = Password /\ stored' = stored /\ (~path => ~path')
<1>1. Password \in Text
  BY KnownFacts DEF Known, IInv, Staged
<1>2. stored' = stored /\ (~path => ~path')
  <2>1. CASE Acts
    BY <2>1 DEF Acts, BeginConnect, SavePassword, ClearPassword, StartSession, HelperStart,
                VpnExits, DropBegin, DropEnd, Begun, files
  <2>2. CASE Talks
    BY <2>2, TalksKeep DEF launch, files
  <2>3. CASE UNCHANGED vars
    BY <2>3 DEF vars, launch, files
  <2>4. QED
    BY <2>1, <2>2, <2>3, NextIs
<1>3. Password' = Password
  BY <1>2 DEF Password
<1>4. QED
  BY <1>1, <1>2, <1>3

\* What pinentry-tofv can read.
LEMMA ReplyStep ==
  ASSUME Known, [Next]_vars
  PROVE  ReplyFits'
<1>1. /\ ReplyFits /\ QueueWaits /\ Staged /\ queue \in Seq(Client) /\ cur \in Client
      /\ client \in [Client -> {"away", "waiting", "answered", "refused", "cutOff"}]
      /\ says \in [Client -> {"nothing", "GET", "other"}]
      /\ Pinentry \in Client /\ Pinentry \notin Refused
  BY LaunchAssumption DEF Known, IInv, TypeOK, Client
<1>2. client[Pinentry] # "away" => stage \in Begun
  BY <1>1 DEF Staged
<1>3. stage \in Begun => /\ Password \in Text /\ Password' = Password
                         /\ ~path => ~path'
  BY BegunKeep
<1> DEFINE Same == client'[Pinentry] = client[Pinentry] /\ reply' = reply
                   /\ says'[Pinentry] = says[Pinentry]
<1>4. ASSUME Same PROVE ReplyFits'
  BY <1>1, <1>2, <1>3, <1>4 DEF ReplyFits
<1>5. CASE Acts \/ UNCHANGED vars
  <2>1. Same
    BY <1>5, ActsKeep DEF vars, peers
  <2>2. QED
    BY <1>4, <2>1
<1>6. CASE Accept
  <2>1. /\ server = "accept" /\ queue # <<>>
        /\ Head(queue) = queue[1] /\ 1 \in 1..Len(queue)
    BY <1>1, <1>6 DEF Accept
  <2>2. PICK c \in Client : c = Head(queue) /\ client[c] = "waiting"
    BY <1>1, <2>1 DEF QueueWaits
  <2>3. CASE c \in Refused \/ served >= MaxServes
    <3>1. /\ client' = [client EXCEPT ![c] = "refused"] /\ says' = says
          /\ reply' = IF c = Pinentry THEN Error ELSE reply
      BY <1>6, <2>2, <2>3 DEF Accept, Become
    <3>2. CASE c = Pinentry
      BY <1>1, <2>2, <3>1, <3>2, ReplyShape DEF ReplyFits
    <3>3. CASE c # Pinentry
      <4>1. Same
        BY <1>1, <3>1, <3>3
      <4>2. QED
        BY <1>4, <4>1
    <3>4. QED
      BY <3>2, <3>3
  <2>4. CASE ~(c \in Refused \/ served >= MaxServes)
    <3>1. Same
      BY <1>6, <2>2, <2>4 DEF Accept
    <3>2. QED
      BY <1>4, <3>1
  <2>5. QED
    BY <2>3, <2>4
<1>7. CASE AcceptNobody \/ Answer \/ GiveUp
  <2>1. Same
    BY <1>7 DEF AcceptNobody, Answer, GiveUp, peers
  <2>2. QED
    BY <1>4, <2>1
<1>8. CASE Handle
  <2>1. /\ client[cur] = "waiting" /\ says' = says
        /\ client' = [client EXCEPT ![cur] = IF says[cur] = "nothing" THEN "cutOff"
                                                                      ELSE "answered"]
        /\ reply' = IF cur = Pinentry THEN Reply(Password) ELSE reply
    BY <1>1, <1>8 DEF Handle, Become, QueueWaits
  <2>2. CASE cur = Pinentry
    <3>1. says[Pinentry] = "GET" /\ client'[Pinentry] = "answered"
      BY <1>1, <2>1, <2>2 DEF ReplyFits
    <3>2. reply' = Reply(Password') /\ reply' # None
      BY <1>2, <1>3, <2>1, <2>2, ReplyShape
    <3>3. QED
      BY <2>1, <3>1, <3>2 DEF ReplyFits
  <2>3. CASE cur # Pinentry
    <3>1. Same
      BY <1>1, <2>1, <2>3
    <3>2. QED
      BY <1>4, <3>1
  <2>4. QED
    BY <2>2, <2>3
<1>9. CASE Look
  <2>1. CASE path \/ client[Pinentry] # "waiting"
    <3>1. Same
      BY <1>1, <1>9, <2>1 DEF Look
    <3>2. QED
      BY <1>4, <3>1
  <2>2. CASE ~path /\ client[Pinentry] = "waiting"
    <3>1. /\ client'[Pinentry] = "cutOff" /\ reply' = Error /\ says' = says /\ path' = path
      BY <1>1, <1>9, <2>2 DEF Look, files
    <3>2. QED
      BY <1>1, <2>2, <3>1, ReplyShape DEF ReplyFits
  <2>3. QED
    BY <2>1, <2>2
<1>10. CASE \E c \in Client : Connect(c)
  <2>1. Same
    BY <1>1, <1>10 DEF Connect, Arrive, Become
  <2>2. QED
    BY <1>4, <2>1
<1>11. CASE GetPin
  <2>1. CASE path
    <3>1. /\ client[Pinentry] = "away" /\ reply' = reply /\ client'[Pinentry] = "waiting"
          /\ says'[Pinentry] = "GET"
      BY <1>1, <1>11, <2>1 DEF GetPin, Arrive, Become
    <3>2. QED
      BY <1>1, <3>1 DEF ReplyFits
  <2>2. CASE ~path
    <3>1. Same
      BY <1>11, <2>2 DEF GetPin
    <3>2. QED
      BY <1>4, <3>1
  <2>3. QED
    BY <2>1, <2>2
<1>12. QED
  BY <1>5, <1>6, <1>7, <1>8, <1>9, <1>10, <1>11, NextIs DEF Talks, Serve

\* An error line is no password.
LEMMA FetchedError == Fetched(Error) = Cancelled
<1>1. /\ Error = <<"ERR">> /\ DOMAIN Error = {1} /\ Error[1] = "ERR" /\ Len(Error) = 1
  BY DEF Error
<1>2. ReadLine(Error) = Error
  <2>1. {i \in DOMAIN Error : Error[i] = "LF"} = {}
    BY <1>1
  <2>2. QED
    BY <2>1 DEF ReadLine
<1>3. TrimEnd(Error) = SubSeq(Error, 1, 1)
  <2>1. {i \in DOMAIN Error : Error[i] \notin Blank} = {1}
    BY <1>1 DEF Blank
  <2>2. Max({1}) = 1
    BY DEF Max
  <2>3. QED
    BY <2>1, <2>2 DEF TrimEnd
<1>4. Len(SubSeq(Error, 1, 1)) = 1
  BY <1>1
<1>5. QED
  BY <1>2, <1>3, <1>4 DEF Fetched

\* A client that has connected has, and has sent what it sent.
LEMMA SaysStep ==
  ASSUME Known, [Next]_vars, NEW c \in Client, client[c] # "away"
  PROVE  client'[c] # "away" /\ says'[c] = says[c]
<1>1. /\ client \in [Client -> {"away", "waiting", "answered", "refused", "cutOff"}]
      /\ says \in [Client -> {"nothing", "GET", "other"}] /\ cur \in Client
  BY DEF Known, IInv, TypeOK
<1>2. CASE Acts \/ UNCHANGED vars
  BY <1>2, ActsKeep DEF vars, peers
<1>3. CASE Accept
  <2>1. says' = says
        /\ (client' = client \/ client' = [client EXCEPT ![Head(queue)] = "refused"])
    BY <1>3 DEF Accept, Become
  <2>2. QED
    BY <1>1, <2>1
<1>4. CASE AcceptNobody \/ Answer \/ GiveUp
  BY <1>4 DEF AcceptNobody, Answer, GiveUp, peers
<1>5. CASE Handle
  BY <1>1, <1>5 DEF Handle, Become
<1>6. CASE Look
  BY <1>1, <1>6 DEF Look
<1>7. CASE (\E x \in Client : Connect(x)) \/ GetPin
  <2>1. \/ says' = says /\ client' = client
        \/ \E x, text : /\ client[x] = "away" /\ client' = [client EXCEPT ![x] = "waiting"]
                        /\ says' = [says EXCEPT ![x] = text]
    BY <1>7 DEF Connect, GetPin, Arrive, Become
  <2>2. QED
    BY <1>1, <2>1
<1>8. QED
  BY <1>2, <1>3, <1>4, <1>5, <1>6, <1>7, NextIs DEF Talks, Serve

\* The password, and why there may be none: PasswordArrives, part by part.
Sent(p, g) ==
  \E n \in 1..Len(p) : /\ \A i \in (n + 1)..Len(p) : p[i] = "SP"
                       /\ ~\A i \in ((n - 1) + 1)..Len(p) : p[i] = "SP"
                       /\ g = <<"D">> \o SubSeq(p, 1, n)

AllSpaces(p) == \A i \in (0 + 1)..Len(p) : p[i] = "SP"

Kept == \E c \in Own : says[c] = "nothing" /\ client[c] # "away"

LEMMA ArrivesIs ==
  PasswordArrives <=>
    (got # None =>
       \/ Sent(Password, got)
       \/ /\ got = Cancelled
          /\ AllSpaces(Password) \/ ~path \/ Cardinality(Done) >= MaxServes \/ Kept)
BY Zenon DEF PasswordArrives, Sent, AllSpaces, Kept, Done

LEMMA PasswordStep ==
  ASSUME Known, [Next]_vars
  PROVE  PasswordArrives'
<1>1. /\ PasswordArrives /\ ReplyFits /\ QueueWaits /\ Staged /\ Counted
      /\ cur \in Client /\ MaxServes \in Nat
      /\ client \in [Client -> {"away", "waiting", "answered", "refused", "cutOff"}]
  BY LaunchAssumption DEF Known, IInv, TypeOK
<1> DEFINE Arrived == got' # None =>
             \/ Sent(Password', got')
             \/ /\ got' = Cancelled
                /\ \/ AllSpaces(Password') \/ ~path'
                   \/ Cardinality(Done') >= MaxServes \/ Kept'
<1>2. Arrived => PasswordArrives'
  BY Zenon DEF PasswordArrives, Sent, AllSpaces, Kept, Done
<1>3. CASE got' = got
  <2>1. ASSUME got # None PROVE Arrived
    <3>1. stage \in Begun
      BY <1>1, <2>1 DEF Staged
    <3>2. Password' = Password /\ (~path => ~path')
      BY <3>1, BegunKeep
    <3>3. /\ Cardinality(Done) \in Nat /\ Cardinality(Done') \in Nat
          /\ Cardinality(Done) <= Cardinality(Done')
      BY DoneStep
    <3>4. Kept => Kept'
      BY SaysStep DEF Kept, Client
    <3>5. \/ Sent(Password, got)
          \/ /\ got = Cancelled
             /\ AllSpaces(Password) \/ ~path \/ Cardinality(Done) >= MaxServes \/ Kept
      BY <1>1, <2>1, ArrivesIs
    <3>6. CASE Cardinality(Done) >= MaxServes
      <4>1. Cardinality(Done') >= MaxServes
        BY <1>1, <3>3, <3>6
      <4>2. QED
        BY <1>3, <3>2, <3>5, <4>1
    <3>7. CASE ~(Cardinality(Done) >= MaxServes)
      BY <1>3, <3>2, <3>4, <3>5, <3>7
    <3>8. QED
      BY <3>6, <3>7
  <2>2. QED
    BY <1>2, <1>3, <2>1
<1>4. CASE GetPin /\ ~path
  <2>1. got' = Cancelled /\ path' = path
    BY <1>4 DEF GetPin, files
  <2>2. QED
    BY <1>2, <1>4, <2>1
<1>5. CASE Answer
  <2>1. /\ reply # None /\ got' = Fetched(reply) /\ client' = client /\ path' = path
        /\ stored' = stored
    BY <1>5 DEF Answer, files, launch
  <2>2. client[Pinentry] \in {"answered", "refused", "cutOff"}
    BY <1>1, <2>1, LaunchAssumption DEF ReplyFits, Client
  <2>3. Password' = Password /\ Done' = Done
    BY <2>1 DEF Password, Done
  <2>4. CASE client[Pinentry] = "answered"
    <3>1. reply = Reply(Password)
      BY <1>1, <2>4 DEF ReplyFits
    <3>2. stage \in Begun
      BY <1>1, <2>1 DEF Staged
    <3>3. PICK p \in Text : p = Password
      BY <3>2, BegunKeep
    <3>4. CASE (\A i \in 1..Len(p) : p[i] = "SP") /\ Fetched(Reply(p)) = Cancelled
      <4>1. AllSpaces(p)
        BY <3>4 DEF AllSpaces
      <4>2. QED
        BY <1>2, <2>1, <2>3, <3>1, <3>3, <3>4, <4>1
    <3>5. CASE \E n \in 1..Len(p) :
                 /\ p[n] # "SP" /\ \A i \in (n + 1)..Len(p) : p[i] = "SP"
                 /\ Fetched(Reply(p)) = <<"D">> \o SubSeq(p, 1, n)
      <4>1. PICK n \in 1..Len(p) :
              /\ p[n] # "SP" /\ \A i \in (n + 1)..Len(p) : p[i] = "SP"
              /\ Fetched(Reply(p)) = <<"D">> \o SubSeq(p, 1, n)
        BY <3>5
      <4>2. n \in ((n - 1) + 1)..Len(p)
        BY TextFacts
      <4>3. ~\A i \in ((n - 1) + 1)..Len(p) : p[i] = "SP"
        BY <4>1, <4>2, Zenon
      <4>4. Sent(p, Fetched(Reply(p)))
        BY <4>1, <4>3, Zenon DEF Sent
      <4>5. QED
        BY <1>2, <2>1, <2>3, <3>1, <3>3, <4>4
    <3>6. QED
      BY <3>4, <3>5, FetchedReply
  <2>5. CASE client[Pinentry] = "refused"
    BY <1>1, <1>2, <2>1, <2>3, <2>5, FetchedError DEF ReplyFits, Counted
  <2>6. CASE client[Pinentry] = "cutOff"
    BY <1>1, <1>2, <2>1, <2>6, FetchedError DEF ReplyFits
  <2>7. QED
    BY <2>2, <2>4, <2>5, <2>6
<1>6. CASE GiveUp
  <2>1. /\ client[Pinentry] = "waiting" /\ server = "handle" /\ says[cur] = "nothing"
        /\ got' = Cancelled /\ says' = says /\ client' = client
    BY <1>6 DEF GiveUp
  <2>2. cur \notin Refused /\ cur # Pinentry /\ client[cur] = "waiting"
    BY <1>1, <2>1 DEF ReplyFits, QueueWaits
  <2>3. cur \in Own
    BY <1>1, <2>2 DEF Client
  <2>4. Kept'
    BY <2>1, <2>2, <2>3 DEF Kept
  <2>5. QED
    BY <1>2, <2>1, <2>4
<1>7. got' = got \/ (GetPin /\ ~path) \/ Answer \/ GiveUp
  <2>1. CASE Acts \/ UNCHANGED vars
    BY <2>1, ActsKeep DEF vars, peers
  <2>2. CASE Talks
    BY <2>2 DEF Talks, Serve, Accept, AcceptNobody, Handle, Look, Connect, GetPin, peers
  <2>3. QED
    BY <2>1, <2>2, NextIs
<1>8. QED
  BY <1>3, <1>4, <1>5, <1>6, <1>7

\* The types, of the app and of the files first.
AppType ==
  /\ stored \in {case.stored, case.next, None}
  /\ stage \in {"asked", "code", "refused", "failed", "started", "dropped", "closed"}
  /\ child \in {"none", "polkit", "vpn", "over"}
  /\ why \in {"nothing", "doctor", "profile", "password", "elevate", "pinentry",
              "openfortivpn", "helper", "user", "config", "vpn", "rootPinentry"}
  /\ conf \in {None, Render(profile, "code")}
  /\ path \in BOOLEAN

LEMMA AppTypeStep ==
  ASSUME Known, [Next]_vars
  PROVE  AppType'
<1>1. AppType /\ case' = case /\ profile' = profile
  BY SameCase DEF Known, IInv, TypeOK, AppType
<1>2. CASE UNCHANGED launch /\ UNCHANGED files
  BY <1>1, <1>2 DEF AppType, launch, files
<1>3. CASE BeginConnect
  BY <1>1, <1>3 DEF AppType, BeginConnect, files
<1>4. CASE SavePassword \/ ClearPassword
  BY <1>1, <1>4 DEF AppType, SavePassword, ClearPassword, files
<1>5. CASE StartSession
  <2>1. StartRefusal \in {"password", "profile", "elevate", "pinentry", "openfortivpn",
                          "helper", "nothing"}
    BY DEF StartRefusal
  <2>2. CASE StartRefusal # "nothing"
    BY <1>1, <1>5, <2>1, <2>2 DEF AppType, StartSession, files
  <2>3. CASE StartRefusal = "nothing"
    BY <1>1, <1>5, <2>3 DEF AppType, StartSession
  <2>4. QED
    BY <2>2, <2>3
<1>6. CASE HelperStart
  <2>1. HelperRefusal \in {"config", "vpn", "rootPinentry", "nothing"}
    BY DEF HelperRefusal
  <2>2. QED
    BY <1>1, <1>6, <2>1 DEF AppType, HelperStart, files
<1>7. CASE VpnExits \/ DropBegin \/ DropEnd
  BY <1>1, <1>7 DEF AppType, VpnExits, DropBegin, DropEnd, files
<1>8. QED
  BY <1>2, <1>3, <1>4, <1>5, <1>6, <1>7, NextIs, TalksKeep DEF Acts, vars

ThreadType ==
  /\ server \in {"none", "accept", "handle", "look", "gone"}
  /\ queue \in Seq(Client)
  /\ cur \in Client /\ behind \in BOOLEAN
  /\ served \in 0..MaxServes
  /\ says \in [Client -> {"nothing", "GET", "other"}]
  /\ client \in [Client -> {"away", "waiting", "answered", "refused", "cutOff"}]

LEMMA ThreadTypeStep ==
  ASSUME Known, [Next]_vars
  PROVE  ThreadType'
<1>1. /\ ThreadType /\ QueueWaits /\ MaxServes \in Nat /\ Pinentry \in Client
  BY LaunchAssumption DEF Known, IInv, TypeOK, ThreadType, Client
<1>2. CASE Acts
  BY <1>1, <1>2, ActsKeep DEF ThreadType, peers
<1>3. CASE UNCHANGED vars
  BY <1>1, <1>3 DEF ThreadType, vars, thread, peers
<1>4. CASE Accept
  <2>1. queue # <<>> /\ server = "accept" /\ queue' = Tail(queue) /\ says' = says
    BY <1>4 DEF Accept
  <2>2. Head(queue) \in Client /\ Tail(queue) \in Seq(Client)
    BY <1>1, <2>1 DEF ThreadType
  <2>3. CASE Head(queue) \in Refused \/ served >= MaxServes
    <3>1. client' = [client EXCEPT ![Head(queue)] = "refused"]
          /\ UNCHANGED <<server, cur, behind, served>>
      BY <1>4, <2>3 DEF Accept, Become
    <3>2. QED
      BY <1>1, <2>1, <2>2, <3>1 DEF ThreadType
  <2>4. CASE ~(Head(queue) \in Refused \/ served >= MaxServes)
    <3>1. /\ server' = "handle" /\ cur' = Head(queue) /\ served' = served + 1
          /\ behind' \in BOOLEAN /\ client' = client
      BY <1>4, <2>4 DEF Accept
    <3>2. served + 1 \in 0..MaxServes
      BY <1>1, <2>4 DEF ThreadType
    <3>3. QED
      BY <1>1, <2>1, <2>2, <3>1, <3>2 DEF ThreadType
  <2>5. QED
    BY <2>3, <2>4
<1>5. CASE AcceptNobody \/ Answer \/ GiveUp
  BY <1>1, <1>5 DEF ThreadType, AcceptNobody, Answer, GiveUp, thread, peers
<1>6. CASE Handle
  BY <1>1, <1>6 DEF ThreadType, Handle, Become
<1>7. CASE Look
  <2>1. CASE path
    BY <1>1, <1>7, <2>1 DEF ThreadType, Look
  <2>2. CASE ~path
    <3>1. /\ server' = "gone" /\ queue' = <<>>
          /\ UNCHANGED <<cur, behind, served, says>>
          /\ client' = [c \in Client |-> IF client[c] = "waiting" THEN "cutOff"
                                                                  ELSE client[c]]
      BY <1>7, <2>2 DEF Look
    <3>2. QED
      BY <1>1, <3>1 DEF ThreadType
  <2>3. QED
    BY <2>1, <2>2
<1>8. ASSUME NEW c \in Client, NEW text \in {"nothing", "GET", "other"}, Arrive(c, text),
             UNCHANGED <<server, cur, behind, served>>
      PROVE  ThreadType'
  <2>1. /\ queue' = Append(queue, c) /\ client' = [client EXCEPT ![c] = "waiting"]
        /\ says' = [says EXCEPT ![c] = text]
    BY <1>8 DEF Arrive, Become
  <2>2. QED
    BY <1>1, <1>8, <2>1 DEF ThreadType
<1>9. CASE \E c \in Client : Connect(c)
  BY <1>8, <1>9 DEF Connect
<1>10. CASE GetPin
  <2>1. CASE path
    <3>1. Arrive(Pinentry, "GET") /\ UNCHANGED <<server, cur, behind, served>>
      BY <1>10, <2>1 DEF GetPin
    <3>2. QED
      BY <1>1, <1>8, <3>1
  <2>2. CASE ~path
    BY <1>1, <1>10, <2>2 DEF GetPin, ThreadType
  <2>3. QED
    BY <2>1, <2>2
<1>11. QED
  BY <1>2, <1>3, <1>4, <1>5, <1>6, <1>7, <1>9, <1>10, NextIs DEF Talks, Serve

\* No client is in the queue twice, so that the queue is no longer than they are many.
LEMMA QueueBound ==
  ASSUME QueueWaits, queue \in Seq(Client)
  PROVE  Len(queue) <= Cardinality(Client)
<1>1. IsFiniteSet(Client)
  <2>1. Client = (Own \cup Refused) \cup {Pinentry}
    BY DEF Client
  <2>2. QED
    BY <2>1, LaunchAssumption, FS_AddElement
<1>2. queue \in [1..Len(queue) -> Client] /\ Len(queue) \in Nat
  OBVIOUS
<1>3. \A i, j \in 1..Len(queue) : queue[i] = queue[j] => i = j
  BY DEF QueueWaits
<1>4. queue \in Injection(1..Len(queue), Client)
  BY <1>2, <1>3, Fun_IsInj
<1>5. Cardinality(1..Len(queue)) <= Cardinality(Client)
  BY <1>1, <1>4, FS_Injection
<1>6. Cardinality(1..Len(queue)) = Len(queue)
  <2>1. PICK n \in Nat : n = Len(queue)
    BY <1>2
  <2>2. Cardinality(1..n) = IF 1 > n THEN 0 ELSE n - 1 + 1
    <3>1. 1 \in Int /\ n \in Int
      OBVIOUS
    <3>2. QED
      BY <3>1, FS_Interval, Zenon
  <2>3. QED
    BY <2>1, <2>2
<1>7. QED
  BY <1>5, <1>6

LEMMA TypeStep ==
  ASSUME Known, [Next]_vars
  PROVE  TypeOK'
<1>1. AppType' /\ ThreadType' /\ QueueWaits' /\ Staged' /\ ReplyFits' /\ PasswordArrives'
  BY AppTypeStep, ThreadTypeStep, QueueStep, StagedStep, ReplyStep, PasswordStep
<1>2. Password' \in Text \cup {None}
  <2>1. stored' \in Text \cup {None}
    BY <1>1, KnownFacts, SameCase DEF AppType
  <2>2. QED
    BY <2>1, LookupIs DEF Password
<1>3. Len(queue') <= Cardinality(Client)
  <2>1. (QueueWaits /\ queue \in Seq(Client) => Len(queue) <= Cardinality(Client))'
    BY QueueBound, PTL
  <2>2. QED
    BY <1>1, <2>1 DEF ThreadType
<1>4. reply' \in {None, Error} \/ reply'[1] = "D"
  <2>1. CASE client'[Pinentry] = "answered"
    <3>1. reply' = Reply(Password')
      BY <1>1, <2>1 DEF ReplyFits
    <3>2. Password' \in Text
      BY <1>1, <1>2, <2>1 DEF Staged, Client
    <3>3. QED
      BY <3>1, <3>2, ReplyShape
  <2>2. CASE client'[Pinentry] # "answered"
    <3>1. client'[Pinentry] \in {"away", "waiting", "refused", "cutOff"}
      BY <1>1, <2>2 DEF ThreadType, Client
    <3>2. QED
      BY <1>1, <3>1 DEF ReplyFits
  <2>3. QED
    BY <2>1, <2>2
<1>5. got' \in {None, Cancelled} \/ got'[1] = "D"
  <2>1. ASSUME got' \notin {None, Cancelled} PROVE got'[1] = "D"
    <3>1. PICK p \in Text : p = Password'
      BY <1>1, <1>2, <2>1 DEF Staged
    <3>2. PICK n \in 1..Len(p) : got' = <<"D">> \o SubSeq(p, 1, n)
      BY <1>1, <2>1, <3>1 DEF PasswordArrives
    <3>3. PICK a \in Text : a = SubSeq(p, 1, n)
      <4>1. n \in Nat /\ n <= Len(p)
        BY TextFacts
      <4>2. QED
        BY <4>1, PrefixFacts
    <3>4. PICK d \in Text : d = <<"D">> /\ Len(d) = 1 /\ d[1] = "D"
      <4>1. "D" \in Char
        BY DEF Char
      <4>2. QED
        BY <4>1, OneChar
    <3>5. (d \o a)[1] = d[1]
      <4>1. 1 \in 1..Len(d)
        BY <3>4
      <4>2. QED
        BY <4>1, CatFacts
    <3>6. QED
      BY <3>2, <3>3, <3>4, <3>5
  <2>2. QED
    BY <2>1
<1>6. case' \in Cases
  BY SameCase
<1>7. case'.machine \in Machine /\ case'.others \in BOOLEAN
  BY <1>6, CaseFacts
<1>8. QED
  BY <1>1, <1>3, <1>4, <1>5, <1>7 DEF TypeOK, AppType, ThreadType

-----------------------------------------------------------------------------
(* The invariant, and what follows from it *)

LEMMA InitKnown == Init => Known
<1> SUFFICES ASSUME Init PROVE Known
  OBVIOUS
<1>1. case.machine \in Machine /\ case.others \in BOOLEAN /\ case \in Cases
  BY CaseFacts DEF Init
<1>2. Pinentry \in Client /\ MaxServes \in Nat
  BY LaunchAssumption DEF Client
<1>3. /\ server = "none" /\ queue = <<>> /\ served = 0 /\ reply = None /\ got = None
      /\ stage = "asked" /\ child = "none" /\ why = "nothing" /\ conf = None /\ path = FALSE
      /\ stored = case.stored /\ cur = Pinentry /\ behind = FALSE
      /\ says = [c \in Client |-> "nothing"] /\ client = [c \in Client |-> "away"]
  BY DEF Init
<1>4. /\ QueueWaits /\ Staged /\ GateHeld /\ GateSound /\ HelperLooked /\ PasswordArrives
      /\ ReplyFits
  BY <1>2, <1>3 DEF QueueWaits, Staged, Begun, GateHeld, GateSound, HelperLooked,
                    PasswordArrives, ReplyFits
<1>5. Counted
  <2>1. Done = {} /\ client[Pinentry] = "away"
    BY <1>2, <1>3 DEF Done, Client
  <2>2. QED
    BY <1>3, <2>1, FS_EmptySet DEF Counted
<1>6. TypeOK
  <2>1. queue \in Seq(Client) /\ Len(queue) <= Cardinality(Client)
    <3>1. queue \in Seq(Client)
      BY <1>3
    <3>2. QED
      BY <1>4, <3>1, QueueBound
  <2>2. says \in [Client -> {"nothing", "GET", "other"}]
    BY <1>3
  <2>3. client \in [Client -> {"away", "waiting", "answered", "refused", "cutOff"}]
    BY <1>3
  <2>4. /\ stored \in {case.stored, case.next, None}
        /\ stage = "asked" /\ child = "none" /\ why = "nothing" /\ conf = None
        /\ path \in BOOLEAN /\ server = "none" /\ cur \in Client /\ behind \in BOOLEAN
        /\ reply = None /\ got = None
    BY <1>2, <1>3
  <2>5. served \in 0..MaxServes
    BY <1>2, <1>3
  <2>6. QED
    BY <1>1, <2>1, <2>2, <2>3, <2>4, <2>5 DEF TypeOK
<1>7. QED
  BY <1>1, <1>4, <1>5, <1>6 DEF Known, IInv

THEOREM InductiveInvariant == Spec => []Known
<1>1. Known /\ [Next]_vars => Known'
  <2> SUFFICES ASSUME Known, [Next]_vars PROVE Known'
    OBVIOUS
  <2>1. TypeOK' /\ GateSound' /\ GateHeld' /\ PasswordArrives'
    BY TypeStep, GateStep, PasswordStep
  <2>2. Staged' /\ HelperLooked' /\ QueueWaits' /\ Counted' /\ ReplyFits'
    BY StagedStep, HelperLookedStep, QueueStep, CountedStep, ReplyStep
  <2>3. (case \in Cases)'
    BY SameCase
  <2>4. QED
    BY <2>1, <2>2, <2>3 DEF Known, IInv
<1>2. QED
  BY InitKnown, <1>1, PTL DEF Spec

\* Every variable keeps its type; the queue of the listener is no longer than there are
\* clients, and the thread counts to its cap and no further (pinentry_socket.rs:138-157).
THEOREM TypeCorrect == Spec => []TypeOK
BY InductiveInvariant, PTL DEF Known, IInv

\* A connect that the gate let go on to the code does not fail for something that the
\* gate was there to find, whatever the machine and the profile are (main.rs:309-338,
\* doctor.rs:118, runner.rs:120-131).
THEOREM GateHolds == Spec => []GateSound
BY InductiveInvariant, PTL DEF Known, IInv

\* The helper refuses the config of a profile that passes validate_ready for what
\* HelperWillTake says and for nothing else, for texts of every length (profile.rs:148,
\* 173; validate.rs:146-221).
THEOREM HelperAgreement == Spec => []HelperAgrees
<1>1. Known => HelperAgrees
  <2> SUFFICES ASSUME Known PROVE HelperAgrees
    OBVIOUS
  <2>1. stage \in Begun => (Accepts(Render(profile, "code")) <=> HelperWillTake(profile))
    <3>1. stage \in Begun => Ready(profile)
      BY DEF Known, IInv, GateHeld, Begun
    <3>2. QED
      BY <3>1, KnownFacts, TakesIs
  <2>2. child # "none" => stage \in Begun
    BY DEF Known, IInv, Staged
  <2>3. QED
    BY <2>1, <2>2 DEF Known, IInv, HelperLooked, HelperAgrees
<1>2. QED
  BY InductiveInvariant, <1>1, PTL

\* What openfortivpn is run with says what the profile says and no more, for texts of
\* every length (openfortivpn_conf.rs:5, validate.rs:146).
THEOREM FieldsArriveHolds == Spec => []FieldsArrive
<1>1. Known => FieldsArrive
  <2> SUFFICES ASSUME Known, child = "vpn", conf # None PROVE Pairs(conf) = Fields(profile)
    BY DEF FieldsArrive
  <2>1. Accepts(Render(profile, "code")) /\ stage \in Begun
    BY DEF Known, IInv, HelperLooked, Staged
  <2>2. conf = Render(profile, "code")
    BY DEF Known, IInv, Staged
  <2>3. Ready(profile) /\ ProfileOf(profile)
    BY <2>1, KnownFacts DEF Known, IInv, GateHeld, Begun
  <2>4. QED
    BY <2>1, <2>2, <2>3, TakesIs
<1>2. QED
  BY InductiveInvariant, <1>1, PTL

\* The password of the keyring reaches openfortivpn, whatever characters it is made of,
\* but for the blanks at its end; and if none does, it is for one of the reasons that
\* PasswordArrives names (pinentry_socket.rs:138-218).
THEOREM PasswordArrivesHolds == Spec => []PasswordArrives
BY InductiveInvariant, PTL DEF Known, IInv
=============================================================================
