-------------------------- MODULE LogParser_proofs --------------------------
(* Proofs about LogParser, for any window, pipes and number of lines. *)
EXTENDS LogParser, TLAPS

-----------------------------------------------------------------------------
(* Logs *)

LEMMA UpTo ==
  ASSUME NEW h \in Seq(Line), NEW j \in DOMAIN h
  PROVE  "up" \notin Lines(SubSeq(h, 1, j)) <=> \A i \in 1..j : h[i] # "up"
<1>1. j \in 1..Len(h)
  OBVIOUS
<1>2. /\ DOMAIN SubSeq(h, 1, j) = 1..j
      /\ \A i \in 1..j : SubSeq(h, 1, j)[i] = h[i]
  BY <1>1
<1> QED
  BY <1>2 DEF Lines

LEMMA AppendLines ==
  ASSUME NEW h \in Seq(Line), NEW l \in Line
  PROVE  /\ Append(h, l) \in Seq(Line)
         /\ Len(Append(h, l)) = Len(h) + 1
         /\ DOMAIN Append(h, l) = 1..(Len(h) + 1)
         /\ \A i \in 1..Len(h) : Append(h, l)[i] = h[i]
         /\ Append(h, l)[Len(h) + 1] = l
         /\ Lines(Append(h, l)) = Lines(h) \cup {l}
<1>1. /\ Append(h, l) \in Seq(Line)
      /\ Len(Append(h, l)) = Len(h) + 1
      /\ DOMAIN Append(h, l) = 1..(Len(h) + 1)
      /\ \A i \in 1..Len(h) : Append(h, l)[i] = h[i]
      /\ Append(h, l)[Len(h) + 1] = l
  OBVIOUS
<1>2. DOMAIN h = 1..Len(h) /\ Len(h) \in Nat
  OBVIOUS
<1>3. ASSUME NEW y
      PROVE  y \in Lines(Append(h, l)) <=> y \in Lines(h) \cup {l}
  BY <1>1, <1>2 DEF Lines
<1> QED
  BY <1>1, <1>3

\* A log as it was before a line was added.
LEMMA AppendUpTo ==
  ASSUME NEW h \in Seq(Line), NEW l \in Line, NEW j \in DOMAIN h
  PROVE  /\ j \in DOMAIN Append(h, l)
         /\ "up" \notin Lines(SubSeq(Append(h, l), 1, j)) <=>
              "up" \notin Lines(SubSeq(h, 1, j))
<1>1. j \in 1..Len(h) /\ Len(h) \in Nat
  OBVIOUS
<1>2. j \in DOMAIN Append(h, l) /\ Append(h, l) \in Seq(Line)
  BY <1>1, AppendLines
<1>3. \A i \in 1..j : Append(h, l)[i] = h[i]
  BY <1>1, AppendLines
<1> QED
  BY <1>2, <1>3, UpTo

LEMMA AppendUpToEnd ==
  ASSUME NEW h \in Seq(Line), NEW l \in Line
  PROVE  "up" \notin Lines(SubSeq(Append(h, l), 1, Len(h) + 1)) <=>
           "up" \notin Lines(h) /\ l # "up"
<1>1. Len(h) \in Nat /\ DOMAIN h = 1..Len(h)
  OBVIOUS
<1>2. Len(h) + 1 \in DOMAIN Append(h, l) /\ Append(h, l) \in Seq(Line)
  BY <1>1, AppendLines
<1>3. "up" \notin Lines(SubSeq(Append(h, l), 1, Len(h) + 1)) <=>
        \A i \in 1..(Len(h) + 1) : Append(h, l)[i] # "up"
  BY <1>2, UpTo
<1>4. (\A i \in 1..(Len(h) + 1) : Append(h, l)[i] # "up") <=>
        (\A i \in 1..Len(h) : h[i] # "up") /\ l # "up"
  BY <1>1, AppendLines
<1> QED
  BY <1>1, <1>3, <1>4 DEF Lines

-----------------------------------------------------------------------------
(* The connect phase *)

LEMMA PhaseIs ==
  ASSUME TypeOK
  PROVE  /\ "up" \notin ConnectPhase
         /\ ConnectPhase \subseteq Lines(seen)
         /\ "up" \notin Lines(seen) => ConnectPhase = Lines(seen)
<1>1. seen \in Seq(Line) /\ DOMAIN seen = 1..Len(seen) /\ Len(seen) \in Nat
  BY DEF TypeOK
<1>2. \A j \in DOMAIN seen : "up" \notin Lines(SubSeq(seen, 1, j)) <=>
                               \A i \in 1..j : seen[i] # "up"
  BY <1>1, UpTo
<1>3. "up" \notin ConnectPhase
  BY <1>1, <1>2 DEF ConnectPhase
<1>4. ConnectPhase \subseteq Lines(seen)
  BY DEF ConnectPhase, Lines
<1>5. ASSUME "up" \notin Lines(seen)
      PROVE  Lines(seen) \subseteq ConnectPhase
  <2>1. \A i \in DOMAIN seen : seen[i] # "up"
    BY <1>5 DEF Lines
  <2>2. \A j \in DOMAIN seen : "up" \notin Lines(SubSeq(seen, 1, j))
    BY <1>1, <1>2, <2>1
  <2> QED
    BY <2>2 DEF Lines, ConnectPhase
<1> QED
  BY <1>3, <1>4, <1>5

LEMMA PhaseGrows ==
  ASSUME TypeOK, NEW l \in Line, seen' = Append(seen, l)
  PROVE  /\ Lines(seen') = Lines(seen) \cup {l}
         /\ ConnectPhase' = IF "up" \in Lines(seen) \/ l = "up" THEN ConnectPhase
                            ELSE ConnectPhase \cup {l}
<1>1. seen \in Seq(Line) /\ DOMAIN seen = 1..Len(seen) /\ Len(seen) \in Nat
  BY DEF TypeOK
<1>2. /\ DOMAIN seen' = DOMAIN seen \cup {Len(seen) + 1}
      /\ \A i \in DOMAIN seen : seen'[i] = seen[i]
      /\ seen'[Len(seen) + 1] = l
      /\ Lines(seen') = Lines(seen) \cup {l}
  BY <1>1, AppendLines
<1>3. \A j \in DOMAIN seen : "up" \notin Lines(SubSeq(seen', 1, j)) <=>
                               "up" \notin Lines(SubSeq(seen, 1, j))
  BY <1>1, AppendUpTo
<1>4. "up" \notin Lines(SubSeq(seen', 1, Len(seen) + 1)) <=>
        "up" \notin Lines(seen) /\ l # "up"
  BY <1>1, AppendUpToEnd
<1>5. ASSUME NEW y
      PROVE  y \in ConnectPhase' <=>
               \/ y \in ConnectPhase
               \/ y = l /\ "up" \notin Lines(seen) /\ l # "up"
  <2>1. y \in ConnectPhase' <=>
          \E j \in DOMAIN seen' : "up" \notin Lines(SubSeq(seen', 1, j)) /\ y = seen'[j]
    BY DEF ConnectPhase
  <2>2. y \in ConnectPhase <=>
          \E j \in DOMAIN seen : "up" \notin Lines(SubSeq(seen, 1, j)) /\ y = seen[j]
    BY DEF ConnectPhase
  <2> QED
    BY <1>2, <1>3, <1>4, <2>1, <2>2
<1> QED
  BY <1>2, <1>5

-----------------------------------------------------------------------------
(* Types *)

LEMMA PushIs ==
  ASSUME TypeOK, NEW l \in Line
  PROVE  LET w == Push(window, l) IN
         /\ w \in Seq(Line) /\ Len(w) <= Window
         /\ Len(w) # 0 /\ w[Len(w)] = l
         /\ Len(window) = Window =>
              Len(w) = Window /\ \A k \in 1..(Window - 1) : w[k] = window[k + 1]
         /\ Len(window) # Window =>
              /\ Len(w) = Len(window) + 1
              /\ \A k \in 1..Len(window) : w[k] = window[k]
<1>1. /\ window \in Seq(Line) /\ Len(window) \in Nat /\ Len(window) <= Window
      /\ Window \in Nat \ {0}
  BY ParserAssumption DEF TypeOK
<1>2. CASE Len(window) = Window
  <2>1. /\ Tail(window) \in Seq(Line) /\ Len(Tail(window)) = Window - 1
        /\ \A k \in 1..(Window - 1) : Tail(window)[k] = window[k + 1]
    BY <1>1, <1>2
  <2>2. Push(window, l) = Append(Tail(window), l)
    BY <1>2 DEF Push
  <2> QED
    BY <1>1, <1>2, <2>1, <2>2, AppendLines
<1>3. CASE Len(window) # Window
  <2>1. Push(window, l) = Append(window, l)
    BY <1>3 DEF Push
  <2> QED
    BY <1>1, <1>3, <2>1, AppendLines
<1> QED
  BY <1>2, <1>3

LEMMA IngestTypes ==
  ASSUME TypeOK, NEW l \in Line, Ingest(l)
  PROVE  /\ window' \in Seq(Line) /\ Len(window') <= Window
         /\ needCert' \in BOOLEAN /\ up' \in BOOLEAN
         /\ authFailed' \in BOOLEAN /\ certFailed' \in BOOLEAN
<1>1. CASE UNCHANGED parse
  BY <1>1 DEF parse, TypeOK
<1>2. CASE window' = <<>> /\ up' = TRUE /\ UNCHANGED <<needCert, authFailed, certFailed>>
  BY <1>2, ParserAssumption DEF TypeOK
<1>3. CASE /\ window' = Push(window, l) /\ UNCHANGED up
           /\ authFailed' = (authFailed \/ l = "auth")
           /\ certFailed' = (certFailed \/ l = "invalid")
           /\ needCert' = (needCert \/ Unknown(window'))
  <2>1. window' \in Seq(Line) /\ Len(window') <= Window
    BY <1>3, PushIs
  <2>2. needCert' \in BOOLEAN /\ authFailed' \in BOOLEAN /\ certFailed' \in BOOLEAN
    BY <1>3
  <2> QED
    BY <1>3, <2>1, <2>2 DEF TypeOK
<1> QED
  BY <1>1, <1>2, <1>3 DEF Ingest

\* A reader takes a line from its pipe, in one of two ways.
Takes(s, l) ==
  /\ reader[s] = "reading"
  /\ pipe[s] # <<>> /\ l = Head(pipe[s])
  /\ l # "binary" /\ Ingest(l) /\ seen' = Append(seen, l)
  /\ pipe' = [pipe EXCEPT ![s] = Tail(@)]
  /\ UNCHANGED <<reader, child, outcome, printed, firstFact>>

Breaks(s) ==
  /\ reader[s] = "reading"
  /\ reader' = [reader EXCEPT ![s] = "broken"]
  /\ pipe' = [pipe EXCEPT ![s] = <<>>]
  /\ UNCHANGED <<parse, seen, child, outcome, printed, firstFact>>

LEMMA ReadLineIs ==
  ASSUME TypeOK, NEW s \in Stream, ReadLine(s)
  PROVE  (\E l \in Line : Takes(s, l)) \/ Breaks(s)
<1>1. Head(pipe[s]) \in Line
  BY DEF TypeOK, ReadLine
<1>2. CASE Head(pipe[s]) # "binary"
  BY <1>1, <1>2 DEF ReadLine, Takes
<1>3. CASE Head(pipe[s]) = "binary"
  BY <1>3 DEF ReadLine, Breaks
<1> QED
  BY <1>2, <1>3

LEMMA TypeStep == TypeOK /\ [Next]_vars => TypeOK'
<1> SUFFICES ASSUME TypeOK, [Next]_vars
             PROVE  TypeOK'
  OBVIOUS
<1>1. ASSUME NEW s \in Stream, NEW l \in Line, WriteLine(s, l)
      PROVE  TypeOK'
  <2>1. Append(pipe[s], l) \in Seq(Line)
    BY DEF TypeOK
  <2>2. pipe' \in [Stream -> Seq(Line)]
    BY <1>1, <2>1 DEF WriteLine, TypeOK
  <2>3. printed' \in 0..MaxLines
    BY <1>1, ParserAssumption DEF WriteLine, TypeOK
  <2> QED
    BY <1>1, <2>2, <2>3 DEF WriteLine, TypeOK, parse
<1>2. CASE BrokenPipe \/ Exit
  BY <1>2 DEF BrokenPipe, Exit, TypeOK, parse
<1>3. ASSUME NEW s \in Stream, NEW l \in Line, Takes(s, l)
      PROVE  TypeOK'
  <2>1. Tail(pipe[s]) \in Seq(Line)
    BY <1>3 DEF Takes, TypeOK
  <2>2. pipe' \in [Stream -> Seq(Line)]
    BY <1>3, <2>1 DEF Takes, TypeOK
  <2>3. seen' \in Seq(Line)
    BY <1>3, AppendLines DEF Takes, TypeOK
  <2>4. /\ window' \in Seq(Line) /\ Len(window') <= Window
        /\ needCert' \in BOOLEAN /\ up' \in BOOLEAN
        /\ authFailed' \in BOOLEAN /\ certFailed' \in BOOLEAN
    BY <1>3, IngestTypes DEF Takes
  <2> QED
    BY <1>3, <2>2, <2>3, <2>4 DEF Takes, TypeOK
<1>4. ASSUME NEW s \in Stream, Breaks(s)
      PROVE  TypeOK'
  <2>1. pipe' \in [Stream -> Seq(Line)]
    BY <1>4 DEF Breaks, TypeOK
  <2> QED
    BY <1>4, <2>1 DEF Breaks, TypeOK, parse
<1>5. ASSUME NEW s \in Stream, ReadEof(s)
      PROVE  TypeOK'
  BY <1>5 DEF ReadEof, TypeOK, parse
<1>6. CASE TryWait
  BY <1>6 DEF TryWait, Classify, TypeOK, parse
<1>7. CASE UNCHANGED vars
  BY <1>7 DEF vars, TypeOK, parse
<1> QED
  BY <1>1, <1>2, <1>3, <1>4, <1>5, <1>6, <1>7, ReadLineIs DEF Next, Reader

\* Every variable keeps its type.
THEOREM TypesCorrect == Spec => []TypeOK
<1>1. ASSUME Init
      PROVE  TypeOK
  <2>1. <<>> \in Seq(Line) /\ Len(<<>>) = 0
    OBVIOUS
  <2>2. window \in Seq(Line) /\ Len(window) <= Window /\ seen \in Seq(Line)
    BY <1>1, <2>1, ParserAssumption DEF Init
  <2>3. pipe \in [Stream -> Seq(Line)]
    BY <1>1, <2>1 DEF Init
  <2>4. printed \in 0..MaxLines /\ firstFact \in Line
    BY <1>1, ParserAssumption DEF Init, Line
  <2>5. reader \in [Stream -> {"reading", "eof", "broken"}]
    BY <1>1 DEF Init
  <2> QED
    BY <1>1, <2>2, <2>3, <2>4, <2>5 DEF Init, TypeOK
<1> QED
  BY <1>1, TypeStep, PTL DEF Spec

-----------------------------------------------------------------------------
(* What ParseState knows of the log *)

LogInv == FlagsKnow /\ WindowRemembers /\ RotationKnown

LEMMA LogFrame ==
  ASSUME LogInv, UNCHANGED <<parse, seen>>
  PROVE  LogInv'
<1>1. /\ window' = window /\ needCert' = needCert /\ up' = up /\ seen' = seen
      /\ authFailed' = authFailed /\ certFailed' = certFailed
  BY DEF parse
<1>2. ConnectPhase' = ConnectPhase
  BY <1>1 DEF ConnectPhase, Lines
<1>3. FlagsKnow'
  BY <1>1, <1>2 DEF LogInv, FlagsKnow
<1>4. WindowRemembers'
  BY <1>1 DEF LogInv, WindowRemembers
<1>5. RotationKnown'
  BY <1>1 DEF LogInv, RotationKnown, Lines
<1> QED
  BY <1>3, <1>4, <1>5 DEF LogInv

\* A line of the connect phase is remembered.
LEMMA WindowStep ==
  ASSUME TypeOK, LogInv, NEW l \in Line, seen' = Append(seen, l),
         ~up, window' = Push(window, l)
  PROVE  /\ Len(window') = IF Len(seen') < Window THEN Len(seen') ELSE Window
         /\ \A k \in DOMAIN window' : window'[k] = seen'[Len(seen') - Len(window') + k]
         /\ window' \in Seq(Line) /\ seen' \in Seq(Line)
         /\ l \in Lines(window')
         /\ Lines(window') \subseteq Lines(seen')
<1>1. /\ seen \in Seq(Line) /\ Len(seen) \in Nat /\ window \in Seq(Line)
      /\ Len(window) \in Nat /\ DOMAIN window = 1..Len(window)
      /\ Window \in Nat \ {0}
  BY ParserAssumption DEF TypeOK
<1>2. /\ seen' \in Seq(Line)
      /\ DOMAIN seen' = 1..(Len(seen) + 1)
      /\ \A i \in 1..Len(seen) : seen'[i] = seen[i]
      /\ seen'[Len(seen) + 1] = l
  BY <1>1, AppendLines
<1>3. Len(seen') = Len(seen) + 1
  BY <1>1, AppendLines
<1>4. /\ window' \in Seq(Line)
      /\ Len(window') # 0 /\ window'[Len(window')] = l
  BY PushIs
<1>5. DOMAIN window' = 1..Len(window') /\ Len(window') \in Nat
  BY <1>4
<1>6. Len(window) = IF Len(seen) < Window THEN Len(seen) ELSE Window
  BY <1>1 DEF LogInv, WindowRemembers
<1>7. \A k \in 1..Len(window) : window[k] = seen[Len(seen) - Len(window) + k]
  BY <1>1 DEF LogInv, WindowRemembers
<1>8. /\ Len(window') = IF Len(seen') < Window THEN Len(seen') ELSE Window
      /\ \A k \in 1..Len(window') : window'[k] = seen'[Len(seen') - Len(window') + k]
  <2>1. CASE Len(window) = Window
    <3>1. /\ Len(window') = Window
          /\ \A k \in 1..(Window - 1) : window'[k] = window[k + 1]
      BY <2>1, PushIs
    <3>2. Len(window') = Window /\ Window <= Len(seen)
      BY <1>1, <1>6, <2>1, <3>1
    <3>3. ASSUME NEW k \in 1..(Window - 1)
          PROVE  window'[k] = seen'[Len(seen') - Len(window') + k]
      <4>1. window'[k] = window[k + 1] /\ k + 1 \in 1..Len(window)
        BY <1>1, <2>1, <3>1
      <4>2. window[k + 1] = seen[Len(seen) - Len(window) + (k + 1)]
        BY <1>7, <4>1
      <4>3. /\ Len(seen) - Len(window) + (k + 1) \in 1..Len(seen)
            /\ Len(seen) - Len(window) + (k + 1) = Len(seen') - Len(window') + k
        BY <1>1, <1>3, <2>1, <3>2
      <4> QED
        BY <1>2, <4>1, <4>2, <4>3
    <3>4. Len(seen') - Len(window') + Window = Len(seen) + 1
      BY <1>1, <1>3, <3>2
    <3>5. window'[Window] = seen'[Len(seen') - Len(window') + Window]
      BY <1>2, <1>4, <3>2, <3>4
    <3>6. \A k \in 1..Len(window') : k \in 1..(Window - 1) \/ k = Window
      BY <1>1, <3>2
    <3>7. Len(window') = IF Len(seen') < Window THEN Len(seen') ELSE Window
      BY <1>1, <1>3, <3>2
    <3> QED
      BY <3>3, <3>5, <3>6, <3>7
  <2>2. CASE Len(window) # Window
    <3>1. /\ Len(window') = Len(window) + 1
          /\ \A k \in 1..Len(window) : window'[k] = window[k]
      BY <2>2, PushIs
    <3>2. Len(window') = Len(seen) + 1 /\ Len(window) = Len(seen) /\ Len(seen) < Window
      BY <1>1, <1>6, <2>2, <3>1
    <3>3. \A k \in 1..Len(window') :
            Len(seen') - Len(window') + k = k /\ (k \in 1..Len(seen) \/ k = Len(seen) + 1)
      BY <1>1, <1>3, <3>2
    <3>4. \A k \in 1..Len(seen) : Len(seen) - Len(window) + k = k
      BY <1>1, <3>2
    <3>5. ASSUME NEW k \in 1..Len(window')
          PROVE  window'[k] = seen'[k]
      BY <1>2, <1>4, <1>7, <3>1, <3>2, <3>3, <3>4
    <3>6. Len(window') = IF Len(seen') < Window THEN Len(seen') ELSE Window
      BY <1>1, <1>3, <3>2
    <3> QED
      BY <3>3, <3>5, <3>6
  <2> QED
    BY <2>1, <2>2
<1>9. l \in Lines(window')
  BY <1>4, <1>5 DEF Lines
<1>10. Lines(window') \subseteq Lines(seen')
  <2>1. Len(window') <= Len(seen')
    BY <1>1, <1>3, <1>8
  <2>2. \A k \in 1..Len(window') : Len(seen') - Len(window') + k \in 1..(Len(seen) + 1)
    BY <1>1, <1>3, <1>5, <2>1
  <2>3. ASSUME NEW k \in 1..Len(window')
        PROVE  window'[k] \in Lines(seen')
    BY <1>2, <1>8, <2>2 DEF Lines
  <2> QED
    BY <1>5, <2>3 DEF Lines
<1> QED
  BY <1>2, <1>4, <1>5, <1>8, <1>9, <1>10

\* A pair of an error and a fingerprint in the log was there before, or the line that
\* was just read completes it.
LEMMA PairsGrow ==
  ASSUME TypeOK, LogInv, NEW l \in Line, seen' = Append(seen, l), needCert => needCert',
         ASSUME l = "pin", "up" \notin Lines(seen), NEW i \in DOMAIN seen,
                Len(seen) + 1 - i < Window, seen[i] = "invalid"
         PROVE  needCert'
  PROVE  RotationKnown'
<1>1. seen \in Seq(Line) /\ Len(seen) \in Nat /\ DOMAIN seen = 1..Len(seen)
  BY DEF TypeOK
<1>2. /\ DOMAIN seen' = 1..(Len(seen) + 1)
      /\ \A i \in 1..Len(seen) : seen'[i] = seen[i]
      /\ seen'[Len(seen) + 1] = l
  BY <1>1, AppendLines
<1> SUFFICES ASSUME NEW i \in DOMAIN seen', NEW j \in DOMAIN seen',
                    i < j, j - i < Window, seen'[i] = "invalid", seen'[j] = "pin",
                    "up" \notin Lines(SubSeq(seen', 1, j))
             PROVE  needCert'
  BY DEF RotationKnown
<1>3. i \in DOMAIN seen /\ seen[i] = "invalid"
  BY <1>1, <1>2
<1>4. CASE j \in DOMAIN seen
  <2>1. seen[j] = "pin" /\ "up" \notin Lines(SubSeq(seen, 1, j))
    BY <1>1, <1>2, <1>4, AppendUpTo
  <2> QED
    BY <1>3, <1>4, <2>1 DEF LogInv, RotationKnown
<1>5. CASE j = Len(seen) + 1
  <2>1. l = "pin" /\ "up" \notin Lines(seen)
    BY <1>1, <1>2, <1>5, AppendUpToEnd
  <2> QED
    BY <1>3, <1>5, <2>1
<1> QED
  BY <1>1, <1>2, <1>4, <1>5

LEMMA IngestStep ==
  ASSUME TypeOK, LogInv, NEW l \in Line, Ingest(l), seen' = Append(seen, l)
  PROVE  LogInv'
<1>1. /\ Lines(seen') = Lines(seen) \cup {l}
      /\ ConnectPhase' = IF "up" \in Lines(seen) \/ l = "up" THEN ConnectPhase
                         ELSE ConnectPhase \cup {l}
  BY PhaseGrows
<1>2. FlagsKnow
  BY DEF LogInv
<1>3. CASE up /\ UNCHANGED parse
  <2>1. FlagsKnow'
    BY <1>1, <1>2, <1>3 DEF FlagsKnow, parse
  <2>2. WindowRemembers'
    BY <1>3 DEF WindowRemembers, parse
  <2>3. RotationKnown'
    BY <1>2, <1>3, PairsGrow DEF FlagsKnow, parse
  <2> QED
    BY <2>1, <2>2, <2>3 DEF LogInv
<1>4. CASE /\ ~up /\ l = "up" /\ up' = TRUE
           /\ UNCHANGED <<needCert, authFailed, certFailed>>
  <2>1. FlagsKnow'
    BY <1>1, <1>2, <1>4 DEF FlagsKnow
  <2>2. WindowRemembers'
    BY <1>4 DEF WindowRemembers
  <2>3. RotationKnown'
    BY <1>4, PairsGrow
  <2> QED
    BY <2>1, <2>2, <2>3 DEF LogInv
<1>5. CASE /\ ~up /\ l # "up" /\ UNCHANGED up
           /\ authFailed' = (authFailed \/ l = "auth")
           /\ certFailed' = (certFailed \/ l = "invalid")
           /\ window' = Push(window, l)
           /\ needCert' = (needCert \/ Unknown(window'))
  <2>1. /\ Len(window') = IF Len(seen') < Window THEN Len(seen') ELSE Window
        /\ \A k \in DOMAIN window' : window'[k] = seen'[Len(seen') - Len(window') + k]
        /\ window' \in Seq(Line) /\ seen' \in Seq(Line)
        /\ l \in Lines(window')
        /\ Lines(window') \subseteq Lines(seen')
    BY <1>5, WindowStep
  <2>2. /\ "up" \notin Lines(seen) /\ ConnectPhase = Lines(seen)
        /\ ConnectPhase' = Lines(seen) \cup {l}
        /\ Lines(window') \subseteq Lines(seen) \cup {l}
    BY <1>1, <1>2, <1>5, <2>1, PhaseIs DEF FlagsKnow
  <2>3. FlagsKnow'
    <3>1. /\ up' <=> "up" \in Lines(seen')
          /\ authFailed' <=> "auth" \in ConnectPhase'
          /\ certFailed' <=> "invalid" \in ConnectPhase'
      BY <1>1, <1>2, <1>5, <2>2 DEF FlagsKnow
    <3>2. needCert' => "pin" \in ConnectPhase'
      BY <1>2, <1>5, <2>2 DEF FlagsKnow, Unknown
    <3>3. "pin" \in ConnectPhase' /\ "trusted" \notin ConnectPhase' => needCert'
      BY <1>2, <1>5, <2>1, <2>2 DEF FlagsKnow, Unknown
    <3> QED
      BY <3>1, <3>2, <3>3 DEF FlagsKnow
  <2>4. WindowRemembers'
    BY <2>1 DEF WindowRemembers
  <2>5. ASSUME l = "pin", NEW i \in DOMAIN seen, Len(seen) + 1 - i < Window,
               seen[i] = "invalid"
        PROVE  needCert'
    <3>1. /\ seen \in Seq(Line) /\ Len(seen) \in Nat /\ i \in 1..Len(seen)
          /\ Window \in Nat \ {0}
      BY ParserAssumption DEF TypeOK
    <3>2. Len(seen') = Len(seen) + 1 /\ seen'[i] = "invalid"
      BY <2>5, <3>1, AppendLines
    <3> DEFINE k == i - (Len(seen') - Len(window'))
    <3>3. DOMAIN window' = 1..Len(window') /\ Len(window') \in Nat
      BY <2>1
    <3>4. k \in 1..Len(window') /\ Len(seen') - Len(window') + k = i
      <4>1. Len(window') = IF Len(seen') < Window THEN Len(seen') ELSE Window
        BY <2>1
      <4>2. Len(seen') = Len(seen) + 1 /\ Len(seen) + 1 - i < Window
        BY <2>5, <3>2
      <4>3. CASE Len(seen') < Window
        BY <3>1, <4>1, <4>2, <4>3
      <4>4. CASE ~(Len(seen') < Window)
        BY <3>1, <4>1, <4>2, <4>4
      <4> QED
        BY <4>3, <4>4
    <3> HIDE DEF k
    <3>5. "invalid" \in Lines(window')
      BY <2>1, <3>2, <3>3, <3>4 DEF Lines
    <3> QED
      BY <1>5, <2>1, <2>5, <3>5 DEF Unknown
  <2>6. RotationKnown'
    BY <1>5, <2>5, PairsGrow
  <2> QED
    BY <2>3, <2>4, <2>6 DEF LogInv
<1> QED
  BY <1>3, <1>4, <1>5 DEF Ingest

\* The readers alone change what is known.
LEMMA LogStep == TypeOK /\ LogInv /\ [Next]_vars => LogInv'
<1> SUFFICES ASSUME TypeOK, LogInv, [Next]_vars
             PROVE  LogInv'
  OBVIOUS
<1>1. ASSUME NEW s \in Stream, NEW l \in Line, Takes(s, l)
      PROVE  LogInv'
  BY <1>1, IngestStep DEF Takes
<1>2. CASE UNCHANGED <<parse, seen>>
  BY <1>2, LogFrame
<1>3. ASSUME NEW s \in Stream, ReadLine(s)
      PROVE  LogInv'
  BY <1>1, <1>2, <1>3, ReadLineIs DEF Breaks
<1>4. ASSUME NEW s \in Stream, ReadEof(s) \/ \E l \in Line : WriteLine(s, l)
      PROVE  LogInv'
  BY <1>2, <1>4 DEF ReadEof, WriteLine
<1>5. CASE BrokenPipe \/ Exit \/ TryWait \/ UNCHANGED vars
  BY <1>2, <1>5 DEF BrokenPipe, Exit, TryWait, vars, parse
<1> QED
  BY <1>3, <1>4, <1>5 DEF Next, Reader

-----------------------------------------------------------------------------
(* Every line is somewhere *)

\* How many lines wait in the pipes.
Waiting(p) == Len(p["stdout"]) + Len(p["stderr"])

LEMMA WaitingIs ==
  ASSUME NEW s \in Stream,
         pipe \in [Stream -> Seq(Line)], pipe' \in [Stream -> Seq(Line)],
         \A t \in Stream : t # s => pipe'[t] = pipe[t]
  PROVE  /\ Waiting(pipe) \in Nat /\ Waiting(pipe') \in Nat
         /\ Waiting(pipe') + Len(pipe[s]) = Waiting(pipe) + Len(pipe'[s])
<1>1. "stdout" \in Stream /\ "stderr" \in Stream /\ "stdout" # "stderr"
  BY DEF Stream
<1>2. PICK a \in Nat : a = Len(pipe["stdout"])
  BY <1>1
<1>3. PICK b \in Nat : b = Len(pipe["stderr"])
  BY <1>1
<1>4. PICK n \in Nat : n = Len(pipe'[s])
  OBVIOUS
<1>5. Waiting(pipe) = a + b
  BY <1>2, <1>3 DEF Waiting
<1>6. CASE s = "stdout"
  <2>1. Waiting(pipe') = n + b
    BY <1>1, <1>3, <1>4, <1>6 DEF Waiting
  <2>2. Len(pipe[s]) = a
    BY <1>2, <1>6
  <2> QED
    BY <1>4, <1>5, <2>1, <2>2
<1>7. CASE s = "stderr"
  <2>1. Waiting(pipe') = a + n
    BY <1>1, <1>2, <1>4, <1>7 DEF Waiting
  <2>2. Len(pipe[s]) = b
    BY <1>3, <1>7
  <2> QED
    BY <1>4, <1>5, <2>1, <2>2
<1> QED
  BY <1>6, <1>7 DEF Stream

LEMMA WaitingSum ==
  ASSUME NEW p \in [Stream -> Seq(Line)], NEW n \in Nat
  PROVE  n + Waiting(p) = n + Len(p["stdout"]) + Len(p["stderr"])
<1>1. PICK a \in Nat : a = Len(p["stdout"])
  BY DEF Stream
<1>2. PICK b \in Nat : b = Len(p["stderr"])
  BY DEF Stream
<1>3. Waiting(p) = a + b
  BY <1>1, <1>2 DEF Waiting
<1>4. n + Len(p["stdout"]) + Len(p["stderr"]) = n + a + b
  BY <1>1, <1>2, Zenon
<1>5. n + Waiting(p) = n + a + b
  BY <1>3
<1> QED
  BY <1>4, <1>5, Zenon

LEMMA LostStep == TypeOK /\ NothingLost /\ [Next]_vars => NothingLost'
<1> SUFFICES ASSUME TypeOK, NothingLost, [Next]_vars
             PROVE  NothingLost'
  OBVIOUS
<1>1. /\ printed \in Nat /\ seen \in Seq(Line) /\ Len(seen) \in Nat
      /\ pipe \in [Stream -> Seq(Line)]
      /\ \A s \in Stream : pipe[s] \in Seq(Line) /\ Len(pipe[s]) \in Nat
  BY DEF TypeOK
<1>2. ASSUME NEW s \in Stream, NEW l \in Line, WriteLine(s, l)
      PROVE  NothingLost'
  <2>1. /\ Append(pipe[s], l) \in Seq(Line)
        /\ Len(Append(pipe[s], l)) = Len(pipe[s]) + 1
    BY <1>1, AppendLines
  <2>2. /\ \A t \in Stream : t # s => pipe'[t] = pipe[t]
        /\ Waiting(pipe) \in Nat /\ Waiting(pipe') \in Nat
        /\ Waiting(pipe') + Len(pipe[s]) = Waiting(pipe) + Len(Append(pipe[s], l))
    <3>1. pipe' = [pipe EXCEPT ![s] = Append(pipe[s], l)]
      BY <1>2 DEF WriteLine
    <3>2. /\ pipe' \in [Stream -> Seq(Line)] /\ pipe'[s] = Append(pipe[s], l)
          /\ \A t \in Stream : t # s => pipe'[t] = pipe[t]
      BY <1>1, <2>1, <3>1
    <3>3. /\ Waiting(pipe) \in Nat /\ Waiting(pipe') \in Nat
          /\ Waiting(pipe') + Len(pipe[s]) = Waiting(pipe) + Len(pipe'[s])
      BY <1>1, <3>2, WaitingIs
    <3> QED
      BY <3>2, <3>3
  <2>3. /\ reader' = reader /\ seen' = seen /\ printed' = printed + 1
        /\ reader[s] = "reading"
    BY <1>2 DEF WriteLine
  <2>4. \A t \in Stream : reader'[t] = "eof" => pipe'[t] = <<>>
    BY <2>2, <2>3 DEF NothingLost
  <2>5. Waiting(pipe') = Waiting(pipe) + 1
    BY <1>1, <2>1, <2>2
  <2>6. ASSUME \A t \in Stream : reader'[t] # "broken"
        PROVE  printed' = Len(seen') + Waiting(pipe')
    <3>1. printed = Len(seen) + Waiting(pipe)
      BY <1>1, <2>3, <2>6, WaitingSum DEF NothingLost
    <3> QED
      BY <1>1, <2>2, <2>3, <2>5, <3>1
  <2>7. pipe' \in [Stream -> Seq(Line)] /\ Len(seen') \in Nat
    BY <1>1, <1>2, <2>1, <2>3 DEF WriteLine
  <2>8. Len(seen') + Waiting(pipe') =
          Len(seen') + Len(pipe'["stdout"]) + Len(pipe'["stderr"])
    BY <2>7, WaitingSum
  <2> QED
    BY <2>4, <2>6, <2>8 DEF NothingLost
<1>3. ASSUME NEW s \in Stream, NEW l \in Line, Takes(s, l)
      PROVE  NothingLost'
  <2>1. /\ Tail(pipe[s]) \in Seq(Line)
        /\ Len(pipe[s]) = Len(Tail(pipe[s])) + 1
    BY <1>1, <1>3 DEF Takes
  <2>2. /\ \A t \in Stream : t # s => pipe'[t] = pipe[t]
        /\ Waiting(pipe) \in Nat /\ Waiting(pipe') \in Nat
        /\ Waiting(pipe') + Len(pipe[s]) = Waiting(pipe) + Len(Tail(pipe[s]))
    <3>1. pipe' = [pipe EXCEPT ![s] = Tail(pipe[s])]
      BY <1>3 DEF Takes
    <3>2. /\ pipe' \in [Stream -> Seq(Line)] /\ pipe'[s] = Tail(pipe[s])
          /\ \A t \in Stream : t # s => pipe'[t] = pipe[t]
      BY <1>1, <2>1, <3>1
    <3>3. /\ Waiting(pipe) \in Nat /\ Waiting(pipe') \in Nat
          /\ Waiting(pipe') + Len(pipe[s]) = Waiting(pipe) + Len(pipe'[s])
      BY <1>1, <3>2, WaitingIs
    <3> QED
      BY <3>2, <3>3
  <2>3. /\ reader' = reader /\ printed' = printed /\ reader[s] = "reading"
        /\ Len(seen') = Len(seen) + 1
    BY <1>1, <1>3, AppendLines DEF Takes
  <2>4. \A t \in Stream : reader'[t] = "eof" => pipe'[t] = <<>>
    BY <2>2, <2>3 DEF NothingLost
  <2>5. Len(Tail(pipe[s])) \in Nat
    BY <2>1
  <2>6. Waiting(pipe') + 1 = Waiting(pipe)
    BY <1>1, <2>1, <2>2, <2>5
  <2>7. ASSUME \A t \in Stream : reader'[t] # "broken"
        PROVE  printed' = Len(seen') + Waiting(pipe')
    <3>1. printed = Len(seen) + Waiting(pipe)
      BY <1>1, <2>3, <2>7, WaitingSum DEF NothingLost
    <3> QED
      BY <1>1, <2>2, <2>3, <2>6, <3>1
  <2>8. pipe' \in [Stream -> Seq(Line)] /\ Len(seen') \in Nat
    BY <1>1, <1>3, <2>1, <2>3 DEF Takes
  <2>9. Len(seen') + Waiting(pipe') =
          Len(seen') + Len(pipe'["stdout"]) + Len(pipe'["stderr"])
    BY <2>8, WaitingSum
  <2> QED
    BY <2>4, <2>7, <2>9 DEF NothingLost
<1>4. ASSUME NEW s \in Stream, Breaks(s)
      PROVE  NothingLost'
  BY <1>4 DEF Breaks, NothingLost, TypeOK
<1>5. ASSUME NEW s \in Stream, ReadLine(s)
      PROVE  NothingLost'
  BY <1>3, <1>4, <1>5, ReadLineIs
<1>6. ASSUME NEW s \in Stream, ReadEof(s)
      PROVE  NothingLost'
  BY <1>6 DEF ReadEof, NothingLost, TypeOK
<1>7. CASE BrokenPipe \/ Exit \/ TryWait \/ UNCHANGED vars
  BY <1>7 DEF BrokenPipe, Exit, TryWait, vars, NothingLost
<1> QED
  BY <1>2, <1>5, <1>6, <1>7 DEF Next, Reader

-----------------------------------------------------------------------------
(* The outcome *)

LEMMA OutcomeStep == TypeOK /\ OutcomeStays /\ [Next]_vars => OutcomeStays'
<1> SUFFICES ASSUME TypeOK, OutcomeStays, [Next]_vars
             PROVE  OutcomeStays'
  OBVIOUS
<1>1. ASSUME NEW s \in Stream, Reader(s) \/ \E l \in Line : WriteLine(s, l)
      PROVE  OutcomeStays'
  <2>1. CASE reader[s] = "reading"
    <3>1. outcome = "none" /\ outcome' = outcome
      BY <1>1, <2>1 DEF OutcomeStays, Reader, ReadLine, ReadEof, WriteLine
    <3> QED
      BY <3>1 DEF OutcomeStays
  <2>2. CASE reader[s] # "reading"
    BY <1>1, <2>2 DEF Reader, ReadLine, ReadEof, WriteLine
  <2> QED
    BY <2>1, <2>2
<1>2. CASE BrokenPipe \/ Exit
  <2>1. outcome = "none" /\ outcome' = outcome
    BY <1>2 DEF OutcomeStays, BrokenPipe, Exit
  <2> QED
    BY <2>1 DEF OutcomeStays
<1>3. CASE TryWait
  BY <1>3 DEF TryWait, OutcomeStays, Classify, parse
<1>4. CASE UNCHANGED vars
  BY <1>4 DEF vars, OutcomeStays, Classify, parse
<1> QED
  BY <1>1, <1>2, <1>3, <1>4 DEF Next

\* The inductive invariant: the flags know what the connect phase said, the window is
\* its end, and nothing is read any more once there is an outcome.
THEOREM ParserInvariant == Spec => []ParserInv
<1>1. Init => LogInv /\ NothingLost /\ OutcomeStays
  <2> SUFFICES ASSUME Init
               PROVE  LogInv /\ NothingLost /\ OutcomeStays
    OBVIOUS
  <2>1. Lines(seen) = {} /\ ConnectPhase = {} /\ DOMAIN seen = {} /\ DOMAIN window = {}
    BY DEF Init, Lines, ConnectPhase
  <2>2. FlagsKnow
    BY <2>1 DEF Init, FlagsKnow
  <2>3. Len(seen) = 0 /\ Len(window) = 0
    BY DEF Init
  <2>4. WindowRemembers
    BY <2>1, <2>3, ParserAssumption DEF WindowRemembers
  <2>5. RotationKnown
    BY <2>1 DEF RotationKnown
  <2>6. NothingLost
    BY <2>3 DEF Init, NothingLost, Stream
  <2>7. OutcomeStays
    BY DEF Init, OutcomeStays
  <2> QED
    BY <2>2, <2>4, <2>5, <2>6, <2>7 DEF LogInv
<1>2. TypeOK /\ LogInv /\ NothingLost /\ OutcomeStays /\ [Next]_vars
        => LogInv' /\ NothingLost' /\ OutcomeStays'
  BY LogStep, LostStep, OutcomeStep
<1>3. Spec => [](LogInv /\ NothingLost /\ OutcomeStays)
  BY <1>1, <1>2, TypesCorrect, PTL DEF Spec
<1>4. TypeOK /\ LogInv /\ NothingLost /\ OutcomeStays => ParserInv
  BY DEF ParserInv, LogInv
<1> QED
  BY <1>3, <1>4, TypesCorrect, PTL

-----------------------------------------------------------------------------
\* The outcome takes every line into account that was printed, unless a reader gave up
\* over one it could not decode (runner.rs:199-214).
THEOREM AllIsRead == Spec => []NothingUnread
<1>1. ParserInv => NothingUnread
  <2> SUFFICES ASSUME ParserInv, outcome # "none",
                      \A s \in Stream : reader[s] # "broken"
               PROVE  Len(seen) = printed
    BY DEF NothingUnread
  <2>1. \A s \in Stream : reader[s] = "eof"
    BY DEF ParserInv, OutcomeStays, TypeOK
  <2>2. Len(pipe["stdout"]) = 0 /\ Len(pipe["stderr"]) = 0
    BY <2>1 DEF ParserInv, NothingLost, Stream
  <2>3. printed = Len(seen) + Len(pipe["stdout"]) + Len(pipe["stderr"])
    BY DEF ParserInv, NothingLost
  <2>4. Len(seen) \in Nat
    BY DEF ParserInv, TypeOK
  <2> QED
    BY <2>2, <2>3, <2>4
<1> QED
  BY <1>1, ParserInvariant, PTL

\* The outcome is what the whole connect phase says, although a window of it is kept
\* only (runner.rs:60-98, 278-302).
THEOREM OutcomeIsRight == Spec => []OutcomeRight
<1>1. ParserInv => OutcomeRight
  <2> SUFFICES ASSUME ParserInv, outcome # "none"
               PROVE  OutcomeRight
    BY DEF OutcomeRight
  <2>1. outcome = Classify
    BY DEF ParserInv, OutcomeStays
  <2>2. FlagsKnow
    BY DEF ParserInv
  <2>3. /\ ConnectPhase \subseteq Lines(seen)
        /\ "up" \notin Lines(seen) => ConnectPhase = Lines(seen)
    BY PhaseIs DEF ParserInv
  <2>4. CASE needCert
    <3>1. outcome = "NeedCert"
      BY <2>1, <2>4 DEF Classify
    <3> QED
      BY <2>2, <2>4, <3>1 DEF FlagsKnow, OutcomeRight
  <2>5. CASE ~needCert /\ authFailed
    <3>1. outcome = "AuthFailed"
      BY <2>1, <2>5 DEF Classify
    <3> QED
      BY <2>2, <2>5, <3>1 DEF FlagsKnow, OutcomeRight
  <2>6. CASE ~needCert /\ ~authFailed /\ certFailed
    <3>1. outcome = "CertRejected"
      BY <2>1, <2>6 DEF Classify
    <3> QED
      BY <2>2, <2>6, <3>1 DEF FlagsKnow, OutcomeRight
  <2>7. CASE ~needCert /\ ~authFailed /\ ~certFailed /\ up
    <3>1. outcome = "ExitedAfterUp"
      BY <2>1, <2>7 DEF Classify
    <3> QED
      BY <2>2, <2>7, <3>1 DEF FlagsKnow, OutcomeRight
  <2>8. CASE ~needCert /\ ~authFailed /\ ~certFailed /\ ~up
    <3>1. outcome \in {"Failed", "Interrupted"}
      BY <2>1, <2>8 DEF Classify
    <3>2. ConnectPhase = Lines(seen)
      BY <2>2, <2>3, <2>8 DEF FlagsKnow
    <3> QED
      BY <2>2, <2>8, <3>1, <3>2 DEF FlagsKnow, OutcomeRight
  <2> QED
    BY <2>4, <2>5, <2>6, <2>7, <2>8
<1> QED
  BY <1>1, ParserInvariant, PTL

\* A fingerprint that follows the validation error within the window is never missed
\* (runner.rs:46-48).
THEOREM RotationIsFound == Spec => []RotationFound
<1>1. ParserInv => RotationFound
  <2> SUFFICES ASSUME ParserInv, outcome # "none", NEW i \in DOMAIN seen,
                      NEW j \in DOMAIN seen, i < j, j - i < Window,
                      seen[i] = "invalid", seen[j] = "pin",
                      "up" \notin Lines(SubSeq(seen, 1, j))
               PROVE  outcome = "NeedCert"
    BY DEF RotationFound
  <2>1. needCert
    BY DEF ParserInv, RotationKnown
  <2>2. outcome = Classify
    BY DEF ParserInv, OutcomeStays
  <2> QED
    BY <2>1, <2>2 DEF Classify
<1> QED
  BY <1>1, ParserInvariant, PTL

-----------------------------------------------------------------------------
(* When a tunnel that came up is known to have *)

LEMMA UpIsFirstStep ==
  ASSUME TypeOK, NEW s \in Stream, OnlyPipe(s), OnlyPipe(s)', UpIsFirst(s), [Next]_vars
  PROVE  UpIsFirst(s)'
<1>1. /\ pipe[s] \in Seq(Line) /\ seen \in Seq(Line) /\ pipe \in [Stream -> Seq(Line)]
      /\ DOMAIN pipe[s] = 1..Len(pipe[s]) /\ Len(pipe[s]) \in Nat
  BY DEF TypeOK
<1>2. PICK n \in Nat : n = Len(pipe[s])
  BY <1>1
<1>3. CASE UNCHANGED <<pipe, seen, firstFact>> /\ (reader'[s] = "broken" => reader[s] = "broken")
  BY <1>3 DEF UpIsFirst, Lines, ConnectPhase
<1>4. ASSUME NEW t \in Stream, NEW l \in Line, WriteLine(t, l) PROVE UpIsFirst(s)'
  <2>1. /\ pipe' = [pipe EXCEPT ![t] = Append(pipe[t], l)] /\ seen' = seen
        /\ reader' = reader /\ reader[t] = "reading"
        /\ firstFact' = IF firstFact = "other" THEN l ELSE firstFact
    BY <1>4 DEF WriteLine
  <2>2. t = s
    <3>1. pipe'[t] # <<>>
      <4>1. pipe[t] \in Seq(Line) /\ pipe'[t] = Append(pipe[t], l)
        BY <1>1, <2>1
      <4>2. QED
        BY <4>1
    <3>2. QED
      BY <3>1 DEF OnlyPipe
  <2>3. /\ pipe'[s] = Append(pipe[s], l)
        /\ DOMAIN pipe'[s] = 1..(n + 1) /\ pipe'[s][n + 1] = l
        /\ \A i \in 1..n : pipe'[s][i] = pipe[s][i]
        /\ Lines(pipe'[s]) = Lines(pipe[s]) \cup {l}
    <3>1. pipe'[s] = Append(pipe[s], l)
      BY <1>1, <2>1, <2>2
    <3>2. QED
      BY <1>1, <1>2, <3>1, AppendLines
  <2>4. Lines(seen') = Lines(seen) /\ ConnectPhase' = ConnectPhase
    BY <2>1 DEF Lines, ConnectPhase
  <2>5. CASE firstFact = "other"
    <3>1. /\ Lines(seen) \subseteq {"other"} /\ Lines(pipe[s]) \subseteq {"other"}
          /\ firstFact' = l
      BY <2>1, <2>5 DEF UpIsFirst
    <3>2. ConnectPhase \subseteq {"other"}
      BY <3>1, PhaseIs
    <3>3. \A i \in 1..n : pipe[s][i] = "other"
      BY <1>1, <1>2, <3>1 DEF Lines
    <3>4. l = "up" =>
            \E i \in DOMAIN pipe'[s] :
              pipe'[s][i] = "up" /\ \A j \in 1..(i - 1) : pipe'[s][j] = "other"
      <4>1. n + 1 \in 1..(n + 1) /\ (n + 1) - 1 = n
        OBVIOUS
      <4>2. \A j \in 1..((n + 1) - 1) : pipe'[s][j] = "other"
        BY <2>3, <3>3, <4>1
      <4>3. QED
        BY <2>3, <4>1, <4>2
    <3>5. QED
      BY <2>1, <2>2, <2>3, <2>4, <3>1, <3>2, <3>4 DEF UpIsFirst
  <2>6. CASE firstFact = "up"
    <3>1. ASSUME NEW i \in DOMAIN pipe[s], pipe[s][i] = "up",
                 \A j \in 1..(i - 1) : pipe[s][j] = "other"
          PROVE  \E k \in DOMAIN pipe'[s] :
                   pipe'[s][k] = "up" /\ \A j \in 1..(k - 1) : pipe'[s][j] = "other"
      <4>1. i \in 1..n /\ i \in DOMAIN pipe'[s]
        BY <1>1, <1>2, <2>3
      <4>2. \A j \in 1..(i - 1) : j \in 1..n
        BY <4>1
      <4>3. pipe'[s][i] = "up" /\ \A j \in 1..(i - 1) : pipe'[s][j] = "other"
        BY <2>3, <3>1, <4>1, <4>2
      <4>4. QED
        BY <4>1, <4>3
    <3>2. QED
      BY <2>1, <2>4, <2>6, <3>1 DEF UpIsFirst
  <2>7. CASE firstFact \notin {"other", "up"}
    BY <2>1, <2>7 DEF UpIsFirst
  <2>8. QED
    BY <2>5, <2>6, <2>7
<1>5. ASSUME NEW t \in Stream, ReadLine(t) PROVE UpIsFirst(s)'
  <2>1. t = s /\ n # 0 /\ Head(pipe[s]) = pipe[s][1] /\ 1 \in 1..n
    <3>1. pipe[t] # <<>>
      BY <1>5 DEF ReadLine
    <3>2. t = s
      BY <3>1 DEF OnlyPipe
    <3>3. QED
      BY <1>1, <1>2, <3>1, <3>2
  <2>2. PICK l \in Line : l = pipe[s][1] /\ l \in Lines(pipe[s])
    BY <1>1, <1>2, <2>1 DEF Lines
  <2>3. firstFact' = firstFact
    BY <1>5 DEF ReadLine
  <2>4. CASE l # "binary"
    <3>1. /\ seen' = Append(seen, l) /\ reader' = reader
          /\ pipe' = [pipe EXCEPT ![s] = Tail(pipe[s])]
      BY <1>5, <2>1, <2>2, <2>4 DEF ReadLine
    <3>2. /\ DOMAIN pipe'[s] = 1..(n - 1)
          /\ \A i \in 1..(n - 1) : pipe'[s][i] = pipe[s][i + 1]
      <4>1. pipe'[s] = Tail(pipe[s])
        BY <1>1, <3>1
      <4>2. QED
        BY <1>1, <1>2, <2>1, <4>1
    <3>3. /\ Lines(seen') = Lines(seen) \cup {l}
          /\ ConnectPhase' = IF "up" \in Lines(seen) \/ l = "up" THEN ConnectPhase
                             ELSE ConnectPhase \cup {l}
      BY <3>1, PhaseGrows
    <3>4. Lines(pipe'[s]) \subseteq Lines(pipe[s])
      <4>1. \A i \in 1..(n - 1) : i + 1 \in 1..n
        OBVIOUS
      <4>2. QED
        BY <1>1, <1>2, <3>2, <4>1 DEF Lines
    <3>5. firstFact = "other" => Lines(seen') \cup Lines(pipe'[s]) \subseteq {"other"}
      BY <2>2, <3>3, <3>4 DEF UpIsFirst
    <3>6. ASSUME firstFact = "up"
          PROVE  /\ ConnectPhase' \subseteq {"other"}
                 /\ \/ "up" \in Lines(seen')
                    \/ /\ reader'[s] # "broken"
                       /\ \E i \in DOMAIN pipe'[s] :
                            pipe'[s][i] = "up" /\ \A j \in 1..(i - 1) : pipe'[s][j] = "other"
      <4>1. CASE "up" \in Lines(seen)
        BY <3>3, <3>6, <4>1 DEF UpIsFirst
      <4>2. CASE "up" \notin Lines(seen)
        <5>1. ConnectPhase \subseteq {"other"} /\ reader[s] # "broken"
          BY <3>6, <4>2 DEF UpIsFirst
        <5>2. PICK i \in 1..n : /\ pipe[s][i] = "up"
                                /\ \A j \in 1..(i - 1) : pipe[s][j] = "other"
          BY <1>1, <1>2, <3>6, <4>2 DEF UpIsFirst
        <5>3. CASE i = 1
          BY <2>2, <3>3, <5>1, <5>2, <5>3
        <5>4. CASE i # 1
          <6>1. i - 1 \in 1..(n - 1) /\ (i - 1) + 1 = i /\ 1 \in 1..(i - 1)
            BY <5>4
          <6>2. l = "other"
            BY <2>2, <5>2, <6>1
          <6>3. pipe'[s][i - 1] = "up"
            BY <3>2, <5>2, <6>1
          <6>4. \A j \in 1..((i - 1) - 1) : pipe'[s][j] = "other"
            <7>1. \A j \in 1..((i - 1) - 1) : j \in 1..(n - 1) /\ j + 1 \in 1..(i - 1)
              BY <6>1
            <7>2. QED
              BY <3>2, <5>2, <7>1
          <6>5. QED
            BY <3>1, <3>2, <3>3, <5>1, <6>1, <6>2, <6>3, <6>4
        <5>5. QED
          BY <5>3, <5>4
      <4>3. QED
        BY <4>1, <4>2
    <3>7. QED
      BY <2>3, <3>5, <3>6 DEF UpIsFirst
  <2>5. CASE l = "binary"
    <3>1. firstFact # "other"
      BY <2>2, <2>5 DEF UpIsFirst
    <3>2. UNCHANGED seen
      BY <1>5, <2>1, <2>2, <2>5 DEF ReadLine
    <3>3. ConnectPhase' = ConnectPhase /\ Lines(seen') = Lines(seen)
      BY <3>2 DEF ConnectPhase, Lines
    <3>4. ASSUME firstFact = "up", "up" \notin Lines(seen) PROVE FALSE
      <4>1. PICK i \in 1..n : /\ pipe[s][i] = "up"
                              /\ \A j \in 1..(i - 1) : pipe[s][j] = "other"
        BY <1>1, <1>2, <3>4 DEF UpIsFirst
      <4>2. i = 1 \/ 1 \in 1..(i - 1)
        OBVIOUS
      <4>3. QED
        BY <2>2, <2>5, <4>1, <4>2
    <3>5. QED
      BY <2>3, <3>1, <3>3, <3>4 DEF UpIsFirst
  <2>6. QED
    BY <2>4, <2>5
<1>6. ASSUME NEW t \in Stream, ReadEof(t) PROVE UpIsFirst(s)'
  BY <1>3, <1>6 DEF ReadEof, TypeOK
<1>7. CASE BrokenPipe \/ Exit \/ TryWait \/ UNCHANGED vars
  BY <1>3, <1>7 DEF BrokenPipe, Exit, TryWait, vars
<1>8. QED
  BY <1>4, <1>5, <1>6, <1>7 DEF Next, Reader

\* A session that came up is known to have, as long as the child prints to one pipe only:
\* the race of two readers is the only way to take an error of the tunnel for one of the
\* connect (runner.rs:34, 66-98, 199-214).
THEOREM UpThenExitedUnlessRace ==
  ASSUME NEW s \in Stream
  PROVE  Spec /\ []OnlyPipe(s) => []UpThenExited
<1>1. Init => UpIsFirst(s)
  <2> SUFFICES ASSUME Init PROVE UpIsFirst(s)
    OBVIOUS
  <2>1. firstFact = "other" /\ seen = <<>> /\ pipe[s] = <<>>
    BY DEF Init
  <2>2. Lines(seen) = {} /\ Lines(pipe[s]) = {}
    BY <2>1 DEF Lines
  <2>3. QED
    BY <2>1, <2>2 DEF UpIsFirst
<1>2. TypeOK /\ OnlyPipe(s) /\ OnlyPipe(s)' /\ UpIsFirst(s) /\ [Next]_vars => UpIsFirst(s)'
  BY UpIsFirstStep
<1>3. ParserInv /\ UpIsFirst(s) => UpThenExited
  <2> SUFFICES ASSUME ParserInv, UpIsFirst(s), outcome # "none", firstFact = "up"
               PROVE  outcome = "ExitedAfterUp"
    BY DEF UpThenExited
  <2>1. reader[s] # "reading" /\ outcome = Classify
    BY DEF ParserInv, OutcomeStays
  <2>2. reader[s] # "broken" => pipe[s] = <<>>
    BY <2>1 DEF ParserInv, NothingLost, TypeOK
  <2>3. "up" \in Lines(seen) /\ ConnectPhase \subseteq {"other"}
    BY <2>2 DEF UpIsFirst
  <2>4. up /\ ~needCert /\ ~authFailed /\ ~certFailed
    BY <2>3 DEF ParserInv, FlagsKnow
  <2>5. QED
    BY <2>1, <2>4 DEF Classify
<1>4. ParserInv => TypeOK
  BY DEF ParserInv
<1>5. QED
  BY <1>1, <1>2, <1>3, <1>4, ParserInvariant, PTL DEF Spec
=============================================================================
