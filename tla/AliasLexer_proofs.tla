------------------------- MODULE AliasLexer_proofs -------------------------
(***************************************************************************)
(* Proofs about AliasLexer, for any aliases and any input: the indices of  *)
(* the lexer stay within its buffer, substitution changes nothing but the  *)
(* word, no alias is substituted within itself, the rule about blanks at   *)
(* the end of replacements is exact, and locations are those of the text.  *)
(***************************************************************************)
EXTENDS AliasLexer, SequenceTheorems, FiniteSetTheorems, WellFoundedInduction, TLAPS

(* Characters of no alias, or of aliases each of which occurs once.        *)
GoodChar == {c \in SourceChar : Injective(c.location)}

GoodSource == source \in Seq(GoodChar)

(* Concatenation, with the indices of the second part counted from the   *)
(* end of the first.                                                       *)
LEMMA ConcatParts ==
  ASSUME NEW S, NEW p \in Seq(S), NEW q \in Seq(S)
  PROVE  /\ p \o q \in Seq(S)
         /\ Len(p \o q) = Len(p) + Len(q)
         /\ \A i \in 1..Len(p) : (p \o q)[i] = p[i]
         /\ \A i \in 1..Len(q) : (p \o q)[Len(p) + i] = q[i]
<1>1. Len(p) \in Nat /\ Len(q) \in Nat
  BY LenProperties
<1>2. QED
  BY <1>1, ConcatProperties

(* What Vec::splice leaves: the part before, the replacement, the rest.    *)
IsSpliced(t, s, b, e, r) ==
  /\ Len(t) = b + Len(r) + (Len(s) - e)
  /\ \A i \in 1..b : t[i] = s[i]
  /\ \A i \in 1..Len(r) : t[b + i] = r[i]
  /\ \A i \in 1..Len(s) - e : t[b + Len(r) + i] = s[e + i]

LEMMA SpliceProperties ==
  ASSUME NEW S, NEW s \in Seq(S), NEW r \in Seq(S),
         NEW e \in 0..Len(s), NEW b \in 0..e
  PROVE  /\ Splice(s, b, e, r) \in Seq(S)
         /\ IsSpliced(Splice(s, b, e, r), s, b, e, r)
<1> DEFINE before == SubSeq(s, 1, b)
           after == SubSeq(s, e + 1, Len(s))
<1>1. /\ Len(s) \in Nat /\ Len(r) \in Nat
      /\ \A i \in 1..Len(s) : s[i] \in S
  BY LenProperties, ElementOfSeq
<1>2. /\ before \in Seq(S) /\ Len(before) = b
      /\ \A i \in 1..b : before[i] = s[i]
  <2>1. \A i \in 1..b : s[i] \in S
    BY <1>1
  <2>2. /\ before \in Seq(S)
        /\ Len(before) = IF 1 <= b THEN b - 1 + 1 ELSE 0
        /\ \A i \in 1..b - 1 + 1 : before[i] = s[1 + i - 1]
    BY <2>1, SubSeqProperties
  <2>3. QED
    BY <2>2
<1>3. /\ after \in Seq(S) /\ Len(after) = Len(s) - e
      /\ \A i \in 1..Len(s) - e : after[i] = s[e + i]
  <2>1. \A i \in e + 1..Len(s) : s[i] \in S
    BY <1>1
  <2>2. /\ after \in Seq(S)
        /\ Len(after) = IF e + 1 <= Len(s) THEN Len(s) - (e + 1) + 1 ELSE 0
        /\ \A i \in 1..Len(s) - (e + 1) + 1 : after[i] = s[e + 1 + i - 1]
    BY <1>1, <2>1, SubSeqProperties
  <2>3. QED
    BY <1>1, <2>2
<1> HIDE DEF before, after
<1>4. /\ before \o r \in Seq(S) /\ Len(before \o r) = b + Len(r)
      /\ \A i \in 1..b : (before \o r)[i] = s[i]
      /\ \A i \in 1..Len(r) : (before \o r)[b + i] = r[i]
  <2>1. /\ before \o r \in Seq(S) /\ Len(before \o r) = Len(before) + Len(r)
        /\ \A i \in 1..Len(before) : (before \o r)[i] = before[i]
        /\ \A i \in 1..Len(r) : (before \o r)[Len(before) + i] = r[i]
    <3>1. before \in Seq(S) /\ r \in Seq(S)
      BY <1>2
    <3>2. QED
      BY <3>1, ConcatParts
  <2>2. QED
    BY <1>2, <2>1
<1> DEFINE front == before \o r
<1> HIDE DEF front
<1>5. /\ front \in Seq(S) /\ Len(front) = b + Len(r)
      /\ \A i \in 1..b : front[i] = s[i]
      /\ \A i \in 1..Len(r) : front[b + i] = r[i]
  BY <1>4 DEF front
<1>6. /\ front \o after \in Seq(S)
      /\ Len(front \o after) = Len(front) + Len(after)
      /\ \A i \in 1..Len(front) : (front \o after)[i] = front[i]
      /\ \A i \in 1..Len(after) : (front \o after)[Len(front) + i] = after[i]
  <2>1. front \in Seq(S) /\ after \in Seq(S)
    BY <1>3, <1>5
  <2>2. QED
    BY <2>1, ConcatParts
<1>7. Splice(s, b, e, r) = front \o after
  BY DEF Splice, before, after, front
<1>8. /\ \A i \in 1..b : i \in 1..b + Len(r)
      /\ \A i \in 1..Len(r) : b + i \in 1..b + Len(r)
  BY <1>1
<1>9. QED
  BY <1>3, <1>5, <1>6, <1>7, <1>8 DEF IsSpliced

(* A location grows by a place in the replacement of an alias that is not  *)
(* in it.                                                                  *)
LEMMA LongerLocation ==
  ASSUME NEW location \in Location, Injective(location), NEW place \in Place,
         \A i \in DOMAIN location : location[i].source # place.source
  PROVE  Append(location, place) \in Location /\ Injective(Append(location, place))
<1>1. /\ Append(location, place) \in Location
      /\ Len(Append(location, place)) = Len(location) + 1
      /\ \A i \in 1..Len(location) : Append(location, place)[i] = location[i]
      /\ Append(location, place)[Len(location) + 1] = place
      /\ Len(location) \in Nat
      /\ DOMAIN location = 1..Len(location)
      /\ DOMAIN Append(location, place) = 1..Len(location) + 1
  BY AppendProperties, LenProperties DEF Location
<1>2. QED
  BY <1>1 DEF Injective

(* The lines of a text: where the line of a character begins and ends.     *)
IsLineBegin(text, i, b) == /\ b = 0 \/ text[b] = Newline
                           /\ \A k \in b + 1..i - 1 : text[k] # Newline
IsLineEnd(text, i, e) == /\ e = Len(text) \/ text[e] = Newline
                         /\ \A k \in i..e - 1 : text[k] # Newline

LEMMA LineBeginExists ==
  ASSUME NEW text, NEW i \in Nat \ {0}
  PROVE  LineBegin(text, i) \in 0..i - 1 /\ IsLineBegin(text, i, LineBegin(text, i))
<1> DEFINE S == {b \in Nat : b <= i - 1 /\ \A k \in b + 1..i - 1 : text[k] # Newline}
<1>1. S \subseteq Nat /\ i - 1 \in S
  OBVIOUS
<1>2. PICK b \in S : \A c \in S : ~(<<c, b>> \in OpToRel(<, Nat))
  BY <1>1, NatLessThanWellFounded, WFMin
<1>3. b = 0 \/ text[b] = Newline
  <2>1. SUFFICES ASSUME b # 0, text[b] # Newline PROVE FALSE
    OBVIOUS
  <2>2. b - 1 \in S
    <3>1. \A k \in b..i - 1 : text[k] # Newline
      BY <2>1
    <3>2. QED
      BY <2>1, <3>1
  <2>3. <<b - 1, b>> \in OpToRel(<, Nat)
    BY <2>1 DEF OpToRel
  <2>4. QED
    BY <1>2, <2>2, <2>3
<1>4. b \in 0..i - 1 /\ IsLineBegin(text, i, b)
  BY <1>3 DEF IsLineBegin
<1>5. QED
  BY <1>4 DEF LineBegin, IsLineBegin

LEMMA LineEndExists ==
  ASSUME NEW text, Len(text) \in Nat, NEW i \in 1..Len(text)
  PROVE  LineEnd(text, i) \in i..Len(text) /\ IsLineEnd(text, i, LineEnd(text, i))
<1> DEFINE S == {e \in Nat : i <= e /\ e <= Len(text) /\ (e = Len(text) \/ text[e] = Newline)}
<1>1. S \subseteq Nat /\ Len(text) \in S
  OBVIOUS
<1>2. PICK e \in S : \A c \in S : ~(<<c, e>> \in OpToRel(<, Nat))
  BY <1>1, NatLessThanWellFounded, WFMin
<1>3. ASSUME NEW k \in i..e - 1, text[k] = Newline PROVE FALSE
  <2>1. k \in S /\ <<k, e>> \in OpToRel(<, Nat)
    BY <1>3 DEF OpToRel
  <2>2. QED
    BY <1>2, <2>1
<1>4. e \in i..Len(text) /\ IsLineEnd(text, i, e)
  BY <1>3 DEF IsLineEnd
<1>5. QED
  BY <1>4 DEF LineEnd, IsLineEnd

(* A character of a text is where its place says.                          *)
LEMMA PlaceInProperties ==
  ASSUME NEW text \in Seq(Char), NEW i \in DOMAIN text, NEW src \in Name \cup {Input}
  PROVE  PlaceIn(src, text, i) \in Place /\ Shows(PlaceIn(src, text, i), text[i])
<1> DEFINE b == LineBegin(text, i)
           e == LineEnd(text, i)
<1>1. Len(text) \in Nat /\ DOMAIN text = 1..Len(text) /\ \A k \in 1..Len(text) : text[k] \in Char
  BY LenProperties, ElementOfSeq
<1>2. b \in 0..i - 1 /\ e \in i..Len(text)
  BY <1>1, LineBeginExists, LineEndExists
<1> HIDE DEF b, e
<1>3. /\ SubSeq(text, b + 1, e) \in Seq(Char)
      /\ DOMAIN SubSeq(text, b + 1, e) = 1..e - b
      /\ \A k \in 1..e - b : SubSeq(text, b + 1, e)[k] = text[b + k]
  <2>1. \A k \in b + 1..e : text[k] \in Char
    BY <1>1, <1>2
  <2>2. /\ SubSeq(text, b + 1, e) \in Seq(Char)
        /\ Len(SubSeq(text, b + 1, e)) = IF b + 1 <= e THEN e - (b + 1) + 1 ELSE 0
        /\ \A k \in 1..e - (b + 1) + 1 : SubSeq(text, b + 1, e)[k] = text[b + 1 + k - 1]
    BY <1>1, <1>2, <2>1, SubSeqProperties
  <2>3. QED
    BY <1>1, <1>2, <2>2, LenProperties
<1>4. i - b \in 1..e - b /\ i - b \in Nat /\ b + (i - b) = i
  BY <1>1, <1>2
<1>5. LineNumber(text, i) \in Nat
  <2>1. IsFiniteSet({k \in 1..i - 1 : text[k] = Newline})
    <3>1. IsFiniteSet(1..i - 1)
      <4>1. i - 1 \in Int /\ 1 \in Int
        BY <1>1
      <4>2. QED
        BY <4>1, FS_Interval
    <3>2. QED
      BY <3>1, FS_Subset
  <2>2. QED
    BY <2>1, FS_CardinalityType DEF LineNumber
<1>6. PlaceIn(src, text, i)
        = [source |-> src, line |-> SubSeq(text, b + 1, e), number |-> LineNumber(text, i),
           column |-> i - b]
  BY DEF PlaceIn, b, e
<1>7. PlaceIn(src, text, i) \in Place
  BY <1>3, <1>4, <1>5, <1>6 DEF Place
<1>8. SubSeq(text, b + 1, e)[i - b] = text[i]
  BY <1>3, <1>4
<1>9. Shows(PlaceIn(src, text, i), text[i])
  <2>1. /\ PlaceIn(src, text, i).line = SubSeq(text, b + 1, e)
        /\ PlaceIn(src, text, i).column = i - b
    BY DEF PlaceIn, b, e
  <2>2. QED
    BY <1>3, <1>4, <1>8, <2>1 DEF Shows
<1>10. QED
  BY <1>7, <1>9

LEMMA LineCharsGood ==
  ASSUME NEW line \in Line, NEW n \in Nat
  PROVE  LineChars(line, n) \in Seq(GoodChar) /\ Len(LineChars(line, n)) = Len(line)
<1>1. line \in Seq(Char) /\ Len(line) \in Nat /\ DOMAIN line = 1..Len(line)
  BY LineAssumption, LenProperties
<1>2. ASSUME NEW i \in DOMAIN line
      PROVE  [value |-> line[i], ending |-> FALSE,
              location |-> <<[source |-> Input, line |-> line, number |-> n, column |-> i]>>]
               \in GoodChar
  <2> DEFINE p == [source |-> Input, line |-> line, number |-> n, column |-> i]
  <2>1. p \in Place
    BY <1>1 DEF Place
  <2>2. <<p>> \in Location /\ Injective(<<p>>)
    BY <2>1 DEF Location, Injective
  <2>3. line[i] \in Char
    BY <1>1, ElementOfSeq
  <2>4. QED
    BY <2>2, <2>3 DEF GoodChar, SourceChar
<1>3. QED
  BY <1>1, <1>2 DEF LineChars

LEMMA ReplacementCharsGood ==
  ASSUME TypeOK, NEW name \in DOMAIN aliases, NEW original \in GoodChar, ~IsAliasFor(original, name)
  PROVE  ReplacementChars(name, original) \in Seq(GoodChar)
<1> DEFINE text == aliases[name].replacement
<1>1. name \in Name /\ text \in Seq(Char) /\ Len(text) \in Nat /\ DOMAIN text = 1..Len(text)
  BY AliasAssumption, LenProperties DEF TypeOK, Alias
<1>2. ASSUME NEW i \in DOMAIN text
      PROVE  [value |-> text[i], ending |-> i = Len(text) /\ EndsWithBlank(text),
              location |-> Append(original.location, PlaceIn(name, text, i))] \in GoodChar
  <2>1. PlaceIn(name, text, i) \in Place /\ PlaceIn(name, text, i).source = name
    BY <1>1, PlaceInProperties DEF PlaceIn
  <2>2. /\ Append(original.location, PlaceIn(name, text, i)) \in Location
        /\ Injective(Append(original.location, PlaceIn(name, text, i)))
    BY <2>1, LongerLocation DEF IsAliasFor, GoodChar, SourceChar
  <2>3. text[i] \in Char /\ (i = Len(text) /\ EndsWithBlank(text)) \in BOOLEAN
    BY <1>1, ElementOfSeq
  <2>4. QED
    BY <2>2, <2>3 DEF GoodChar, SourceChar
<1>3. QED
  BY <1>1, <1>2 DEF ReplacementChars

(* What the buffer is after a substitution.                                *)
LEMMA SubstituteEffect ==
  ASSUME TypeOK, GoodSource, NEW name \in Name, Substitute(name)
  PROVE  LET r == ReplacementChars(name, source[begin + 1])
         IN /\ r \in Seq(GoodChar)
            /\ source' = Splice(source, begin, index, r)
            /\ index \in 0..Len(source) /\ begin \in 0..index
<1>1. pc = "taken" /\ Applies(name)
  BY DEF Substitute
<1>2. /\ Len(source) \in Nat /\ index \in 0..Len(source) /\ begin \in 0..index /\ begin < index
  BY <1>1, LenProperties DEF TypeOK
<1>3. begin + 1 \in 1..Len(source)
  BY <1>2
<1>4. source[begin + 1] \in GoodChar
  BY <1>3, ElementOfSeq DEF GoodSource
<1>5. name \in DOMAIN aliases /\ ~IsAliasFor(source[begin + 1], name)
  BY <1>1 DEF Applies, IsRecursion
<1>6. ReplacementChars(name, source[begin + 1]) \in Seq(GoodChar)
  BY <1>4, <1>5, ReplacementCharsGood
<1>7. QED
  BY <1>2, <1>6 DEF Substitute

-----------------------------------------------------------------------------
(* The location of the end of the input.                                   *)
LEMMA EndLocated ==
  ASSUME TypeOK, ReadEnd
  PROVE  eof' \in Location
<1>1. CASE source = <<>>
  <2>1. [source |-> Input, line |-> <<>>, number |-> Len(lines) + 1, column |-> 1] \in Place
    BY LenProperties DEF Place, TypeOK
  <2>2. QED
    BY <1>1, <2>1 DEF ReadEnd, NextNumber, Location
<1>2. CASE source # <<>>
  <2> DEFINE l == source[Len(source)].location
  <2>1. l \in Seq(Place)
    <3>1. source \in Seq(SourceChar) /\ Len(source) \in Nat /\ Len(source) # 0
      BY <1>2, EmptySeq, LenProperties DEF TypeOK
    <3>2. source[Len(source)] \in SourceChar
      BY <3>1, ElementOfSeq
    <3>3. QED
      BY <3>2 DEF SourceChar, Location
  <2>2. Advance(l) \in Seq(Place)
    <3>1. /\ Len(l) \in Nat /\ l \in [1..Len(l) -> Place]
      BY <2>1, LenProperties, ElementOfSeq
    <3>2. [l EXCEPT ![Len(l)].column = @ + 1] \in [1..Len(l) -> Place]
      <4>1. CASE Len(l) = 0
        <5>1. 0 \notin 1..Len(l) /\ DOMAIN l = 1..Len(l)
          BY <3>1
        <5> DEFINE m == [l EXCEPT ![0].column = @ + 1]
        <5>2. m = [k \in DOMAIN l |-> IF k = 0 THEN [l[0] EXCEPT !.column = @ + 1] ELSE l[k]]
          OBVIOUS
        <5>3. m \in [1..Len(l) -> Place]
          BY <3>1, <5>1, <5>2
        <5>4. QED
          BY <4>1, <5>3
      <4>2. CASE Len(l) # 0
        <5>1. l[Len(l)] \in Place
          BY <3>1, <4>2
        <5> DEFINE p == l[Len(l)]
                   q == [p EXCEPT !.column = @ + 1]
        <5>2. q \in Place
          BY <5>1 DEF Place
        <5>3. [l EXCEPT ![Len(l)].column = @ + 1] = [l EXCEPT ![Len(l)] = q]
          OBVIOUS
        <5> HIDE DEF q
        <5>4. [l EXCEPT ![Len(l)] = q] \in [1..Len(l) -> Place]
          BY <3>1, <5>2
        <5>5. QED
          BY <5>3, <5>4
      <4>3. QED
        BY <4>1, <4>2
    <3>3. QED
      BY <3>1, <3>2 DEF Advance
  <2>3. QED
    BY <1>2, <2>2 DEF ReadEnd, Location
<1>3. QED
  BY <1>1, <1>2

LEMMA GoodInit == Init => TypeOK /\ GoodSource
<1> SUFFICES ASSUME Init PROVE TypeOK /\ GoodSource
  OBVIOUS
<1>1. source = <<>> /\ source \in Seq(SourceChar) /\ source \in Seq(GoodChar) /\ Len(source) = 0
  BY EmptySeq DEF Init
<1>2. eof \in Location /\ lines \in Seq(Line) /\ Len(lines) = 0
  BY EmptySeq DEF Init, Location
<1>3. QED
  BY <1>1, <1>2, BoundAssumption DEF Init, InputState, TypeOK, GoodSource

LEMMA GoodStep == TypeOK /\ GoodSource /\ [Next]_vars => TypeOK' /\ GoodSource'
<1> SUFFICES ASSUME TypeOK, GoodSource, [Next]_vars PROVE TypeOK' /\ GoodSource'
  OBVIOUS
<1>0. /\ Len(source) \in Nat
      /\ index \in Nat /\ index <= Len(source)
      /\ begin \in Nat /\ begin <= index
      /\ DOMAIN source = 1..Len(source)
  BY LenProperties DEF TypeOK
<1>1. CASE ReadLine
  <2> DEFINE n == Len(lines) + 1
  <2>1. PICK line \in Line : /\ source' = source \o LineChars(line, n)
                            /\ lines' = Append(lines, line)
    BY <1>1 DEF ReadLine, NextNumber
  <2>2. LineChars(line, n) \in Seq(GoodChar) /\ Len(LineChars(line, n)) \in Nat
    <3>1. n \in Nat
      BY LenProperties DEF TypeOK
    <3>2. QED
      BY <3>1, LineCharsGood, LenProperties
  <2> HIDE DEF n
  <2>3. source' \in Seq(GoodChar) /\ Len(source') = Len(source) + Len(LineChars(line, n))
    BY <2>1, <2>2, ConcatProperties DEF GoodSource
  <2>4. source' \in Seq(SourceChar)
    BY <2>3, SeqMonotonic DEF GoodChar
  <2>5. index \in 0..Len(source')
    BY <1>0, <2>2, <2>3
  <2>6. lines' \in Seq(Line) /\ Len(lines') \in 0..MaxLines
    BY <1>1, <2>1, BoundAssumption, AppendProperties, LenProperties DEF ReadLine, TypeOK
  <2>7. QED
    BY <1>1, <2>3, <2>4, <2>5, <2>6 DEF ReadLine, TypeOK, GoodSource
<1>2. CASE ReadEnd \/ ReadError \/ Fail \/ EndOfInput
  <2>1. /\ UNCHANGED <<aliases, source, index, begin, isFirst, lines>>
        /\ eof' \in Location
        /\ state' \in InputState
        /\ pc' \in {"next", "end", "failed"}
    BY <1>2, EndLocated DEF ReadEnd, ReadError, Fail, EndOfInput, InputState, TypeOK
  <2>2. QED
    BY <2>1 DEF TypeOK, GoodSource
<1>3. CASE SkipBlank \/ ReadNewline
  <2>1. /\ UNCHANGED <<aliases, state, source, begin, pc, eof, lines>>
        /\ pc = "next" /\ index < Len(source) /\ index' = index + 1
        /\ isFirst' \in BOOLEAN
    BY <1>3 DEF SkipBlank, ReadNewline, TypeOK
  <2>2. index' \in 0..Len(source) /\ begin \in 0..index'
    BY <1>0, <2>1
  <2>3. QED
    BY <2>1, <2>2 DEF TypeOK, GoodSource
<1>4. CASE ReadWord
  <2>1. IsWordEnd(index, index') /\ IsLetterAt(index + 1) /\ source' = source /\ begin' = index
    BY <1>4 DEF ReadWord
  <2>2. index' \in index..Len(source) /\ index' # index
    BY <2>1 DEF IsWordEnd
  <2>3. QED
    BY <1>0, <1>4, <2>1, <2>2 DEF ReadWord, TypeOK, GoodSource
<1>5. ASSUME NEW name \in Name, Substitute(name) PROVE TypeOK' /\ GoodSource'
  <2> DEFINE r == ReplacementChars(name, source[begin + 1])
  <2>1. r \in Seq(GoodChar) /\ source' = Splice(source, begin, index, r)
    BY <1>5, SubstituteEffect
  <2>2. /\ source' \in Seq(GoodChar)
        /\ Len(source') = begin + Len(r) + (Len(source) - index)
    <3>1. source \in Seq(GoodChar) /\ index \in 0..Len(source) /\ begin \in 0..index
      BY <1>0 DEF GoodSource
    <3> HIDE DEF r
    <3>2. /\ Splice(source, begin, index, r) \in Seq(GoodChar)
          /\ Len(Splice(source, begin, index, r)) = begin + Len(r) + (Len(source) - index)
      BY <2>1, <3>1, SpliceProperties DEF IsSpliced
    <3>3. QED
      BY <2>1, <3>2
  <2>3. source' \in Seq(SourceChar)
    BY <2>2, SeqMonotonic DEF GoodChar
  <2>4. Len(r) \in Nat
    BY <2>1, LenProperties
  <2>5. index' = begin /\ begin' = begin /\ index' \in 0..Len(source') /\ begin' \in 0..index'
    BY <1>0, <1>5, <2>2, <2>4 DEF Substitute
  <2>6. QED
    BY <1>5, <2>2, <2>3, <2>5 DEF Substitute, TypeOK, GoodSource
<1>6. CASE Accept
  BY <1>6 DEF Accept, TypeOK, GoodSource
<1>7. CASE UNCHANGED vars
  BY <1>7 DEF vars, TypeOK, GoodSource
<1>8. QED
  BY <1>1, <1>2, <1>3, <1>4, <1>5, <1>6, <1>7 DEF Next

(* The lexer never indexes its buffer out of bounds, and what it holds is  *)
(* characters with their chains of aliases.                                *)
THEOREM LexerTypeCorrect == Spec => []TypeOK
  BY GoodInit, GoodStep, PTL DEF Spec

(* No alias is ever substituted within itself, for any set of aliases.     *)
THEOREM NoAliasWithinItself == Spec => []ChainsInjective
<1>1. GoodSource => ChainsInjective
  <2> SUFFICES ASSUME GoodSource, NEW i \in DOMAIN source PROVE Injective(source[i].location)
    BY DEF ChainsInjective
  <2>1. source[i] \in GoodChar
    BY LenProperties, ElementOfSeq DEF GoodSource
  <2>2. QED
    BY <2>1 DEF GoodChar
<1>2. QED
  BY <1>1, GoodInit, GoodStep, PTL DEF Spec

(* Substitution replaces the word and touches nothing else, for any set of *)
(* aliases and any input.                                                  *)
THEOREM SubstitutionOnlyLocal == Spec => SubstitutionIsLocal
<1> DEFINE Local(name) ==
      LET rest == Len(source) - index
      IN /\ index' = begin
         /\ Len(source') >= begin + rest
         /\ \A i \in 1..begin : source'[i] = source[i]
         /\ \A i \in 1..rest : source'[Len(source') - rest + i] = source[index + i]
<1>1. ASSUME TypeOK, GoodSource, NEW name \in Name, Substitute(name) PROVE Local(name)
  <2> DEFINE r == ReplacementChars(name, source[begin + 1])
  <2>1. /\ r \in Seq(GoodChar) /\ source' = Splice(source, begin, index, r)
        /\ index \in 0..Len(source) /\ begin \in 0..index
    BY <1>1, SubstituteEffect
  <2> HIDE DEF r
  <2>2. source \in Seq(GoodChar) /\ Len(source) \in Nat /\ Len(r) \in Nat
    BY <1>1, <2>1, LenProperties DEF GoodSource
  <2>3. /\ Len(source') = begin + Len(r) + (Len(source) - index)
        /\ \A i \in 1..begin : source'[i] = source[i]
        /\ \A i \in 1..Len(source) - index : source'[begin + Len(r) + i] = source[index + i]
    <3> DEFINE s == Splice(source, begin, index, r)
    <3>1. /\ source \in Seq(GoodChar) /\ r \in Seq(GoodChar)
          /\ index \in 0..Len(source) /\ begin \in 0..index
      BY <2>1, <2>2
    <3>2. IsSpliced(s, source, begin, index, r)
      BY <3>1, SpliceProperties
    <3> HIDE DEF s
    <3>3. source' = s
      BY <2>1 DEF s
    <3>4. QED
      BY <3>2, <3>3 DEF IsSpliced
  <2>4. /\ Len(source') >= begin + (Len(source) - index)
        /\ Len(source') - (Len(source) - index) = begin + Len(r)
    BY <2>1, <2>2, <2>3
  <2>5. index' = begin
    BY <1>1 DEF Substitute
  <2>6. QED
    BY <2>3, <2>4, <2>5
<1>2. TypeOK /\ GoodSource /\ [Next]_vars
        => [\A name \in Name : Substitute(name) => Local(name)]_vars
  BY <1>1
<1>3. QED
  BY <1>2, GoodInit, GoodStep, PTL DEF Spec, SubstitutionIsLocal
-----------------------------------------------------------------------------
(* The invariants about blanks that end replacements.                      *)

(* A word that has been taken consists of letters up to its end, and       *)
(* another line can no longer follow it.                                   *)
WordTaken ==
  pc = "taken" => /\ IsLetterAt(begin + 1) /\ ~IsLetterAt(index + 1)
                  /\ index = Len(source) => state = "EndOfInput"

(* The characters that have been read, a word being taken not counted      *)
Unread == IF pc = "taken" THEN begin ELSE index

(* The aliases that a character comes from are among those of the ones     *)
(* before it, as far as they are still to be read.                         *)
Nested ==
  \A i, j \in DOMAIN source : Unread < i /\ i < j =>
    \A n \in Name : IsAliasFor(source[j], n) => IsAliasFor(source[i], n)

(* Locations are in the input and in the replacements of aliases.          *)
Known(c) == /\ c.location # <<>>
            /\ \A i \in DOMAIN c.location : c.location[i].source \in DOMAIN aliases \cup {Input}
KnownLocations == \A k \in DOMAIN source : Known(source[k])

EndedByBlank(n) == n \in DOMAIN aliases /\ EndsWithBlank(aliases[n].replacement)
SourceOf(k) == Innermost(source[k].location).source

(* After the blank that ends a replacement comes what was not a letter     *)
(* when the replacement was made, and is not from the same alias.          *)
EndingAlone ==
  \A k \in DOMAIN source : source[k].ending =>
    /\ source[k].value = Blank
    /\ EndedByBlank(SourceOf(k))
    /\ k = Len(source) => state = "EndOfInput"
    /\ k < Len(source) => /\ source[k + 1].value \notin Letter
                          /\ ~IsAliasFor(source[k + 1], SourceOf(k))

(* What comes from an alias goes on up to the blank that ends it.          *)
EndingLast ==
  \A n \in Name, k \in DOMAIN source :
    EndedByBlank(n) /\ IsAliasFor(source[k], n) =>
      \/ source[k].ending /\ SourceOf(k) = n
      \/ k < Len(source) /\ IsAliasFor(source[k + 1], n)

BlankInv == WordTaken /\ Nested /\ KnownLocations /\ EndingAlone /\ EndingLast

(* A blank of a replacement that ends with one, and after which the alias  *)
(* is left, is the one that ends it; and that one is such a blank.         *)
LEMMA BlankInvSuffices == TypeOK /\ BlankInv => BlankRuleExact
<1> SUFFICES ASSUME TypeOK, BlankInv, pc = "taken"
             PROVE  IsAfterBlankEndingAlias(begin) <=>
                      \E k \in 1..begin : /\ source[k].ending
                                          /\ \A j \in k..begin : source[j].value = Blank
  BY DEF BlankRuleExact
<1>1. /\ Len(source) \in Nat /\ DOMAIN source = 1..Len(source)
      /\ begin \in Nat /\ begin + 1 \in DOMAIN source
      /\ Input \notin DOMAIN aliases
  <2>1. begin < index /\ index \in 0..Len(source) /\ begin \in 0..index
    BY DEF TypeOK
  <2>2. DOMAIN aliases \subseteq Name
    BY AliasAssumption DEF TypeOK
  <2>3. QED
    BY <2>1, <2>2, LenProperties, NameAssumption DEF TypeOK
<1>2. \A k \in 1..begin : k \in DOMAIN source /\ k < Len(source) /\ k + 1 \in DOMAIN source
  BY <1>1
<1>3. ASSUME NEW k \in 1..begin, source[k].ending
      PROVE  /\ SourceOf(k) # Input
             /\ EndsWithBlank(aliases[SourceOf(k)].replacement)
             /\ ~IsAliasFor(source[k + 1], SourceOf(k))
  BY <1>1, <1>2, <1>3 DEF BlankInv, EndingAlone, EndedByBlank
<1>4. ASSUME NEW k \in 1..begin, SourceOf(k) # Input,
             EndsWithBlank(aliases[SourceOf(k)].replacement),
             ~IsAliasFor(source[k + 1], SourceOf(k))
      PROVE  source[k].ending
  <2>1. source[k].location \in Seq(Place) /\ source[k].location # <<>> /\ Known(source[k])
    <3>1. source[k] \in SourceChar
      BY <1>2, ElementOfSeq, LenProperties DEF TypeOK
    <3>2. QED
      BY <1>2, <3>1 DEF SourceChar, Location, BlankInv, KnownLocations, Known
  <2>2. Len(source[k].location) \in DOMAIN source[k].location
    BY <2>1, LenProperties, EmptySeq
  <2>3. SourceOf(k) \in DOMAIN aliases /\ IsAliasFor(source[k], SourceOf(k))
    BY <1>4, <2>1, <2>2 DEF Known, SourceOf, Innermost, IsAliasFor
  <2>4. SourceOf(k) \in Name /\ EndedByBlank(SourceOf(k))
    BY <1>4, <2>3, AliasAssumption DEF EndedByBlank, TypeOK
  <2>5. QED
    BY <1>2, <1>4, <2>3, <2>4 DEF BlankInv, EndingLast
<1>5. QED
  BY <1>3, <1>4 DEF IsAfterBlankEndingAlias, SourceOf

(* A character of a line of the input                                      *)
LEMMA LineCharProperties ==
  ASSUME NEW line \in Line, NEW n \in Nat, NEW i \in 1..Len(line)
  PROVE  LET c == LineChars(line, n)[i]
             place == [source |-> Input, line |-> line, number |-> n, column |-> i]
         IN /\ c.location = <<place>> /\ c.value = line[i] /\ c.ending = FALSE
            /\ Known(c) /\ \A name \in Name : ~IsAliasFor(c, name)
<1>1. line \in Seq(Char) /\ DOMAIN line = 1..Len(line)
  BY LineAssumption, LenProperties
<1> DEFINE c == LineChars(line, n)[i]
           place == [source |-> Input, line |-> line, number |-> n, column |-> i]
<1>2. c = [value |-> line[i], ending |-> FALSE, location |-> <<place>>]
  BY <1>1 DEF LineChars
<1>3. c.location = <<place>> /\ c.value = line[i] /\ c.ending = FALSE
  BY <1>2
<1>4. place.source = Input
  OBVIOUS
<1> HIDE DEF c, place
<1>5. c.location # <<>> /\ DOMAIN c.location = {1} /\ c.location[1] = place
  BY <1>3
<1>6. QED
  BY <1>3, <1>4, <1>5, NameAssumption DEF Known, IsAliasFor, c, place

(* A character of a replacement comes from the alias, and from what the    *)
(* word it replaces comes from.                                            *)
LEMMA ReplacementCharProperties ==
  ASSUME TypeOK, NEW name \in DOMAIN aliases, NEW original \in SourceChar,
         NEW i \in 1..Len(ReplacementChars(name, original))
  PROVE  LET c == ReplacementChars(name, original)[i]
             text == aliases[name].replacement
         IN /\ text \in Seq(Char) /\ i \in 1..Len(text) /\ Len(text) \in Nat
            /\ Len(ReplacementChars(name, original)) = Len(text)
            /\ c.value = text[i]
            /\ c.ending = (i = Len(text) /\ EndsWithBlank(text))
            /\ c.location = Append(original.location, PlaceIn(name, text, i))
            /\ c.location # <<>> /\ Innermost(c.location).source = name
            /\ \A n : IsAliasFor(c, n) <=> n = name \/ IsAliasFor(original, n)
            /\ Known(original) => Known(c)
<1> DEFINE text == aliases[name].replacement
           c == ReplacementChars(name, original)[i]
           l == original.location
           place == PlaceIn(name, text, i)
           s == ReplacementChars(name, original)
<1>1. name \in Name /\ text \in Seq(Char) /\ Len(text) \in Nat /\ DOMAIN text = 1..Len(text)
  BY AliasAssumption, LenProperties DEF TypeOK, Alias
<1>2. Len(s) = Len(text) /\ DOMAIN s = 1..Len(text)
  BY <1>1 DEF ReplacementChars
<1>3. c = [value |-> text[i], ending |-> i = Len(text) /\ EndsWithBlank(text),
           location |-> Append(l, place)]
  BY <1>1, <1>2 DEF ReplacementChars
<1>4. /\ c.value = text[i] /\ c.ending = (i = Len(text) /\ EndsWithBlank(text))
      /\ c.location = Append(l, place)
  BY <1>3
<1>5. place.source = name /\ place \in Place
  BY <1>1, <1>2, PlaceInProperties DEF PlaceIn
<1>6. l \in Seq(Place)
  BY DEF SourceChar, Location
<1> HIDE DEF c, l, place, text, s
<1>7. /\ Len(l) \in Nat /\ DOMAIN l = 1..Len(l)
      /\ c.location \in Seq(Place) /\ Len(c.location) = Len(l) + 1
      /\ DOMAIN c.location = 1..Len(l) + 1
      /\ \A k \in 1..Len(l) : c.location[k] = l[k]
      /\ c.location[Len(l) + 1] = place
  BY <1>4, <1>5, <1>6, AppendProperties, LenProperties
<1>8. c.location # <<>> /\ Innermost(c.location) = place
  BY <1>7, EmptySeq DEF Innermost
<1>9. \A n : IsAliasFor(c, n) <=> n = name \/ IsAliasFor(original, n)
  <2>1. ASSUME NEW n PROVE IsAliasFor(c, n) <=> n = name \/ IsAliasFor(original, n)
    <3>1. IsAliasFor(c, n) <=> \E k \in 1..Len(l) + 1 : c.location[k].source = n
      BY <1>7 DEF IsAliasFor
    <3>2. IsAliasFor(original, n) <=> \E k \in 1..Len(l) : l[k].source = n
      BY <1>7 DEF IsAliasFor, l
    <3>3. 1..Len(l) + 1 = 1..Len(l) \cup {Len(l) + 1}
      BY <1>7
    <3>4. QED
      BY <1>5, <1>7, <3>1, <3>2, <3>3
  <2>2. QED
    BY <2>1
<1>10. Known(original) => Known(c)
  <2>1. SUFFICES ASSUME Known(original), NEW k \in DOMAIN c.location
                 PROVE  c.location[k].source \in DOMAIN aliases \cup {Input}
    BY <1>8 DEF Known
  <2>2. k \in 1..Len(l) \/ k = Len(l) + 1
    BY <1>7
  <2>3. QED
    BY <1>5, <1>7, <2>1, <2>2 DEF Known, l
<1>11. QED
  BY <1>1, <1>2, <1>4, <1>5, <1>8, <1>9, <1>10 DEF c, l, place, text, s

(* What is in the buffer after a substitution: what was before the word,   *)
(* the replacement, and what was after the word.                           *)
LEMMA WordSpliced ==
  ASSUME TypeOK, GoodSource, NEW name \in Name, Substitute(name)
  PROVE  LET r == ReplacementChars(name, source[begin + 1])
             L == Len(r)
         IN /\ name \in DOMAIN aliases /\ ~IsAliasFor(source[begin + 1], name)
            /\ source[begin + 1] \in SourceChar /\ source[begin + 1].value = name
            /\ L \in Nat /\ DOMAIN r = 1..L /\ index = begin + 1 /\ begin \in Nat
            /\ Len(source) \in Nat /\ begin < Len(source)
            /\ DOMAIN source = 1..Len(source)
            /\ DOMAIN source' = 1..Len(source')
            /\ Len(source') = L + Len(source) - 1
            /\ \A i \in 1..begin : source'[i] = source[i]
            /\ \A i \in begin + 1..begin + L : i - begin \in 1..L /\ source'[i] = r[i - begin]
            /\ \A i \in begin + L + 1..Len(source') :
                 /\ i - L + 1 \in begin + 2..Len(source)
                 /\ source'[i] = source[i - L + 1]
<1> DEFINE r == ReplacementChars(name, source[begin + 1])
           L == Len(r)
<1>1. /\ r \in Seq(GoodChar) /\ source' = Splice(source, begin, index, r)
      /\ index \in 0..Len(source) /\ begin \in 0..index
  BY SubstituteEffect
<1>2. /\ name \in DOMAIN aliases /\ ~IsAliasFor(source[begin + 1], name)
      /\ index = begin + 1 /\ source[begin + 1].value = name
  BY DEF Substitute, Applies, IsRecursion, IsWord
<1> HIDE DEF r
<1>3. source \in Seq(GoodChar) /\ Len(source) \in Nat /\ L \in Nat
      /\ DOMAIN source = 1..Len(source) /\ DOMAIN r = 1..L
  BY <1>1, LenProperties DEF GoodSource
<1>4. /\ source' \in Seq(GoodChar)
      /\ Len(source') = begin + L + (Len(source) - index)
      /\ \A i \in 1..begin : source'[i] = source[i]
      /\ \A i \in 1..L : source'[begin + i] = r[i]
      /\ \A i \in 1..Len(source) - index : source'[begin + L + i] = source[index + i]
  <2> DEFINE s == Splice(source, begin, index, r)
  <2>1. s \in Seq(GoodChar) /\ IsSpliced(s, source, begin, index, r)
    <3>1. /\ source \in Seq(GoodChar) /\ r \in Seq(GoodChar)
          /\ index \in 0..Len(source) /\ begin \in 0..index
      BY <1>1, <1>3
    <3>2. QED
      BY <3>1, SpliceProperties
  <2> HIDE DEF s
  <2>2. source' = s
    BY <1>1 DEF s
  <2>3. QED
    BY <2>1, <2>2 DEF IsSpliced
<1>5. begin \in Nat /\ begin < Len(source) /\ begin + 1 \in 1..Len(source)
  BY <1>1, <1>2, <1>3
<1> HIDE DEF L
<1>6. source[begin + 1] \in SourceChar
  BY <1>3, <1>5, ElementOfSeq DEF GoodChar
<1>7. DOMAIN source' = 1..Len(source') /\ Len(source') = L + Len(source) - 1
  BY <1>2, <1>3, <1>4, <1>5, LenProperties
<1>8. ASSUME NEW i \in begin + 1..begin + L PROVE i - begin \in 1..L /\ source'[i] = r[i - begin]
  <2>1. i - begin \in 1..L /\ begin + (i - begin) = i
    BY <1>3, <1>5
  <2>2. QED
    BY <1>4, <2>1
<1>9. ASSUME NEW i \in begin + L + 1..Len(source')
      PROVE  i - L + 1 \in begin + 2..Len(source) /\ source'[i] = source[i - L + 1]
  <2>1. /\ i - L + 1 \in begin + 2..Len(source)
        /\ i - (begin + L) \in 1..Len(source) - index
        /\ begin + L + (i - (begin + L)) = i
        /\ index + (i - (begin + L)) = i - L + 1
    <3> DEFINE l == Len(source)
               k == Len(source')
    <3>1. /\ begin \in Nat /\ L \in Nat /\ l \in Nat /\ index = begin + 1
          /\ k = L + l - 1 /\ i \in begin + L + 1..k
      BY <1>2, <1>3, <1>5, <1>7
    <3> HIDE DEF l, k
    <3>2. /\ i - L + 1 \in begin + 2..l
          /\ i - (begin + L) \in 1..l - index
      BY <3>1
    <3>3. /\ begin + L + (i - (begin + L)) = i
          /\ index + (i - (begin + L)) = i - L + 1
      BY <3>1
    <3>4. QED
      BY <3>2, <3>3 DEF l
  <2>2. QED
    BY <1>4, <2>1
<1>10. QED
  BY <1>2, <1>3, <1>4, <1>5, <1>6, <1>7, <1>8, <1>9 DEF r, L

(* Where the alias is substituted, the invariant is kept: what is known of *)
(* the replacement, and of what comes after it.                            *)
LEMMA BlankSubstitute ==
  ASSUME TypeOK, GoodSource, BlankInv, NEW name \in Name, Substitute(name)
  PROVE  BlankInv'
<1> DEFINE r == ReplacementChars(name, source[begin + 1])
           L == Len(r)
           original == source[begin + 1]
<1>1. /\ name \in DOMAIN aliases /\ ~IsAliasFor(original, name)
      /\ original \in SourceChar /\ original.value = name
      /\ L \in Nat /\ DOMAIN r = 1..L /\ index = begin + 1 /\ begin \in Nat
      /\ Len(source) \in Nat /\ begin < Len(source)
      /\ DOMAIN source = 1..Len(source)
      /\ DOMAIN source' = 1..Len(source')
      /\ Len(source') = L + Len(source) - 1
      /\ \A i \in 1..begin : source'[i] = source[i]
      /\ \A i \in begin + 1..begin + L : i - begin \in 1..L /\ source'[i] = r[i - begin]
      /\ \A i \in begin + L + 1..Len(source') :
           /\ i - L + 1 \in begin + 2..Len(source)
           /\ source'[i] = source[i - L + 1]
  BY WordSpliced
<1>2. pc = "taken" /\ pc' = "next" /\ index' = begin /\ UNCHANGED <<aliases, state, begin>>
  BY DEF Substitute
<1> DEFINE text == aliases[name].replacement
<1>3. Known(original)
  BY <1>1 DEF BlankInv, KnownLocations
<1>4. ASSUME NEW i \in 1..L
      PROVE  /\ Known(r[i]) /\ Innermost(r[i].location).source = name
             /\ r[i].ending = (i = L /\ EndsWithBlank(text))
             /\ r[i].ending => r[i].value = Blank
             /\ \A n : IsAliasFor(r[i], n) <=> n = name \/ IsAliasFor(original, n)
  <2>1. /\ text \in Seq(Char) /\ i \in 1..Len(text) /\ L = Len(text)
        /\ r[i].value = text[i]
        /\ r[i].ending = (i = Len(text) /\ EndsWithBlank(text))
        /\ Innermost(r[i].location).source = name
        /\ \A n : IsAliasFor(r[i], n) <=> n = name \/ IsAliasFor(original, n)
        /\ Known(original) => Known(r[i])
    BY <1>1, ReplacementCharProperties
  <2> HIDE DEF r, text
  <2>2. QED
    BY <1>3, <2>1 DEF EndsWithBlank
<1> HIDE DEF r, L, original, text
<1>5. original.value \in Letter /\ ~original.ending
  <2>1. original.value \in Letter
    BY <1>1, NameAssumption
  <2>2. QED
    BY <1>1, <2>1, CharAssumption DEF BlankInv, EndingAlone, original
<1>6. \A i \in 1..Len(source') :
        i \in 1..begin \/ i \in begin + 1..begin + L \/ i \in begin + L + 1..Len(source')
  BY <1>1
<1>7. WordTaken'
  BY <1>2 DEF WordTaken
<1>8. KnownLocations'
  <2>1. SUFFICES ASSUME NEW k \in 1..Len(source') PROVE Known(source'[k])
    BY <1>1, <1>2 DEF KnownLocations, Known
  <2>2. ASSUME NEW i \in DOMAIN source PROVE Known(source[i])
    BY DEF BlankInv, KnownLocations
  <2>3. CASE k \in 1..begin
    BY <1>1, <2>2, <2>3
  <2>4. CASE k \in begin + 1..begin + L
    BY <1>1, <1>4, <2>4
  <2>5. CASE k \in begin + L + 1..Len(source')
    BY <1>1, <2>2, <2>5
  <2>6. QED
    BY <1>6, <2>3, <2>4, <2>5
<1>9. \A j \in begin + 2..Len(source), n \in Name : IsAliasFor(source[j], n) => IsAliasFor(original, n)
  BY <1>1, <1>2 DEF BlankInv, Nested, Unread, original
<1>10. Nested'
  <2>1. SUFFICES ASSUME NEW i \in 1..Len(source'), NEW j \in 1..Len(source'), begin < i, i < j,
                        NEW n \in Name, IsAliasFor(source'[j], n)
                 PROVE  IsAliasFor(source'[i], n)
    BY <1>1, <1>2 DEF Nested, Unread, IsAliasFor
  <2>2. CASE i \in begin + 1..begin + L /\ j \in begin + 1..begin + L
    BY <1>1, <1>4, <2>1, <2>2
  <2>3. CASE i \in begin + 1..begin + L /\ j \in begin + L + 1..Len(source')
    BY <1>1, <1>4, <1>9, <2>1, <2>3
  <2>4. CASE i \in begin + L + 1..Len(source') /\ j \in begin + L + 1..Len(source')
    <3>1. /\ i - L + 1 \in begin + 2..Len(source) /\ source'[i] = source[i - L + 1]
          /\ j - L + 1 \in begin + 2..Len(source) /\ source'[j] = source[j - L + 1]
          /\ i - L + 1 < j - L + 1 /\ begin < i - L + 1
          /\ i - L + 1 \in DOMAIN source /\ j - L + 1 \in DOMAIN source
      BY <1>1, <2>1, <2>4
    <3>2. QED
      BY <1>2, <2>1, <3>1 DEF BlankInv, Nested, Unread
  <2>5. QED
    BY <1>1, <2>1, <2>2, <2>3, <2>4
<1>11. EndingAlone'
  <2> DEFINE Alone(k) ==
        /\ source'[k].value = Blank
        /\ EndedByBlank(Innermost(source'[k].location).source)
        /\ k = Len(source') => state = "EndOfInput"
        /\ k < Len(source') => /\ source'[k + 1].value \notin Letter
                               /\ ~IsAliasFor(source'[k + 1], Innermost(source'[k].location).source)
  <2>1. SUFFICES ASSUME NEW k \in 1..Len(source'), source'[k].ending PROVE Alone(k)
    BY <1>1, <1>2 DEF EndingAlone, EndedByBlank, SourceOf, IsAliasFor
  <2>2. ASSUME NEW i \in DOMAIN source, source[i].ending
        PROVE  /\ source[i].value = Blank
               /\ EndedByBlank(Innermost(source[i].location).source)
               /\ i = Len(source) => state = "EndOfInput"
               /\ i < Len(source) => /\ source[i + 1].value \notin Letter
                                     /\ ~IsAliasFor(source[i + 1], Innermost(source[i].location).source)
    BY <2>2 DEF BlankInv, EndingAlone, SourceOf
  <2>3. CASE k \in 1..begin
    <3>1. /\ source'[k] = source[k] /\ k \in DOMAIN source /\ k < Len(source)
          /\ source[k + 1].value \notin Letter
      <4>1. source'[k] = source[k] /\ k \in DOMAIN source /\ k < Len(source)
        BY <1>1, <2>3
      <4>2. source[k].ending
        BY <2>1, <4>1
      <4>3. QED
        BY <2>2, <4>1, <4>2
    <3>2. k # begin
      BY <1>5, <3>1 DEF original
    <3>3. k + 1 \in 1..begin /\ k < Len(source') /\ source'[k + 1] = source[k + 1]
      BY <1>1, <2>3, <3>2
    <3>4. QED
      BY <2>1, <2>2, <3>1, <3>3
  <2>4. CASE k \in begin + 1..begin + L
    <3>1. /\ k - begin \in 1..L /\ source'[k] = r[k - begin]
          /\ k - begin = L /\ EndsWithBlank(text) /\ source'[k].value = Blank
          /\ Innermost(source'[k].location).source = name
      <4> DEFINE j == k - begin
      <4>1. j \in 1..L /\ source'[k] = r[j]
        BY <1>1, <2>4
      <4>2. r[j].ending
        BY <2>1, <4>1
      <4> HIDE DEF j
      <4>3. j = L /\ EndsWithBlank(text) /\ r[j].value = Blank /\ Innermost(r[j].location).source = name
        BY <1>4, <4>1, <4>2
      <4>4. QED
        BY <4>1, <4>3 DEF j
    <3>2. k = begin + L
      BY <1>1, <3>1, <2>4
    <3>3. EndedByBlank(name)
      BY <1>1, <3>1 DEF EndedByBlank, text
    <3>4. CASE k = Len(source')
      <4>1. index = Len(source)
        BY <1>1, <3>2, <3>4
      <4>2. QED
        BY <1>2, <3>1, <3>3, <3>4, <4>1 DEF BlankInv, WordTaken
    <3>5. CASE k < Len(source')
      <4>1. /\ source'[k + 1] = source[begin + 2] /\ begin + 2 \in begin + 2..Len(source)
            /\ begin + 2 \in DOMAIN source /\ begin + 2 = index + 1
        BY <1>1, <3>2, <3>5
      <4>2. source[begin + 2].value \notin Letter
        BY <1>2, <4>1 DEF BlankInv, WordTaken, IsLetterAt
      <4>3. ~IsAliasFor(source[begin + 2], name)
        BY <1>1, <1>9, <4>1
      <4>4. QED
        BY <3>1, <3>3, <3>5, <4>1, <4>2, <4>3
    <3>6. QED
      BY <1>1, <3>4, <3>5
  <2>5. CASE k \in begin + L + 1..Len(source')
    <3>1. /\ k - L + 1 \in DOMAIN source /\ source'[k] = source[k - L + 1]
          /\ k = Len(source') <=> k - L + 1 = Len(source)
          /\ k < Len(source') <=> k - L + 1 < Len(source)
      BY <1>1, <2>5
    <3>2. k < Len(source') => source'[k + 1] = source[(k - L + 1) + 1]
      <4>1. SUFFICES ASSUME k < Len(source') PROVE source'[k + 1] = source[(k - L + 1) + 1]
        OBVIOUS
      <4>2. k + 1 \in begin + L + 1..Len(source') /\ (k + 1) - L + 1 = (k - L + 1) + 1
        BY <1>1, <2>5, <4>1
      <4>3. QED
        BY <1>1, <4>2
    <3>3. QED
      BY <2>1, <2>2, <3>1, <3>2
  <2>6. QED
    BY <1>6, <2>3, <2>4, <2>5
<1>12. EndingLast'
  <2> DEFINE After(k, n) ==
        \/ source'[k].ending /\ Innermost(source'[k].location).source = n
        \/ k < Len(source') /\ IsAliasFor(source'[k + 1], n)
  <2>1. SUFFICES ASSUME NEW n \in Name, NEW k \in 1..Len(source'),
                        EndedByBlank(n), IsAliasFor(source'[k], n)
                 PROVE  After(k, n)
    BY <1>1, <1>2 DEF EndingLast, EndedByBlank, SourceOf, IsAliasFor
  <2>2. ASSUME NEW i \in DOMAIN source, IsAliasFor(source[i], n)
        PROVE  \/ source[i].ending /\ Innermost(source[i].location).source = n
               \/ i < Len(source) /\ IsAliasFor(source[i + 1], n)
    BY <2>1, <2>2 DEF BlankInv, EndingLast, SourceOf
  (* What comes after the replacement *)
  <2>3. IsAliasFor(original, n)
          => begin + L < Len(source') /\ IsAliasFor(source'[begin + L + 1], n)
    <3>1. SUFFICES ASSUME IsAliasFor(original, n)
                   PROVE  begin + L < Len(source') /\ IsAliasFor(source'[begin + L + 1], n)
      OBVIOUS
    <3>2. begin + 1 < Len(source) /\ IsAliasFor(source[begin + 2], n)
      <4>1. begin + 1 \in DOMAIN source /\ (begin + 1) + 1 = begin + 2
        BY <1>1
      <4>2. QED
        BY <1>5, <2>2, <3>1, <4>1 DEF original
    <3>3. /\ begin + L + 1 \in begin + L + 1..Len(source')
          /\ (begin + L + 1) - L + 1 = begin + 2
      BY <1>1, <3>2
    <3>4. QED
      BY <1>1, <3>2, <3>3
  <2>4. CASE k \in 1..begin
    <3>1. source'[k] = source[k] /\ k \in DOMAIN source
      BY <1>1, <2>4
    <3>2. CASE source[k].ending /\ Innermost(source[k].location).source = n
      BY <3>1, <3>2
    <3>3. CASE k < Len(source) /\ IsAliasFor(source[k + 1], n) /\ k # begin
      <4>1. k + 1 \in 1..begin /\ k < Len(source')
        BY <1>1, <2>4, <3>3
      <4>2. QED
        BY <1>1, <3>3, <4>1
    <3>4. CASE IsAliasFor(original, n) /\ k = begin
      <4>1. CASE L = 0
        BY <1>1, <2>3, <3>4, <4>1
      <4>2. CASE L # 0
        <5>1. /\ begin + 1 \in begin + 1..begin + L /\ (begin + 1) - begin = 1 /\ 1 \in 1..L
              /\ begin < Len(source')
          BY <1>1, <4>2
        <5>2. source'[begin + 1] = r[1] /\ IsAliasFor(r[1], n)
          BY <1>1, <1>4, <3>4, <5>1
        <5>3. QED
          BY <3>4, <5>1, <5>2
      <4>3. QED
        BY <4>1, <4>2
    <3>5. QED
      BY <2>1, <2>2, <3>1, <3>2, <3>3, <3>4 DEF original
  <2>5. CASE k \in begin + 1..begin + L
    <3>1. /\ k - begin \in 1..L /\ source'[k] = r[k - begin]
          /\ n = name \/ IsAliasFor(original, n)
      BY <1>1, <1>4, <2>1, <2>5
    <3>2. CASE k < begin + L
      <4>1. /\ k + 1 \in begin + 1..begin + L /\ (k + 1) - begin \in 1..L /\ k < Len(source')
        BY <1>1, <2>5, <3>2
      <4>2. source'[k + 1] = r[(k + 1) - begin] /\ IsAliasFor(r[(k + 1) - begin], n)
        BY <1>1, <1>4, <3>1, <4>1
      <4>3. QED
        BY <4>1, <4>2
    <3>3. CASE k = begin + L
      <4>1. CASE n = name
        <5>1. k - begin = L /\ EndsWithBlank(text)
          BY <1>1, <2>1, <3>3, <4>1 DEF EndedByBlank, text
        <5>2. source'[k].ending /\ Innermost(source'[k].location).source = n
          BY <1>4, <3>1, <4>1, <5>1
        <5>3. QED
          BY <5>2
      <4>2. CASE IsAliasFor(original, n)
        BY <2>3, <3>3, <4>2
      <4>3. QED
        BY <3>1, <4>1, <4>2
    <3>4. QED
      BY <1>1, <2>5, <3>2, <3>3
  <2>6. CASE k \in begin + L + 1..Len(source')
    <3>1. /\ k - L + 1 \in DOMAIN source /\ source'[k] = source[k - L + 1]
          /\ k < Len(source') <=> k - L + 1 < Len(source)
      BY <1>1, <2>6
    <3>2. k < Len(source') => source'[k + 1] = source[(k - L + 1) + 1]
      <4>1. SUFFICES ASSUME k < Len(source') PROVE source'[k + 1] = source[(k - L + 1) + 1]
        OBVIOUS
      <4>2. k + 1 \in begin + L + 1..Len(source') /\ (k + 1) - L + 1 = (k - L + 1) + 1
        BY <1>1, <2>6, <4>1
      <4>3. QED
        BY <1>1, <4>2
    <3>3. QED
      BY <2>1, <2>2, <3>1, <3>2
  <2>7. QED
    BY <1>6, <2>4, <2>5, <2>6
<1>13. QED
  BY <1>7, <1>8, <1>10, <1>11, <1>12 DEF BlankInv

LEMMA BlankInit == Init => BlankInv
<1> SUFFICES ASSUME Init PROVE BlankInv
  OBVIOUS
<1>1. source = <<>> /\ DOMAIN source = {} /\ pc = "next"
  BY EmptySeq DEF Init
<1>2. QED
  BY <1>1 DEF BlankInv, WordTaken, Nested, KnownLocations, EndingAlone, EndingLast

(* A line that is read comes after everything: nothing that a replacement  *)
(* has ended is the last in the buffer.                                    *)
LEMMA BlankReadLine ==
  ASSUME TypeOK, BlankInv, ReadLine
  PROVE  BlankInv'
<1> DEFINE n == Len(lines) + 1
<1>1. PICK line \in Line : source' = source \o LineChars(line, n)
  BY DEF ReadLine, NextNumber
<1>2. /\ pc = "next" /\ state = "Alive" /\ UNCHANGED <<aliases, state, index, begin, pc>>
  BY DEF ReadLine
<1> DEFINE t == LineChars(line, n)
           m == Len(source)
<1>3. /\ n \in Nat /\ t \in Seq(GoodChar) /\ Len(t) = Len(line) /\ Len(t) \in Nat
      /\ m \in Nat /\ DOMAIN source = 1..m /\ DOMAIN lines = 1..Len(lines)
  <2>1. n \in Nat
    BY LenProperties DEF TypeOK
  <2>2. QED
    BY <2>1, LineCharsGood, LenProperties DEF TypeOK
<1>4. ASSUME NEW i \in 1..Len(t)
      PROVE  t[i].ending = FALSE /\ Known(t[i]) /\ \A name \in Name : ~IsAliasFor(t[i], name)
  BY <1>3, LineCharProperties
<1> HIDE DEF t, n, m
<1>5. /\ DOMAIN source' = 1..Len(source') /\ Len(source') = m + Len(t)
      /\ \A i \in 1..m : source'[i] = source[i]
      /\ \A i \in m + 1..Len(source') : i - m \in 1..Len(t) /\ source'[i] = t[i - m]
  <2>1. source \in Seq(SourceChar) /\ t \in Seq(SourceChar)
    BY <1>3, SeqMonotonic DEF GoodChar, TypeOK
  <2>2. /\ source' \in Seq(SourceChar)
        /\ Len(source') = m + Len(t)
        /\ \A i \in 1..m : source'[i] = source[i]
        /\ \A i \in 1..Len(t) : source'[m + i] = t[i]
    BY <1>1, <2>1, ConcatParts DEF t, m
  <2>3. ASSUME NEW i \in m + 1..Len(source') PROVE i - m \in 1..Len(t) /\ source'[i] = t[i - m]
    <3>1. i - m \in 1..Len(t) /\ m + (i - m) = i
      BY <1>3, <2>2
    <3>2. QED
      BY <2>2, <3>1
  <2>4. QED
    BY <2>2, <2>3, LenProperties
<1>6. \A i \in 1..Len(source') : i \in 1..m \/ i \in m + 1..Len(source')
  BY <1>3, <1>5
<1>7. WordTaken' /\ DOMAIN aliases' = DOMAIN aliases
  BY <1>2 DEF WordTaken
<1>8. KnownLocations'
  <2>1. SUFFICES ASSUME NEW k \in 1..Len(source') PROVE Known(source'[k])
    BY <1>2, <1>5 DEF KnownLocations, Known
  <2>2. QED
    BY <1>3, <1>4, <1>5, <1>6 DEF BlankInv, KnownLocations
<1>9. Nested'
  <2>1. SUFFICES ASSUME NEW i \in 1..Len(source'), NEW j \in 1..Len(source'), index < i, i < j,
                        NEW name \in Name, IsAliasFor(source'[j], name)
                 PROVE  IsAliasFor(source'[i], name)
    BY <1>2, <1>5 DEF Nested, Unread, IsAliasFor
  <2>2. j \in 1..m
    BY <1>4, <1>5, <1>6, <2>1
  <2>3. i \in 1..m
    BY <1>3, <2>1, <2>2
  <2>4. source'[i] = source[i] /\ source'[j] = source[j]
    BY <1>5, <2>2, <2>3
  <2>5. QED
    BY <1>2, <1>3, <2>1, <2>2, <2>3, <2>4 DEF BlankInv, Nested, Unread
<1>10. EndingAlone'
  <2>1. SUFFICES ASSUME NEW k \in 1..Len(source'), source'[k].ending
                 PROVE  /\ source'[k].value = Blank
                        /\ EndedByBlank(Innermost(source'[k].location).source)
                        /\ k < Len(source')
                        /\ source'[k + 1].value \notin Letter
                        /\ ~IsAliasFor(source'[k + 1], Innermost(source'[k].location).source)
    BY <1>2, <1>5 DEF EndingAlone, EndedByBlank, SourceOf, IsAliasFor
  <2>2. k \in 1..m /\ source'[k] = source[k]
    BY <1>4, <1>5, <1>6, <2>1
  <2>3. /\ source[k].value = Blank
        /\ EndedByBlank(Innermost(source[k].location).source)
        /\ k # m
        /\ k < m => /\ source[k + 1].value \notin Letter
                    /\ ~IsAliasFor(source[k + 1], Innermost(source[k].location).source)
    BY <1>2, <1>3, <2>1, <2>2 DEF BlankInv, EndingAlone, SourceOf, m
  <2>4. k < m /\ k + 1 \in 1..m /\ k < Len(source')
    BY <1>3, <1>5, <2>2, <2>3
  <2>5. source'[k + 1] = source[k + 1]
    BY <1>5, <2>4
  <2>6. QED
    BY <2>2, <2>3, <2>4, <2>5
<1>11. EndingLast'
  <2>1. SUFFICES ASSUME NEW name \in Name, NEW k \in 1..Len(source'),
                        EndedByBlank(name), IsAliasFor(source'[k], name)
                 PROVE  \/ source'[k].ending /\ Innermost(source'[k].location).source = name
                        \/ k < Len(source') /\ IsAliasFor(source'[k + 1], name)
    BY <1>2, <1>5 DEF EndingLast, EndedByBlank, SourceOf, IsAliasFor
  <2>2. k \in 1..m /\ source'[k] = source[k]
    BY <1>4, <1>5, <1>6, <2>1
  <2>3. \/ source[k].ending /\ Innermost(source[k].location).source = name
        \/ k < m /\ IsAliasFor(source[k + 1], name)
    BY <1>3, <2>1, <2>2 DEF BlankInv, EndingLast, SourceOf, m
  <2>4. k < m => k < Len(source') /\ k + 1 \in 1..m /\ source'[k + 1] = source[k + 1]
    BY <1>3, <1>5, <2>2
  <2>5. QED
    BY <2>2, <2>3, <2>4
<1>12. QED
  BY <1>7, <1>8, <1>9, <1>10, <1>11 DEF BlankInv

LEMMA BlankStep == TypeOK /\ GoodSource /\ BlankInv /\ [Next]_vars => BlankInv'
<1> SUFFICES ASSUME TypeOK, GoodSource, BlankInv, [Next]_vars PROVE BlankInv'
  OBVIOUS
<1>1. CASE ReadLine
  BY <1>1, BlankReadLine
<1>2. ASSUME NEW name \in Name, Substitute(name) PROVE BlankInv'
  BY <1>2, BlankSubstitute
<1>3. ASSUME source' = source, aliases' = aliases, state = "EndOfInput" => state' = "EndOfInput"
      PROVE  KnownLocations' /\ EndingAlone' /\ EndingLast'
  <2>1. KnownLocations' /\ EndingLast'
    BY <1>3 DEF BlankInv, KnownLocations, Known, EndingLast, EndedByBlank, SourceOf, IsAliasFor
  <2>2. EndingAlone'
    BY <1>3 DEF BlankInv, EndingAlone, EndedByBlank, SourceOf, IsAliasFor
  <2>3. QED
    BY <2>1, <2>2
<1>4. /\ index \in Nat /\ begin \in Nat /\ begin <= index /\ Len(source) \in Nat
      /\ DOMAIN source = 1..Len(source)
  BY LenProperties DEF TypeOK
<1>5. ASSUME source' = source, Unread' \in Nat, Unread <= Unread' PROVE Nested'
  <2>1. SUFFICES ASSUME NEW i \in DOMAIN source, NEW j \in DOMAIN source, Unread' < i, i < j,
                        NEW n \in Name, IsAliasFor(source[j], n)
                 PROVE  IsAliasFor(source[i], n)
    BY <1>5 DEF Nested, IsAliasFor
  <2>2. Unread \in Nat /\ i \in Nat
    BY <1>4 DEF Unread
  <2>3. Unread < i
    BY <1>5, <2>1, <2>2
  <2>4. QED
    BY <2>1, <2>3 DEF BlankInv, Nested
<1>6. CASE ReadEnd \/ ReadError \/ Fail \/ EndOfInput \/ SkipBlank \/ ReadNewline
  <2>1. /\ source' = source /\ aliases' = aliases /\ pc = "next" /\ pc' # "taken"
        /\ state = "EndOfInput" => state' = "EndOfInput"
        /\ index' = index \/ index' = index + 1
    BY <1>6 DEF ReadEnd, ReadError, Fail, EndOfInput, SkipBlank, ReadNewline
  <2>0. index' \in Nat /\ index <= index'
    BY <1>4, <2>1
  <2>2. Unread = index /\ Unread' = index' /\ WordTaken'
    BY <2>1 DEF Unread, WordTaken
  <2>3. QED
    BY <1>3, <1>5, <2>0, <2>1, <2>2 DEF BlankInv
<1>7. CASE ReadWord
  <2>1. /\ source' = source /\ aliases' = aliases /\ state' = state
        /\ pc = "next" /\ pc' = "taken" /\ begin' = index
        /\ IsLetterAt(index + 1)
        /\ NeedsInput => state = "EndOfInput"
        /\ IsWordEnd(index, index')
    BY <1>7 DEF ReadWord
  <2>2. Unread = index /\ Unread' = index
    BY <2>1 DEF Unread
  <2>3. ~IsLetterAt(index' + 1) /\ (index' = Len(source) => state = "EndOfInput")
    BY <2>1 DEF IsWordEnd, NeedsInput
  <2>4. WordTaken'
    BY <2>1, <2>3 DEF WordTaken, IsLetterAt
  <2>5. QED
    BY <1>3, <1>4, <1>5, <2>1, <2>2, <2>4 DEF BlankInv
<1>8. CASE Accept
  <2>1. /\ UNCHANGED <<aliases, state, source, index>>
        /\ pc = "taken" /\ pc' = "next"
    BY <1>8 DEF Accept
  <2>2. Unread = begin /\ Unread' = index /\ WordTaken'
    BY <2>1 DEF Unread, WordTaken
  <2>3. QED
    BY <1>3, <1>4, <1>5, <2>1, <2>2 DEF BlankInv
<1>9. CASE UNCHANGED vars
  <2>1. UNCHANGED <<aliases, state, source, index, begin, pc>>
    BY <1>9 DEF vars
  <2>2. WordTaken' /\ Unread' = Unread
    BY <2>1 DEF BlankInv, WordTaken, Unread, IsLetterAt
  <2>3. QED
    BY <1>3, <1>4, <1>5, <2>1, <2>2 DEF BlankInv, Unread
<1>10. QED
  BY <1>1, <1>2, <1>6, <1>7, <1>8, <1>9 DEF Next

(* However aliases refer to each other, the lexer finds exactly the words  *)
(* that follow the blank a replacement ends with.                          *)
THEOREM BlankRuleIsExact == Spec => []BlankRuleExact
<1>1. Spec => [](TypeOK /\ GoodSource)
  BY GoodInit, GoodStep, PTL DEF Spec
<1>2. Spec => []BlankInv
  BY <1>1, BlankInit, BlankStep, PTL DEF Spec
<1>3. QED
  BY <1>1, <1>2, BlankInvSuffices, PTL

-----------------------------------------------------------------------------
(* Locations.                                                              *)

(* Within a text, what comes first is in an earlier line, or before in the *)
(* same one.                                                               *)
LEMMA PlaceInOrder ==
  ASSUME NEW text \in Seq(Char), NEW i \in DOMAIN text, NEW j \in DOMAIN text, i < j, NEW src
  PROVE  LET p == PlaceIn(src, text, i)
             q == PlaceIn(src, text, j)
         IN p.number < q.number \/ (p.number = q.number /\ p.column < q.column)
<1> DEFINE A == {k \in 1..i - 1 : text[k] = Newline}
           B == {k \in 1..j - 1 : text[k] = Newline}
           b == LineBegin(text, i)
           c == LineBegin(text, j)
<1>1. Len(text) \in Nat /\ DOMAIN text = 1..Len(text) /\ i \in Nat \ {0} /\ j \in Nat \ {0}
  BY LenProperties
<1>2. A \subseteq B
  BY <1>1
<1>3. IsFiniteSet(B)
  <2>1. j - 1 \in Int /\ 1 \in Int
    BY <1>1
  <2>2. IsFiniteSet(1..j - 1)
    BY <2>1, FS_Interval
  <2>3. QED
    BY <2>2, FS_Subset
<1>4. /\ IsFiniteSet(A) /\ Cardinality(A) <= Cardinality(B)
      /\ Cardinality(A) = Cardinality(B) => A = B
  BY <1>2, <1>3, FS_Subset
<1>5. Cardinality(A) \in Nat /\ Cardinality(B) \in Nat
  BY <1>3, <1>4, FS_CardinalityType
<1>6. /\ b \in 0..i - 1 /\ (b = 0 \/ text[b] = Newline) /\ \A k \in b + 1..i - 1 : text[k] # Newline
      /\ c \in 0..j - 1 /\ (c = 0 \/ text[c] = Newline) /\ \A k \in c + 1..j - 1 : text[k] # Newline
  BY <1>1, LineBeginExists DEF IsLineBegin
<1>7. LineNumber(text, i) = Cardinality(A) + 1 /\ LineNumber(text, j) = Cardinality(B) + 1
  BY DEF LineNumber
<1>8. ASSUME A = B PROVE i - b < j - c
  <2>1. \A k \in i..j - 1 : text[k] # Newline
    <3>1. ASSUME NEW k \in i..j - 1, text[k] = Newline PROVE FALSE
      <4>1. k \in B /\ k \notin A
        BY <1>1, <3>1
      <4>2. QED
        BY <1>8, <4>1
    <3>2. QED
      BY <3>1
  <2> HIDE DEF A, B, b, c
  <2>2. c <= b
    <3>1. SUFFICES ASSUME b < c PROVE FALSE
      BY <1>1, <1>6
    <3>2. text[c] = Newline /\ c \in b + 1..j - 1
      BY <1>1, <1>6, <3>1
    <3>3. c \in b + 1..i - 1 \/ c \in i..j - 1
      BY <1>1, <1>6, <3>2
    <3>4. QED
      BY <1>6, <2>1, <3>2, <3>3
  <2>3. b <= c
    <3>1. SUFFICES ASSUME c < b PROVE FALSE
      BY <1>1, <1>6
    <3>2. text[b] = Newline /\ b \in c + 1..j - 1
      BY <1>1, <1>6, <3>1
    <3>3. QED
      BY <1>6, <3>2
  <2>4. QED
    BY <1>1, <1>6, <2>2, <2>3
<1> HIDE DEF A, B
<1>9. /\ PlaceIn(src, text, i).number = LineNumber(text, i)
      /\ PlaceIn(src, text, j).number = LineNumber(text, j)
      /\ PlaceIn(src, text, i).column = i - b
      /\ PlaceIn(src, text, j).column = j - c
  BY DEF PlaceIn
<1> HIDE DEF b, c
<1>10. CASE A = B
  BY <1>5, <1>7, <1>8, <1>9, <1>10
<1>11. CASE A # B
  BY <1>4, <1>5, <1>7, <1>9, <1>11
<1>12. QED
  BY <1>10, <1>11

(* Precedence is decided where two locations differ first, so that it      *)
(* stays when either of them grows.                                        *)
LEMMA PrecedesLonger ==
  ASSUME NEW l \in Seq(Place), NEW m \in Seq(Place), NEW p \in Place, Precedes(l, m)
  PROVE  Precedes(Append(l, p), m) /\ Precedes(l, Append(m, p))
<1>1. /\ Len(l) \in Nat /\ DOMAIN l = 1..Len(l)
      /\ DOMAIN Append(l, p) = 1..Len(l) + 1
      /\ \A i \in 1..Len(l) : Append(l, p)[i] = l[i]
  BY AppendProperties, LenProperties
<1>2. /\ Len(m) \in Nat /\ DOMAIN m = 1..Len(m)
      /\ DOMAIN Append(m, p) = 1..Len(m) + 1
      /\ \A i \in 1..Len(m) : Append(m, p)[i] = m[i]
  BY AppendProperties, LenProperties
<1> DEFINE a == Append(l, p)
           b == Append(m, p)
<1> HIDE DEF a, b
<1>3. PICK k \in DOMAIN l \cap DOMAIN m :
        /\ \A j \in 1..k - 1 : l[j] = m[j]
        /\ l[k].source = m[k].source
        /\ \/ l[k].number < m[k].number
           \/ l[k].number = m[k].number /\ l[k].column < m[k].column
  BY DEF Precedes
<1>4. /\ k \in 1..Len(l) /\ k \in 1..Len(m)
      /\ \A j \in 1..k - 1 : j \in 1..Len(l) /\ j \in 1..Len(m)
  BY <1>1, <1>2
<1>5. /\ k \in DOMAIN a \cap DOMAIN m /\ a[k] = l[k] /\ \A j \in 1..k - 1 : a[j] = l[j]
      /\ k \in DOMAIN l \cap DOMAIN b /\ b[k] = m[k] /\ \A j \in 1..k - 1 : b[j] = m[j]
  BY <1>1, <1>2, <1>4 DEF a, b
<1>6. Precedes(a, m)
  BY <1>3, <1>5 DEF Precedes
<1>7. Precedes(l, b)
  BY <1>3, <1>5 DEF Precedes
<1>8. QED
  BY <1>6, <1>7 DEF a, b

LEMMA PrecedesWithin ==
  ASSUME NEW l \in Seq(Place), NEW p \in Place, NEW q \in Place, p.source = q.source,
         p.number < q.number \/ (p.number = q.number /\ p.column < q.column)
  PROVE  Precedes(Append(l, p), Append(l, q))
<1>1. /\ Len(l) \in Nat
      /\ DOMAIN Append(l, p) = 1..Len(l) + 1 /\ Append(l, p)[Len(l) + 1] = p
      /\ \A i \in 1..Len(l) : Append(l, p)[i] = l[i]
  BY AppendProperties, LenProperties
<1>2. /\ DOMAIN Append(l, q) = 1..Len(l) + 1 /\ Append(l, q)[Len(l) + 1] = q
      /\ \A i \in 1..Len(l) : Append(l, q)[i] = l[i]
  BY AppendProperties, LenProperties
<1> DEFINE a == Append(l, p)
           b == Append(l, q)
           k == Len(l) + 1
<1> HIDE DEF a, b
<1>3. /\ k \in DOMAIN a \cap DOMAIN b /\ \A j \in 1..k - 1 : a[j] = b[j]
      /\ a[k] = p /\ b[k] = q
  BY <1>1, <1>2 DEF a, b
<1> HIDE DEF k
<1>4. Precedes(a, b)
  BY <1>3 DEF Precedes
<1>5. QED
  BY <1>4 DEF a, b

(* As long as there may be more input, the buffer ends with the last       *)
(* character of the last line: no alias has been substituted there.        *)
LastOfLine == [source |-> Input, line |-> lines[Len(lines)], number |-> Len(lines),
               column |-> Len(lines[Len(lines)])]
EndsWithLine ==
  state = "Alive" =>
    /\ lines = <<>> => source = <<>>
    /\ lines # <<>> => source # <<>> /\ source[Len(source)].location = <<LastOfLine>>

(* Placed, for characters that some lines have given                       *)
PlacedIn(c, ls) == LET l == c.location
                   IN /\ l # <<>> /\ l[1].source = Input
                      /\ l[1].number \in DOMAIN ls /\ l[1].line = ls[l[1].number]
                      /\ Shows(Innermost(l), c.value)
                      /\ \A k \in 1..Len(l) - 1 : Shows(l[k], l[k + 1].source)
AllPlaced == \A i \in DOMAIN source : PlacedIn(source[i], lines)
LocationInv == AllPlaced /\ InOrder /\ EndPlaced /\ EndsWithLine

LEMMA LocationInit == Init => LocationInv
<1> SUFFICES ASSUME Init PROVE LocationInv
  OBVIOUS
<1>1. source = <<>> /\ DOMAIN source = {} /\ state = "Alive" /\ lines = <<>>
  BY EmptySeq DEF Init
<1>2. QED
  BY <1>1 DEF LocationInv, AllPlaced, InOrder, EndPlaced, EndsWithLine

LEMMA LocationReadLine ==
  ASSUME TypeOK, GoodSource, LocationInv, ReadLine
  PROVE  LocationInv'
<1> DEFINE n == Len(lines) + 1
           m == Len(source)
<1>1. PICK line \in Line : /\ source' = source \o LineChars(line, n)
                          /\ lines' = Append(lines, line)
  BY DEF ReadLine, NextNumber
<1> DEFINE t == LineChars(line, n)
           place(i) == [source |-> Input, line |-> line, number |-> n, column |-> i]
<1>2. state = "Alive" /\ state' = "Alive"
  BY DEF ReadLine
<1>3. /\ n \in Nat /\ n # 0 /\ t \in Seq(GoodChar) /\ Len(t) = Len(line) /\ Len(t) \in Nat
      /\ m \in Nat /\ DOMAIN source = 1..m /\ DOMAIN lines = 1..Len(lines) /\ Len(lines) \in Nat
      /\ line \in Seq(Char) /\ Len(line) # 0 /\ DOMAIN line = 1..Len(line)
  <2>1. n \in Nat /\ n # 0 /\ Len(lines) \in Nat
    BY LenProperties DEF TypeOK
  <2>2. line \in Seq(Char) /\ Len(line) # 0
    BY LineAssumption, EmptySeq
  <2>3. QED
    BY <2>1, <2>2, LineCharsGood, LenProperties DEF TypeOK
<1>4. ASSUME NEW i \in 1..Len(t)
      PROVE  t[i].location = <<place(i)>> /\ t[i].value = line[i]
  BY <1>3, LineCharProperties
<1>5. /\ DOMAIN lines' = 1..n /\ Len(lines') = n /\ lines'[n] = line /\ lines' # <<>>
      /\ \A i \in 1..Len(lines) : i \in 1..n /\ lines'[i] = lines[i]
  BY <1>1, <1>3, AppendProperties, LenProperties, EmptySeq DEF TypeOK
<1> HIDE DEF t, m
<1>6. /\ DOMAIN source' = 1..Len(source') /\ Len(source') = m + Len(t)
      /\ \A i \in 1..m : source'[i] = source[i]
      /\ \A i \in m + 1..Len(source') : i - m \in 1..Len(t) /\ source'[i] = t[i - m]
      /\ source' \in Seq(SourceChar)
  <2>1. source \in Seq(SourceChar) /\ t \in Seq(SourceChar)
    BY <1>3, SeqMonotonic DEF GoodChar, TypeOK
  <2>2. /\ source' \in Seq(SourceChar)
        /\ Len(source') = m + Len(t)
        /\ \A i \in 1..m : source'[i] = source[i]
        /\ \A i \in 1..Len(t) : source'[m + i] = t[i]
    BY <1>1, <2>1, ConcatParts DEF t, m
  <2>3. ASSUME NEW i \in m + 1..Len(source') PROVE i - m \in 1..Len(t) /\ source'[i] = t[i - m]
    <3>1. i - m \in 1..Len(t) /\ m + (i - m) = i
      BY <1>3, <2>2
    <3>2. QED
      BY <2>2, <3>1
  <2>4. QED
    BY <2>2, <2>3, LenProperties
<1> HIDE DEF n
<1>7. \A i \in 1..Len(source') : i \in 1..m \/ i \in m + 1..Len(source')
  BY <1>3, <1>6
<1>8. ASSUME NEW i \in 1..m
      PROVE  /\ source[i].location \in Seq(Place) /\ source[i].location # <<>>
             /\ source[i].location[1].source = Input
             /\ source[i].location[1].number \in 1..Len(lines)
             /\ 1 \in DOMAIN source[i].location
  <2>1. source[i] \in SourceChar
    BY <1>3, ElementOfSeq DEF TypeOK, m
  <2>2. source[i].location \in Seq(Place)
    BY <2>1 DEF SourceChar, Location
  <2>3. PlacedIn(source[i], lines)
    BY <1>3 DEF LocationInv, AllPlaced
  <2>4. QED
    BY <1>3, <2>2, <2>3, EmptySeq, LenProperties DEF PlacedIn
<1>9. AllPlaced'
  <2>1. SUFFICES ASSUME NEW k \in 1..Len(source') PROVE PlacedIn(source'[k], lines')
    BY <1>6 DEF AllPlaced
  <2>2. CASE k \in 1..m
    <3>1. source'[k] = source[k] /\ PlacedIn(source[k], lines)
      BY <1>3, <1>6, <2>2 DEF LocationInv, AllPlaced
    <3>2. QED
      BY <1>3, <1>5, <3>1 DEF PlacedIn
  <2>3. CASE k \in m + 1..Len(source')
    <3>1. /\ k - m \in 1..Len(t) /\ source'[k].location = <<place(k - m)>>
          /\ source'[k].value = line[k - m]
      BY <1>4, <1>6, <2>3
    <3> DEFINE p == place(k - m)
    <3>2. p.source = Input /\ p.line = line /\ p.number = n /\ p.column = k - m
      OBVIOUS
    <3> HIDE DEF p
    <3>3. source'[k].location = <<p>>
      BY <3>1 DEF p
    <3>4. n \in 1..n /\ lines'[n] = line
      BY <1>3, <1>5
    <3>5. Shows(p, source'[k].value)
      BY <1>3, <3>1, <3>2 DEF Shows
    <3>6. Len(<<p>>) = 1 /\ <<p>>[1] = p /\ <<p>> # <<>>
      OBVIOUS
    <3>7. 1..Len(<<p>>) - 1 = {}
      BY <3>6
    <3>8. QED
      BY <1>5, <3>2, <3>3, <3>4, <3>5, <3>6, <3>7 DEF PlacedIn, Innermost
  <2>4. QED
    BY <1>7, <2>2, <2>3
<1>10. InOrder'
  <2>1. SUFFICES ASSUME NEW i \in 1..Len(source'), NEW j \in 1..Len(source'), i < j
                 PROVE  Precedes(source'[i].location, source'[j].location)
    BY <1>6 DEF InOrder, Precedes
  <2>2. CASE j \in 1..m
    <3>1. i \in 1..m
      BY <1>3, <2>1, <2>2
    <3>2. QED
      BY <1>3, <1>6, <2>1, <2>2, <3>1 DEF LocationInv, InOrder
  <2>3. CASE j \in m + 1..Len(source')
    <3> DEFINE q == place(j - m)
    <3>1. j - m \in 1..Len(t) /\ source'[j].location = <<q>>
      BY <1>4, <1>6, <2>3
    <3>2. q.source = Input /\ q.number = n /\ q.column = j - m
      OBVIOUS
    <3> HIDE DEF q
    <3>3. CASE i \in 1..m
      <4> DEFINE l == source[i].location
      <4>1. /\ source'[i].location = l /\ 1 \in DOMAIN l /\ l[1].source = Input
            /\ l[1].number < n
        BY <1>3, <1>6, <1>8, <3>3 DEF n
      <4> HIDE DEF l
      <4>2. Precedes(l, <<q>>)
        <5>1. 1 \in DOMAIN l \cap DOMAIN <<q>> /\ 1..1 - 1 = {} /\ <<q>>[1] = q
          BY <4>1
        <5>2. QED
          BY <3>2, <4>1, <5>1 DEF Precedes
      <4>3. QED
        BY <3>1, <4>1, <4>2
    <3>4. CASE i \in m + 1..Len(source')
      <4> DEFINE p == place(i - m)
      <4>1. i - m \in 1..Len(t) /\ source'[i].location = <<p>>
        BY <1>4, <1>6, <3>4
      <4>2. p.source = Input /\ p.number = n /\ p.column = i - m
        OBVIOUS
      <4> HIDE DEF p
      <4>3. p.column < q.column
        BY <1>3, <2>1, <3>2, <4>2
      <4>4. Precedes(<<p>>, <<q>>)
        <5>1. 1 \in DOMAIN <<p>> \cap DOMAIN <<q>> /\ 1..1 - 1 = {} /\ <<p>>[1] = p /\ <<q>>[1] = q
          OBVIOUS
        <5>2. QED
          BY <3>2, <4>2, <4>3, <5>1 DEF Precedes
      <4>5. QED
        BY <3>1, <4>1, <4>4
    <3>5. QED
      BY <1>7, <3>3, <3>4
  <2>4. QED
    BY <1>7, <2>2, <2>3
<1>11. EndPlaced'
  BY <1>2 DEF EndPlaced
<1>12. EndsWithLine'
  <2> DEFINE k == Len(source')
  <2>1. k \in m + 1..Len(source') /\ k - m = Len(line) /\ source' # <<>>
    BY <1>3, <1>6, EmptySeq
  <2>2. source'[k].location = <<place(Len(line))>>
    BY <1>4, <1>6, <2>1
  <2>3. LastOfLine' = place(Len(line))
    BY <1>5 DEF LastOfLine
  <2>4. QED
    BY <1>5, <2>1, <2>2, <2>3 DEF EndsWithLine
<1>13. QED
  BY <1>9, <1>10, <1>11, <1>12 DEF LocationInv

LEMMA LocationReadEnd ==
  ASSUME TypeOK, LocationInv, ReadEnd
  PROVE  LocationInv'
<1>1. /\ state = "Alive" /\ state' = "EndOfInput" /\ UNCHANGED <<source, lines>>
      /\ eof' = IF source = <<>>
                THEN <<[source |-> Input, line |-> <<>>, number |-> Len(lines) + 1, column |-> 1]>>
                ELSE Advance(source[Len(source)].location)
  BY DEF ReadEnd, NextNumber
<1>2. AllPlaced'
  BY <1>1 DEF LocationInv, AllPlaced, PlacedIn
<1>3. InOrder' /\ EndsWithLine'
  BY <1>1 DEF LocationInv, InOrder, Precedes, EndsWithLine
<1>4. EndPlaced'
  <2>1. CASE lines = <<>>
    <3>1. source = <<>> /\ Len(lines) = 0
      BY <1>1, <2>1, EmptySeq DEF LocationInv, EndsWithLine
    <3>2. QED
      BY <1>1, <3>1 DEF EndPlaced
  <2>2. CASE lines # <<>>
    <3>1. source # <<>> /\ source[Len(source)].location = <<LastOfLine>> /\ Len(lines) # 0
      BY <1>1, <2>2, EmptySeq DEF LocationInv, EndsWithLine, TypeOK
    <3> DEFINE after == [source |-> Input, line |-> lines[Len(lines)], number |-> Len(lines),
                         column |-> Len(lines[Len(lines)]) + 1]
    <3>2. Advance(<<LastOfLine>>) = <<after>>
      <4>1. Len(<<LastOfLine>>) = 1 /\ <<LastOfLine>>[1] = LastOfLine
        OBVIOUS
      <4>2. [<<LastOfLine>> EXCEPT ![1].column = @ + 1] = <<[LastOfLine EXCEPT !.column = @ + 1]>>
        OBVIOUS
      <4>3. [LastOfLine EXCEPT !.column = @ + 1] = after
        BY DEF LastOfLine
      <4>4. QED
        BY <4>1, <4>2, <4>3 DEF Advance
    <3>3. eof' = <<after>>
      BY <1>1, <3>1, <3>2
    <3>4. QED
      BY <1>1, <3>1, <3>3 DEF EndPlaced
  <2>3. QED
    BY <2>1, <2>2
<1>5. QED
  BY <1>2, <1>3, <1>4 DEF LocationInv

LEMMA LocationSubstitute ==
  ASSUME TypeOK, GoodSource, WordTaken, LocationInv, NEW name \in Name, Substitute(name)
  PROVE  LocationInv'
<1> DEFINE r == ReplacementChars(name, source[begin + 1])
           L == Len(r)
           original == source[begin + 1]
           text == aliases[name].replacement
           place(i) == PlaceIn(name, text, i)
<1>1. /\ name \in DOMAIN aliases
      /\ original \in SourceChar /\ original.value = name
      /\ L \in Nat /\ DOMAIN r = 1..L /\ index = begin + 1 /\ begin \in Nat
      /\ Len(source) \in Nat /\ begin < Len(source)
      /\ DOMAIN source = 1..Len(source)
      /\ DOMAIN source' = 1..Len(source')
      /\ Len(source') = L + Len(source) - 1
      /\ \A i \in 1..begin : source'[i] = source[i]
      /\ \A i \in begin + 1..begin + L : i - begin \in 1..L /\ source'[i] = r[i - begin]
      /\ \A i \in begin + L + 1..Len(source') :
           /\ i - L + 1 \in begin + 2..Len(source)
           /\ source'[i] = source[i - L + 1]
  BY WordSpliced
<1>2. pc = "taken" /\ UNCHANGED <<lines, state, eof>>
  BY DEF Substitute
<1>3. ASSUME NEW i \in 1..L
      PROVE  /\ r[i].value = text[i] /\ r[i].location = Append(original.location, place(i))
             /\ i \in DOMAIN text /\ text \in Seq(Char)
             /\ place(i) \in Place /\ place(i).source = name /\ Shows(place(i), text[i])
  <2>1. /\ text \in Seq(Char) /\ i \in 1..Len(text)
        /\ r[i].value = text[i]
        /\ r[i].location = Append(original.location, place(i))
    BY <1>1, ReplacementCharProperties
  <2>2. i \in DOMAIN text
    BY <2>1, LenProperties
  <2> HIDE DEF r, text
  <2>3. place(i) \in Place /\ Shows(place(i), text[i])
    BY <2>1, <2>2, PlaceInProperties
  <2>4. place(i).source = name
    BY DEF PlaceIn
  <2>5. QED
    BY <2>1, <2>2, <2>3, <2>4
<1> DEFINE l == original.location
<1>4. /\ l \in Seq(Place) /\ PlacedIn(original, lines) /\ Shows(Innermost(l), name)
      /\ Len(l) \in Nat /\ Len(l) # 0
      /\ \A k \in 1..Len(l) - 1 : Shows(l[k], l[k + 1].source)
      /\ l[1].source = Input /\ l[1].number \in DOMAIN lines /\ l[1].line = lines[l[1].number]
  <2>1. l \in Seq(Place)
    BY <1>1 DEF SourceChar, Location
  <2>2. PlacedIn(original, lines)
    BY <1>1 DEF LocationInv, AllPlaced
  <2>3. QED
    BY <1>1, <2>1, <2>2, LenProperties, EmptySeq DEF PlacedIn
<1>5. ASSUME NEW i \in 1..Len(source)
      PROVE  source[i].location \in Seq(Place) /\ PlacedIn(source[i], lines)
  <2>1. source[i] \in SourceChar
    BY <1>1, ElementOfSeq DEF TypeOK
  <2>2. QED
    BY <1>1, <2>1 DEF SourceChar, Location, LocationInv, AllPlaced
<1>6. ASSUME NEW i \in 1..Len(source), NEW j \in 1..Len(source), i < j
      PROVE  Precedes(source[i].location, source[j].location)
  BY <1>1, <1>6 DEF LocationInv, InOrder
<1> HIDE DEF r, L, text, place
<1>7. ASSUME NEW i \in 1..L PROVE PlacedIn(r[i], lines)
  <2> DEFINE m == r[i].location
             p == place(i)
  <2>1. p \in Place /\ p.source = name /\ Shows(p, r[i].value) /\ m = Append(l, p)
    BY <1>3
  <2> HIDE DEF p, m
  <2>2. /\ m \in Seq(Place) /\ Len(m) = Len(l) + 1 /\ m[Len(l) + 1] = p
        /\ \A k \in 1..Len(l) : m[k] = l[k]
    BY <1>4, <2>1, AppendProperties
  <2>3. m # <<>> /\ Innermost(m) = p /\ m[1] = l[1]
    BY <1>4, <2>2, EmptySeq DEF Innermost
  <2>4. ASSUME NEW k \in 1..Len(m) - 1 PROVE Shows(m[k], m[k + 1].source)
    <3>1. k \in 1..Len(l) /\ m[k] = l[k]
      BY <1>4, <2>2
    <3>2. CASE k = Len(l)
      BY <1>4, <2>1, <2>2, <3>1, <3>2 DEF Innermost
    <3>3. CASE k # Len(l)
      <4>1. k \in 1..Len(l) - 1 /\ k + 1 \in 1..Len(l)
        BY <1>4, <3>1, <3>3
      <4>2. QED
        BY <1>4, <2>2, <3>1, <4>1
    <3>4. QED
      BY <3>2, <3>3
  <2>5. QED
    BY <1>4, <2>1, <2>3, <2>4 DEF PlacedIn, m
<1>8. \A i \in 1..Len(source') :
        i \in 1..begin \/ i \in begin + 1..begin + L \/ i \in begin + L + 1..Len(source')
  BY <1>1
<1>9. AllPlaced'
  <2>1. SUFFICES ASSUME NEW k \in 1..Len(source') PROVE PlacedIn(source'[k], lines)
    BY <1>1, <1>2 DEF AllPlaced
  <2>2. CASE k \in 1..begin
    BY <1>1, <1>5, <2>2
  <2>3. CASE k \in begin + 1..begin + L
    BY <1>1, <1>7, <2>3
  <2>4. CASE k \in begin + L + 1..Len(source')
    <3>1. source'[k] = source[k - L + 1] /\ k - L + 1 \in 1..Len(source)
      BY <1>1, <2>4
    <3>2. QED
      BY <1>5, <3>1
  <2>5. QED
    BY <1>8, <2>2, <2>3, <2>4
<1>10. InOrder'
  <2>1. SUFFICES ASSUME NEW i \in 1..Len(source'), NEW j \in 1..Len(source'), i < j
                 PROVE  Precedes(source'[i].location, source'[j].location)
    BY <1>1 DEF InOrder, Precedes
  <2>2. \A k \in 1..begin : k \in 1..Len(source) /\ k < begin + 1 /\ begin + 1 \in 1..Len(source)
    BY <1>1
  <2>3. \A k \in begin + L + 1..Len(source') :
          k - L + 1 \in 1..Len(source) /\ begin + 1 < k - L + 1 /\ begin + 1 \in 1..Len(source)
    BY <1>1
  <2>4. CASE i \in 1..begin /\ j \in 1..begin
    BY <1>1, <1>6, <2>1, <2>2, <2>4
  <2>5. CASE i \in 1..begin /\ j \in begin + 1..begin + L
    <3>1. /\ source'[i] = source[i] /\ source[i].location \in Seq(Place)
          /\ Precedes(source[i].location, l)
      BY <1>1, <1>5, <1>6, <2>2, <2>5
    <3>2. /\ source'[j] = r[j - begin] /\ r[j - begin].location = Append(l, place(j - begin))
          /\ place(j - begin) \in Place
      BY <1>1, <1>3, <2>5
    <3>3. QED
      BY <1>4, <3>1, <3>2, PrecedesLonger
  <2>6. CASE i \in 1..begin /\ j \in begin + L + 1..Len(source')
    <3>1. /\ source'[i] = source[i] /\ source'[j] = source[j - L + 1]
          /\ i \in 1..Len(source) /\ j - L + 1 \in 1..Len(source) /\ i < j - L + 1
      BY <1>1, <2>2, <2>3, <2>6
    <3>2. QED
      BY <1>6, <3>1
  <2>7. CASE i \in begin + 1..begin + L /\ j \in begin + 1..begin + L
    <3> DEFINE a == i - begin
               b == j - begin
    <3>1. /\ a \in 1..L /\ b \in 1..L /\ a < b
          /\ source'[i] = r[a] /\ source'[j] = r[b]
      BY <1>1, <2>1, <2>7
    <3> HIDE DEF a, b
    <3>2. /\ r[a].location = Append(l, place(a)) /\ r[b].location = Append(l, place(b))
          /\ place(a) \in Place /\ place(b) \in Place /\ place(a).source = place(b).source
          /\ a \in DOMAIN text /\ b \in DOMAIN text /\ text \in Seq(Char)
      BY <1>3, <3>1
    <3>3. \/ place(a).number < place(b).number
          \/ place(a).number = place(b).number /\ place(a).column < place(b).column
      BY <3>1, <3>2, PlaceInOrder DEF place
    <3>4. QED
      BY <1>4, <3>1, <3>2, <3>3, PrecedesWithin
  <2>8. CASE i \in begin + 1..begin + L /\ j \in begin + L + 1..Len(source')
    <3>1. /\ source'[j] = source[j - L + 1] /\ source[j - L + 1].location \in Seq(Place)
          /\ Precedes(l, source[j - L + 1].location)
      BY <1>1, <1>5, <1>6, <2>3, <2>8
    <3>2. /\ source'[i] = r[i - begin] /\ r[i - begin].location = Append(l, place(i - begin))
          /\ place(i - begin) \in Place
      BY <1>1, <1>3, <2>8
    <3>3. QED
      BY <1>4, <3>1, <3>2, PrecedesLonger
  <2>9. CASE i \in begin + L + 1..Len(source') /\ j \in begin + L + 1..Len(source')
    <3>1. /\ source'[i] = source[i - L + 1] /\ source'[j] = source[j - L + 1]
          /\ i - L + 1 \in 1..Len(source) /\ j - L + 1 \in 1..Len(source)
          /\ i - L + 1 < j - L + 1
      BY <1>1, <2>1, <2>3, <2>9
    <3>2. QED
      BY <1>6, <3>1
  <2>10. i \in Nat /\ j \in Nat /\ begin \in Nat /\ L \in Nat
    BY <1>1
  <2>11. ~(i \in begin + 1..begin + L /\ j \in 1..begin)
    BY <2>1, <2>10
  <2>12. ~(i \in begin + L + 1..Len(source') /\ (j \in 1..begin \/ j \in begin + 1..begin + L))
    BY <2>1, <2>10
  <2>13. QED
    BY <1>8, <2>4, <2>5, <2>6, <2>7, <2>8, <2>9, <2>11, <2>12
<1>11. EndPlaced'
  BY <1>2 DEF LocationInv, EndPlaced
<1>12. EndsWithLine'
  <2>1. SUFFICES ASSUME state = "Alive"
                 PROVE  /\ lines # <<>>
                        /\ source' # <<>> /\ source'[Len(source')].location = <<LastOfLine>>
    BY <1>2 DEF EndsWithLine, LastOfLine
  <2>2. source # <<>> /\ lines # <<>> /\ source[Len(source)].location = <<LastOfLine>>
    <3>1. source # <<>>
      BY <1>1, EmptySeq
    <3>2. QED
      BY <2>1, <3>1 DEF LocationInv, EndsWithLine
  <2>3. index # Len(source)
    BY <1>2, <2>1 DEF WordTaken
  <2>4. index \in 0..Len(source)
    BY DEF TypeOK
  <2>5. /\ Len(source') \in begin + L + 1..Len(source') /\ Len(source') - L + 1 = Len(source)
        /\ Len(source') # 0
    BY <1>1, <2>3, <2>4
  <2>6. source'[Len(source')] = source[Len(source)]
    BY <1>1, <2>5
  <2>7. QED
    BY <2>2, <2>5, <2>6, EmptySeq
<1>13. QED
  BY <1>9, <1>10, <1>11, <1>12 DEF LocationInv

LEMMA LocationStep ==
  TypeOK /\ GoodSource /\ BlankInv /\ LocationInv /\ [Next]_vars => LocationInv'
<1> SUFFICES ASSUME TypeOK, GoodSource, BlankInv, LocationInv, [Next]_vars PROVE LocationInv'
  OBVIOUS
<1>1. CASE ReadLine
  BY <1>1, LocationReadLine
<1>2. CASE ReadEnd
  BY <1>2, LocationReadEnd
<1>3. ASSUME NEW name \in Name, Substitute(name) PROVE LocationInv'
  BY <1>3, LocationSubstitute DEF BlankInv
<1>4. CASE \/ ReadError \/ Fail \/ SkipBlank \/ ReadWord \/ ReadNewline \/ EndOfInput \/ Accept
           \/ UNCHANGED vars
  <2>1. UNCHANGED <<source, lines, eof>> /\ (state' = state \/ state' = "Error")
    BY <1>4 DEF ReadError, Fail, SkipBlank, ReadWord, ReadNewline, EndOfInput, Accept, vars
  <2>2. AllPlaced' /\ InOrder'
    BY <2>1 DEF LocationInv, AllPlaced, InOrder, Precedes
  <2>3. EndPlaced'
    BY <2>1 DEF LocationInv, EndPlaced
  <2>4. EndsWithLine'
    BY <2>1 DEF LocationInv, EndsWithLine, LastOfLine
  <2>5. QED
    BY <2>2, <2>3, <2>4 DEF LocationInv
<1>5. QED
  BY <1>1, <1>2, <1>3, <1>4 DEF Next

(* Every character is where its location says, all through the replacements*)
(* that it comes from; the buffer is in the order of what was read; and    *)
(* the end of the input is after its last line.                            *)
THEOREM LocationsAreTruthful == Spec => []LocationsTruthful
<1>1. Spec => [](TypeOK /\ GoodSource)
  BY GoodInit, GoodStep, PTL DEF Spec
<1>2. Spec => []BlankInv
  BY <1>1, BlankInit, BlankStep, PTL DEF Spec
<1>3. Spec => []LocationInv
  BY <1>1, <1>2, LocationInit, LocationStep, PTL DEF Spec
<1>4. LocationInv => LocationsTruthful
  BY DEF LocationInv, LocationsTruthful, AllPlaced, PlacedIn, Placed
<1>5. QED
  BY <1>3, <1>4, PTL
=============================================================================
