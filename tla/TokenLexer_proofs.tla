------------------------- MODULE TokenLexer_proofs -------------------------
(***************************************************************************)
(* Proofs about TokenLexer, for any input: the places that the lexer goes  *)
(* back to are in order, so that it never goes back over a token that it   *)
(* has given away, arithmetic_expansion never gets to `unreachable!`, and  *)
(* no line is read before the one that is to be executed.                  *)
(***************************************************************************)
EXTENDS TokenLexer, SequenceTheorems, TLAPS

-----------------------------------------------------------------------------
(* The inductive invariant                                                 *)

(* The functions that a token, the content of a word or text, and one of   *)
(* its units are read by                                                   *)
TokenPlace == {"blanks", "comment", "operator", "word"}
TextPlace == {"units", "units.escape"}
UnitPlace ==
  {"single", "double", "backquote", "backquote.escape", "dollar", "name", "prefix", "prefix.first",
   "prefix.second", "prefix.consume", "param", "param.name", "suffix", "suffix.colon", "switch",
   "trim.length", "trim", "brace.close", "arith.open", "arith", "arith.close", "command",
   "command.close"}

(* The places whose frames have a mark to go back to                       *)
MarkedPlace ==
  {"operator", "word", "dollar", "prefix", "prefix.first", "prefix.second", "arith.open", "arith",
   "arith.close", "command", "command.close", "heredoc"}
Marked(f) == f.at \in MarkedPlace

(* The places of functions that are called from place l                    *)
Callees(l) ==
  CASE l = "tokens" -> TokenPlace \cup {"heredoc"}
    [] l = "from_str" -> TokenPlace \cup TextPlace
    [] l = "list" -> TokenPlace \cup {"list"}
    [] l = "units" -> UnitPlace
    [] l \in {"word", "double", "switch", "trim", "arith"} -> TextPlace
    [] l = "heredoc" -> TextPlace \cup {"line"}
    [] l = "command.close" -> {"list"}
    [] OTHER -> {}

IsSeq(s) == s = [i \in 1 .. Len(s) |-> s[i]] /\ Len(s) \in Nat

IsFrame(f) ==
  /\ "at" \in DOMAIN f
  /\ "mark" \in DOMAIN f <=> Marked(f)
  /\ Marked(f) => f.mark \in Nat
  /\ f.at = "heredoc" => "begin" \in DOMAIN f /\ f.begin \in Nat /\ f.begin <= f.mark
  /\ f.at \in TextPlace => "delimiters" \in DOMAIN f

(* Frame g is one that frame f calls.  The text of an arithmetic expansion *)
(* ends at a parenthesis.                                                  *)
IsCallee(f, g) ==
  /\ g.at \in Callees(f.at)
  /\ f.at = "arith" => g.delimiters = {"(", ")"}

(* Operator::from_str calls nothing but the operator.                      *)
OnlyOperator(s, i) == s[i].at = IF i = 1 THEN "from_str" ELSE "operator"

WellStacked(s, start) ==
  /\ IsSeq(s)
  /\ \A i \in 1 .. Len(s) : IsFrame(s[i])
  /\ \A i \in 1 .. Len(s) : i = 1 => s[i].at \in {"tokens", "from_str"}
  /\ \A i \in 1 .. Len(s) : i # 1 => IsCallee(s[i - 1], s[i])
  /\ start = "operator" => \A i \in 1 .. Len(s) : OnlyOperator(s, i)

(* Going back to n passes over no token and no mark.                       *)
Above(s, ts, n) ==
  /\ \A i \in 1 .. Len(s) : Marked(s[i]) => s[i].mark <= n
  /\ \A k \in 1 .. Len(ts) : ts[k].end <= n

(* A mark is not before those of the frames below.                         *)
MarksInOrder(s, ts, n) ==
  /\ Above(s, ts, n)
  /\ \A i, j \in 1 .. Len(s) : i <= j /\ Marked(s[i]) /\ Marked(s[j]) => s[i].mark <= s[j].mark
  /\ \A i \in 1 .. Len(s) : \A k \in 1 .. Len(ts) : Marked(s[i]) => ts[k].end <= s[i].mark

IsToken(t) == t.begin \in Nat /\ t.end \in Nat /\ t.begin <= t.end
TokensHavePlace(ts) == IsSeq(ts) /\ \A k \in 1 .. Len(ts) : IsToken(ts[k])

(* A token that has been returned may be read again: nothing else has been *)
(* marked meanwhile.                                                       *)
ReturnedToken(v, s, ts, n) == IsToken(v) /\ v.end <= n /\ Above(s, ts, v.begin)

ValueFits(v, s, ts, n) ==
  /\ v.kind = "operator" => ReturnedToken(v, s, ts, n)
  /\ s[Len(s)].at \in {"tokens", "list"} => v = NoValue \/ ReturnedToken(v, s, ts, n)

ArithTextEnds ==
  Top.at = "arith" /\ value.kind = "text" =>
    index < Len(source) /\ NextChar \in {"(", ")", EndOfInput}

Outcome == {"none", "done", "error", "panic", "beyond", "syntax error", "nothing"}

Types == /\ input \in Source
         /\ source \in Seq(Char \cup {EndOfInput})
         /\ index \in 0 .. Len(source)
         /\ continuing \in BOOLEAN
         /\ outcome \in Outcome

LexerInv ==
  /\ Types
  /\ stack # <<>>
  /\ WellStacked(stack, input.start)
  /\ TokensHavePlace(tokens)
  /\ MarksInOrder(stack, tokens, index)
  /\ outcome = "none" => ValueFits(value, stack, tokens, index)
  /\ ArithTextEnds

-----------------------------------------------------------------------------
(* Sequences                                                               *)

LEMMA SeqOfItsElements ==
  ASSUME NEW s, IsSeq(s)
  PROVE  s \in Seq({s[i] : i \in 1 .. Len(s)})
<1> DEFINE S == {s[i] : i \in 1 .. Len(s)}
<1>1. \A i \in 1 .. Len(s) : s[i] \in S
  OBVIOUS
<1>2. [i \in 1 .. Len(s) |-> s[i]] \in Seq(S)
  <2> HIDE DEF S
  <2>1. Len(s) \in Nat
    BY DEF IsSeq
  <2>2. QED
    BY <1>1, <2>1, IsASeq
<1>3. QED
  BY <1>2 DEF IsSeq

LEMMA IsSeqOfSeq ==
  ASSUME NEW S, NEW s \in Seq(S)
  PROVE  IsSeq(s)
BY LenProperties DEF IsSeq

LEMMA AppendElements ==
  ASSUME NEW s, IsSeq(s), NEW e
  PROVE  /\ IsSeq(Append(s, e))
         /\ Len(Append(s, e)) = Len(s) + 1
         /\ \A i \in 1 .. Len(s) : Append(s, e)[i] = s[i]
         /\ Append(s, e)[Len(s) + 1] = e
<1> DEFINE S == {s[i] : i \in 1 .. Len(s)} \cup {e}
<1>1. s \in Seq(S)
  <2>1. s \in Seq({s[i] : i \in 1 .. Len(s)})
    BY SeqOfItsElements
  <2>2. QED
    BY <2>1
<1>2. e \in S
  OBVIOUS
<1> HIDE DEF S
<1>3. Append(s, e) \in Seq(S)
  BY <1>1, <1>2
<1>4. IsSeq(Append(s, e))
  BY <1>3, IsSeqOfSeq
<1>5. QED
  BY <1>1, <1>2, <1>4, AppendProperties

LEMMA FrontElements ==
  ASSUME NEW s, IsSeq(s), s # <<>>
  PROVE  /\ Len(s) \in Nat \ {0}
         /\ IsSeq(Front(s))
         /\ Len(Front(s)) = Len(s) - 1
         /\ \A i \in 1 .. Len(s) - 1 : Front(s)[i] = s[i]
         /\ Last(s) = s[Len(s)]
<1> DEFINE S == {s[i] : i \in 1 .. Len(s)}
<1>1. s \in Seq(S)
  BY SeqOfItsElements
<1> HIDE DEF S
<1>2. Len(s) \in Nat \ {0}
  BY <1>1, EmptySeq, LenProperties
<1>3. Front(s) \in Seq(S) /\ Len(Front(s)) = Len(s) - 1 /\ \A i \in 1 .. Len(s) - 1 : Front(s)[i] = s[i]
  <2>1. \A i \in 1 .. Len(s) - 1 : s[i] \in S
    BY <1>1, <1>2, ElementOfSeq
  <2>2. /\ SubSeq(s, 1, Len(s) - 1) \in Seq(S)
        /\ Len(SubSeq(s, 1, Len(s) - 1)) = IF 1 <= Len(s) - 1 THEN Len(s) - 1 - 1 + 1 ELSE 0
        /\ \A i \in 1 .. Len(s) - 1 - 1 + 1 : SubSeq(s, 1, Len(s) - 1)[i] = s[1 + i - 1]
    BY <1>1, <1>2, <2>1, SubSeqProperties
  <2>3. Front(s) = SubSeq(s, 1, Len(s) - 1)
    BY DEF Front
  <2> DEFINE front == SubSeq(s, 1, Len(s) - 1)
           n == Len(s)
  <2>4. n \in Nat \ {0} /\ front \in Seq(S) /\ Len(front) = (IF 1 <= n - 1 THEN n - 1 - 1 + 1 ELSE 0)
        /\ \A i \in 1 .. n - 1 - 1 + 1 : front[i] = s[1 + i - 1]
    BY <1>2, <2>2
  <2> HIDE DEF front, n
  <2>5. Len(front) = n - 1 /\ \A i \in 1 .. n - 1 : front[i] = s[i]
    BY <2>4
  <2>6. QED
    BY <2>3, <2>4, <2>5 DEF front, n
<1>4. QED
  BY <1>2, <1>3, IsSeqOfSeq DEF Last

(* Call puts what it calls upon the frame.                                 *)
LEMMA CallAppends ==
  ASSUME NEW s, IsSeq(s), NEW f, NEW g, NEW h
  PROVE  /\ s \o <<f>> \o <<g>> = Append(Append(s, f), g)
         /\ s \o <<f>> \o <<g, h>> = Append(Append(Append(s, f), g), h)
         /\ s \o <<f, g, h>> = Append(Append(Append(s, f), g), h)
<1> DEFINE S == {s[i] : i \in 1 .. Len(s)} \cup {f, g, h}
<1>1. s \in Seq(S)
  <2>1. s \in Seq({s[i] : i \in 1 .. Len(s)})
    BY SeqOfItsElements
  <2>2. QED
    BY <2>1
<1>2. f \in S /\ g \in S /\ h \in S
  OBVIOUS
<1> HIDE DEF S
<1>3. QED
  BY <1>1, <1>2

-----------------------------------------------------------------------------
(* What the steps do to the stack                                          *)

(* Frame g may be put upon the frames s when the lexer is at n.            *)
CanPush(s, ts, g, n, start) ==
  /\ IsFrame(g)
  /\ s = <<>> => g.at \in {"tokens", "from_str"}
  /\ s # <<>> => IsCallee(s[Len(s)], g)
  /\ start = "operator" => g.at = IF s = <<>> THEN "from_str" ELSE "operator"
  /\ Marked(g) => g.mark <= n /\ Above(s, ts, g.mark)

LEMMA EmptyStack ==
  ASSUME NEW s, IsSeq(s)
  PROVE  s = <<>> <=> Len(s) = 0
<1>1. s \in Seq({s[i] : i \in 1 .. Len(s)})
  BY SeqOfItsElements
<1>2. QED
  BY <1>1, EmptySeq

LEMMA PopFrame ==
  ASSUME NEW s, NEW ts, NEW m \in Nat, NEW n \in Nat, NEW start,
         WellStacked(s, start), MarksInOrder(s, ts, m), s # <<>>,
         Above(Front(s), ts, n)
  PROVE  WellStacked(Front(s), start) /\ MarksInOrder(Front(s), ts, n)
<1>1. IsSeq(s)
  BY DEF WellStacked
<1>2. /\ Len(s) \in Nat \ {0}
      /\ IsSeq(Front(s))
      /\ Len(Front(s)) = Len(s) - 1
      /\ \A i \in 1 .. Len(s) - 1 : Front(s)[i] = s[i]
  BY <1>1, FrontElements
<1> DEFINE t == Front(s)
<1> HIDE DEF t
<1>3. /\ IsSeq(t) /\ Len(t) = Len(s) - 1 /\ Above(t, ts, n)
      /\ \A i \in 1 .. Len(t) : t[i] = s[i] /\ i \in 1 .. Len(s)
      /\ \A i \in 1 .. Len(t) : i # 1 => i - 1 \in 1 .. Len(t)
  BY <1>2 DEF t
<1>4. WellStacked(t, start)
  <2>1. \A i \in 1 .. Len(t) : IsFrame(t[i]) /\ (i = 1 => t[i].at \in {"tokens", "from_str"})
    BY <1>3 DEF WellStacked
  <2>2. \A i \in 1 .. Len(t) : i # 1 => IsCallee(t[i - 1], t[i])
    BY <1>3 DEF WellStacked
  <2>3. start = "operator" => \A i \in 1 .. Len(t) : OnlyOperator(t, i)
    BY <1>3 DEF WellStacked, OnlyOperator
  <2>4. QED
    BY <1>3, <2>1, <2>2, <2>3 DEF WellStacked
<1>5. MarksInOrder(t, ts, n)
  BY <1>3 DEF MarksInOrder
<1>6. QED
  BY <1>4, <1>5 DEF t

LEMMA PushFrame ==
  ASSUME NEW s, NEW ts, NEW n \in Nat, NEW start, NEW g,
         WellStacked(s, start), MarksInOrder(s, ts, n), CanPush(s, ts, g, n, start)
  PROVE  /\ WellStacked(Append(s, g), start)
         /\ MarksInOrder(Append(s, g), ts, n)
         /\ Append(s, g) # <<>>
         /\ Front(Append(s, g)) = s
         /\ Last(Append(s, g)) = g
         /\ Append(s, g)[Len(Append(s, g))] = g
<1>1. IsSeq(s)
  BY DEF WellStacked
<1>2. /\ IsSeq(Append(s, g))
      /\ Len(Append(s, g)) = Len(s) + 1
      /\ \A i \in 1 .. Len(s) : Append(s, g)[i] = s[i]
      /\ Append(s, g)[Len(s) + 1] = g
  BY <1>1, AppendElements
<1> DEFINE t == Append(s, g)
           l == Len(s)
<1>3. l \in Nat /\ (s = <<>> <=> l = 0)
  BY <1>1, EmptyStack DEF IsSeq
<1> HIDE DEF t, l
<1>4. /\ IsSeq(t) /\ Len(t) = l + 1 /\ t[l + 1] = g
      /\ \A i \in 1 .. l : t[i] = s[i]
  BY <1>2 DEF t, l
<1>5. \A i \in 1 .. l + 1 : i \in 1 .. l \/ i = l + 1
  BY <1>3
<1>6. WellStacked(t, start)
  <2>1. \A i \in 1 .. l : IsFrame(t[i]) /\ (i = 1 => t[i].at \in {"tokens", "from_str"})
    BY <1>4 DEF WellStacked, l
  <2>2. \A i \in 1 .. l : i # 1 => IsCallee(t[i - 1], t[i])
    <3>1. \A i \in 1 .. l : i # 1 => i - 1 \in 1 .. l /\ IsCallee(s[i - 1], s[i])
      BY <1>3 DEF WellStacked, l
    <3>2. QED
      BY <3>1, <1>4
  <2>3. start = "operator" => \A i \in 1 .. l : OnlyOperator(t, i)
    BY <1>4 DEF WellStacked, OnlyOperator, l
  <2>4. IsFrame(t[l + 1]) /\ (l + 1 = 1 => t[l + 1].at \in {"tokens", "from_str"})
    BY <1>3, <1>4 DEF CanPush
  <2>5. l + 1 # 1 => IsCallee(t[l + 1 - 1], t[l + 1])
    <3>1. l + 1 # 1 => l \in 1 .. l /\ l + 1 - 1 = l /\ s # <<>>
      BY <1>3
    <3>2. QED
      BY <3>1, <1>4 DEF CanPush, l
  <2>6. start = "operator" => OnlyOperator(t, l + 1)
    BY <1>3, <1>4 DEF CanPush, OnlyOperator
  <2>7. \A i \in 1 .. l + 1 : IsFrame(t[i]) /\ (i = 1 => t[i].at \in {"tokens", "from_str"})
    BY <1>5, <2>1, <2>4
  <2>8. \A i \in 1 .. l + 1 : i # 1 => IsCallee(t[i - 1], t[i])
    <3> SUFFICES ASSUME NEW i \in 1 .. l + 1, i # 1
                 PROVE  IsCallee(t[i - 1], t[i])
      OBVIOUS
    <3>1. CASE i \in 1 .. l
      BY <3>1, <2>2
    <3>2. CASE i = l + 1
      BY <3>2, <1>3, <2>5
    <3>3. QED
      BY <1>5, <3>1, <3>2
  <2>9. start = "operator" => \A i \in 1 .. l + 1 : OnlyOperator(t, i)
    BY <1>5, <2>3, <2>6
  <2>10. QED
    BY <1>4, <2>7, <2>8, <2>9 DEF WellStacked
<1>7. MarksInOrder(t, ts, n)
  <2>1. Marked(g) => g.mark <= n /\ Above(s, ts, g.mark) /\ g.mark \in Nat
    BY DEF CanPush, IsFrame
  <2>2. Above(t, ts, n)
    BY <1>4, <1>5, <2>1 DEF Above, MarksInOrder, l
  <2>3. \A i, j \in 1 .. l : i <= j /\ Marked(t[i]) /\ Marked(t[j]) => t[i].mark <= t[j].mark
    BY <1>4 DEF MarksInOrder, l
  <2>4. \A i \in 1 .. l : Marked(t[i]) /\ Marked(g) => t[i].mark <= g.mark
    BY <1>4, <2>1 DEF Above, l
  <2>5. \A i \in 1 .. l : \A k \in 1 .. Len(ts) : Marked(t[i]) => ts[k].end <= t[i].mark
    BY <1>4 DEF MarksInOrder, l
  <2>6. \A k \in 1 .. Len(ts) : Marked(g) => ts[k].end <= g.mark
    BY <2>1 DEF Above
  <2>7. \A i, j \in 1 .. l + 1 : i <= j /\ Marked(t[i]) /\ Marked(t[j]) => t[i].mark <= t[j].mark
    <3> SUFFICES ASSUME NEW i \in 1 .. l + 1, NEW j \in 1 .. l + 1, i <= j, Marked(t[i]), Marked(t[j])
                 PROVE  t[i].mark <= t[j].mark
      OBVIOUS
    <3>1. CASE j \in 1 .. l
      BY <3>1, <1>3, <2>3
    <3>2. CASE j = l + 1 /\ i \in 1 .. l
      BY <3>2, <1>4, <2>4
    <3>3. CASE j = l + 1 /\ i = l + 1
      BY <3>3, <1>4, <2>1
    <3>4. QED
      BY <1>5, <3>1, <3>2, <3>3
  <2>8. \A i \in 1 .. l + 1 : \A k \in 1 .. Len(ts) : Marked(t[i]) => ts[k].end <= t[i].mark
    BY <1>4, <1>5, <2>5, <2>6
  <2>9. QED
    BY <1>4, <2>2, <2>7, <2>8 DEF MarksInOrder
<1>8. t # <<>> /\ t[Len(t)] = g /\ Last(t) = g
  BY <1>3, <1>4, EmptyStack DEF Last
<1>9. Front(t) = s
  <2>1. /\ IsSeq(Front(t)) /\ Len(Front(t)) = Len(t) - 1
        /\ \A i \in 1 .. Len(t) - 1 : Front(t)[i] = t[i]
    BY <1>4, <1>8, FrontElements
  <2>2. Len(t) - 1 = l
    BY <1>3, <1>4
  <2>3. Front(t) = [i \in 1 .. l |-> Front(t)[i]] /\ s = [i \in 1 .. l |-> s[i]]
    BY <1>1, <2>1, <2>2 DEF IsSeq, l
  <2>4. \A i \in 1 .. l : Front(t)[i] = s[i]
    BY <1>4, <2>1, <2>2
  <2>5. QED
    BY <2>3, <2>4
<1>10. QED
  BY <1>6, <1>7, <1>8, <1>9 DEF t

(* Frame g is what has become of frame f.                                  *)
Follows(f, g) ==
  /\ IsFrame(g)
  /\ \/ g.at = f.at
     \/ f.at \in TokenPlace /\ g.at \in TokenPlace
     \/ f.at \in TextPlace /\ g.at \in TextPlace
     \/ f.at \in UnitPlace /\ g.at \in UnitPlace
  /\ f.at \in TextPlace => g.delimiters = f.delimiters

(* It keeps the mark, or has a new one.                                    *)
MarkKept(f, g, m, n) ==
  Marked(g) => g.mark <= n /\ ((Marked(f) /\ g.mark = f.mark) \/ m <= g.mark)

LEMMA CalleeFollows ==
  ASSUME NEW e, NEW f, NEW g, IsCallee(e, f), Follows(f, g)
  PROVE  IsCallee(e, g)
<1>1. f.at \in Callees(e.at) /\ (e.at = "arith" => f.delimiters = {"(", ")"})
  BY DEF IsCallee
<1>2. \/ g.at = f.at
      \/ f.at \in TokenPlace /\ g.at \in TokenPlace
      \/ f.at \in TextPlace /\ g.at \in TextPlace
      \/ f.at \in UnitPlace /\ g.at \in UnitPlace
  BY DEF Follows
<1>3. g.at \in Callees(e.at)
  <2>1. CASE g.at = f.at
    BY <2>1, <1>1
  <2>2. CASE f.at \in TokenPlace /\ g.at \in TokenPlace
    <3>1. e.at \in {"tokens", "from_str", "list"}
      BY <2>2, <1>1 DEF Callees, TokenPlace, TextPlace, UnitPlace
    <3>2. QED
      BY <2>2, <3>1 DEF Callees
  <2>3. CASE f.at \in TextPlace /\ g.at \in TextPlace
    <3>1. e.at \in {"from_str", "word", "double", "switch", "trim", "arith", "heredoc"}
      BY <2>3, <1>1 DEF Callees, TokenPlace, TextPlace, UnitPlace
    <3>2. QED
      BY <2>3, <3>1 DEF Callees
  <2>4. CASE f.at \in UnitPlace /\ g.at \in UnitPlace
    <3>1. e.at = "units"
      BY <2>4, <1>1 DEF Callees, TokenPlace, TextPlace, UnitPlace
    <3>2. QED
      BY <2>4, <3>1 DEF Callees
  <2>5. QED
    BY <1>2, <2>1, <2>2, <2>3, <2>4
<1>4. e.at = "arith" => f.at \in TextPlace
  BY <1>1 DEF Callees
<1>5. QED
  BY <1>1, <1>3, <1>4 DEF IsCallee, Follows

LEMMA ReplaceFrame ==
  ASSUME NEW s, NEW ts, NEW m \in Nat, NEW n \in Nat, NEW start, NEW g,
         WellStacked(s, start), MarksInOrder(s, ts, m), s # <<>>,
         TokensHavePlace(ts),
         Above(Front(s), ts, n),
         Follows(Last(s), g), MarkKept(Last(s), g, m, n),
         start = "operator" => g.at = Last(s).at
  PROVE  /\ WellStacked(Front(s), start)
         /\ MarksInOrder(Front(s), ts, n)
         /\ CanPush(Front(s), ts, g, n, start)
<1>1. WellStacked(Front(s), start) /\ MarksInOrder(Front(s), ts, n)
  BY PopFrame
<1>2. IsSeq(s)
  BY DEF WellStacked
<1> DEFINE t == Front(s)
           l == Len(s)
           f == Last(s)
<1>3. /\ l \in Nat \ {0} /\ IsSeq(t) /\ Len(t) = l - 1 /\ f = s[l]
      /\ \A i \in 1 .. l - 1 : t[i] = s[i]
  BY <1>2, FrontElements
<1>4. t = <<>> <=> Len(t) = 0
  BY <1>3, EmptyStack
<1>5. IsFrame(g) /\ (l = 1 => f.at \in {"tokens", "from_str"})
  BY <1>3 DEF Follows, WellStacked
<1>6. t = <<>> => g.at \in {"tokens", "from_str"}
  BY <1>3, <1>4, <1>5 DEF Follows, TokenPlace, TextPlace, UnitPlace
<1>7. t # <<>> => IsCallee(t[Len(t)], g)
  <2> SUFFICES ASSUME t # <<>>
               PROVE  IsCallee(t[Len(t)], g)
    OBVIOUS
  <2>1. l # 1 /\ t[Len(t)] = s[l - 1]
    BY <1>3, <1>4
  <2>2. IsCallee(s[l - 1], s[l])
    <3>1. l \in 1 .. Len(s)
      BY <1>3
    <3>2. QED
      BY <2>1, <3>1 DEF WellStacked
  <2>3. QED
    BY <1>3, <2>1, <2>2, CalleeFollows
<1>8. start = "operator" => g.at = IF t = <<>> THEN "from_str" ELSE "operator"
  BY <1>3, <1>4 DEF WellStacked, OnlyOperator
<1>9. Marked(g) => g.mark <= n /\ Above(t, ts, g.mark)
  <2> SUFFICES ASSUME Marked(g)
               PROVE  g.mark <= n /\ Above(t, ts, g.mark)
    OBVIOUS
  <2>1. g.mark \in Nat /\ g.mark <= n /\ ((Marked(f) /\ g.mark = f.mark) \/ m <= g.mark)
    BY <1>5 DEF IsFrame, MarkKept
  <2>2. CASE Marked(f) /\ g.mark = f.mark
    <3>1. l \in 1 .. l /\ \A i \in 1 .. l - 1 : i \in 1 .. l /\ i <= l
      BY <1>3
    <3>2. \A i \in 1 .. l - 1 : Marked(t[i]) => t[i].mark <= g.mark
      BY <2>2, <3>1, <1>3 DEF MarksInOrder
    <3>3. \A k \in 1 .. Len(ts) : ts[k].end <= g.mark
      BY <2>2, <3>1, <1>3 DEF MarksInOrder
    <3>4. QED
      BY <2>1, <3>2, <3>3, <1>3 DEF Above
  <2>3. CASE m <= g.mark
    <3>1. \A i \in 1 .. l - 1 : Marked(t[i]) => t[i].mark \in Nat /\ t[i].mark <= m
      BY <1>3 DEF MarksInOrder, Above, WellStacked, IsFrame
    <3>2. \A k \in 1 .. Len(ts) : ts[k].end \in Nat /\ ts[k].end <= m
      BY DEF MarksInOrder, Above, TokensHavePlace, IsToken
    <3>3. QED
      BY <2>1, <2>3, <3>1, <3>2, <1>3 DEF Above
  <2>4. QED
    BY <2>1, <2>2, <2>3
<1> HIDE DEF t, f, l
<1>10. CanPush(t, ts, g, n, start)
  BY <1>5, <1>6, <1>7, <1>8, <1>9 DEF CanPush
<1>11. QED
  BY <1>1, <1>10 DEF t

-----------------------------------------------------------------------------
(* Every step but those of the parser is of one of these kinds.            *)

(* What a frame's step does besides                                        *)
Turn == /\ outcome = "none"
        /\ UNCHANGED <<input, source>>
        /\ index' \in 0 .. Len(source)
        /\ continuing' \in BOOLEAN
        /\ Above(Front(stack), tokens, index')

(* A step that goes on or back                                             *)
LEMMA GoesForward ==
  ASSUME LexerInv, index' \in Nat, index <= index'
  PROVE  Above(stack, tokens, index') /\ Above(Front(stack), tokens, index')
<1>1. IsSeq(stack) /\ stack # <<>>
  BY DEF LexerInv, WellStacked
<1>2. /\ Len(Front(stack)) = Len(stack) - 1
      /\ \A i \in 1 .. Len(stack) - 1 : Front(stack)[i] = stack[i]
      /\ Len(stack) \in Nat
  BY <1>1, FrontElements
<1>3. index \in Nat
  BY LenProperties DEF LexerInv, Types
<1>4. \A i \in 1 .. Len(stack) : Marked(stack[i]) => stack[i].mark \in Nat /\ stack[i].mark <= index
  BY DEF LexerInv, MarksInOrder, Above, WellStacked, IsFrame
<1>5. \A k \in 1 .. Len(tokens) : tokens[k].end \in Nat /\ tokens[k].end <= index
  BY DEF LexerInv, MarksInOrder, Above, TokensHavePlace, IsToken
<1>6. Above(stack, tokens, index')
  BY <1>3, <1>4, <1>5 DEF Above
<1>7. Above(Front(stack), tokens, index')
  <2>1. \A i \in 1 .. Len(stack) - 1 : i \in 1 .. Len(stack)
    BY <1>2
  <2>2. QED
    BY <1>2, <1>6, <2>1 DEF Above
<1>8. QED
  BY <1>6, <1>7

LEMMA GoesBack ==
  ASSUME LexerInv, Marked(Top)
  PROVE  /\ Above(Front(stack), tokens, Top.mark)
         /\ Top.mark \in Nat /\ Top.mark <= index
<1>1. IsSeq(stack) /\ stack # <<>>
  BY DEF LexerInv, WellStacked
<1> DEFINE l == Len(stack)
<1>2. /\ Len(Front(stack)) = l - 1
      /\ \A i \in 1 .. l - 1 : Front(stack)[i] = stack[i]
      /\ l \in Nat \ {0}
      /\ Top = stack[l]
  BY <1>1, FrontElements DEF Top
<1>3. l \in 1 .. Len(stack) /\ \A i \in 1 .. l - 1 : i \in 1 .. Len(stack) /\ i <= l
  BY <1>2
<1>4. Top.mark \in Nat /\ Top.mark <= index
  BY <1>2, <1>3 DEF LexerInv, MarksInOrder, Above, WellStacked, IsFrame
<1>5. \A i \in 1 .. l - 1 : Marked(stack[i]) => stack[i].mark <= Top.mark
  BY <1>2, <1>3 DEF LexerInv, MarksInOrder
<1>6. \A k \in 1 .. Len(tokens) : tokens[k].end <= Top.mark
  BY <1>2, <1>3 DEF LexerInv, MarksInOrder
<1>7. QED
  BY <1>2, <1>4, <1>5, <1>6 DEF Above

LEMMA TopFrame ==
  ASSUME LexerInv
  PROVE  /\ IsFrame(Top) /\ Top = stack[Len(stack)]
         /\ index \in Nat /\ Len(source) \in Nat /\ index <= Len(source)
         /\ Top.at \notin {"from_str", "operator"} => input.start # "operator"
<1>1. IsSeq(stack) /\ stack # <<>>
  BY DEF LexerInv, WellStacked
<1>2. Top = stack[Len(stack)] /\ Len(stack) \in Nat \ {0}
  BY <1>1, FrontElements DEF Top
<1>3. Len(stack) \in 1 .. Len(stack)
  BY <1>2
<1>4. IsFrame(Top)
  BY <1>2, <1>3 DEF LexerInv, WellStacked
<1>5. Top.at \notin {"from_str", "operator"} => input.start # "operator"
  BY <1>2, <1>3 DEF LexerInv, WellStacked, OnlyOperator
<1>6. QED
  BY <1>2, <1>4, <1>5, LenProperties DEF LexerInv, Types

(* The function that is on top now has not been told anything.             *)
LEMMA ToldNothing ==
  ASSUME LexerInv, Turn, UNCHANGED <<tokens, outcome>>, value' = NoValue,
         stack' # <<>>, WellStacked(stack', input.start),
         MarksInOrder(stack', tokens, index')
  PROVE  LexerInv'
<1>1. Types'
  BY DEF LexerInv, Types, Turn
<1>2. stack' # <<>> /\ WellStacked(stack', input'.start) /\ TokensHavePlace(tokens')
  BY DEF LexerInv, Turn
<1>3. MarksInOrder(stack', tokens', index')
  OBVIOUS
<1>4. value'.kind = "none"
  BY DEF NoValue
<1>5. ValueFits(value', stack', tokens', index')
  BY <1>4 DEF ValueFits
<1>6. ArithTextEnds'
  BY <1>4 DEF ArithTextEnds
<1>7. QED
  BY <1>1, <1>2, <1>3, <1>5, <1>6 DEF LexerInv

LEMMA GoStep ==
  ASSUME LexerInv, Turn, UNCHANGED tokens, NEW f, Go(f),
         Follows(Top, f), MarkKept(Top, f, index, index'),
         input.start = "operator" => f.at = Top.at
  PROVE  LexerInv'
<1>1. /\ WellStacked(stack, input.start) /\ MarksInOrder(stack, tokens, index) /\ stack # <<>>
      /\ TokensHavePlace(tokens)
      /\ index \in Nat /\ index' \in Nat
  BY TopFrame DEF LexerInv, Turn
<1>2. /\ WellStacked(Front(stack), input.start)
      /\ MarksInOrder(Front(stack), tokens, index')
      /\ CanPush(Front(stack), tokens, f, index', input.start)
  <2>1. Above(Front(stack), tokens, index')
    BY DEF Turn
  <2>2. QED
    BY <1>1, <2>1, ReplaceFrame DEF Top
<1>3. stack' = Append(Front(stack), f) /\ value' = NoValue /\ outcome' = outcome
  BY DEF Go
<1>4. WellStacked(stack', input.start) /\ MarksInOrder(stack', tokens, index') /\ stack' # <<>>
  BY <1>1, <1>2, <1>3, PushFrame
<1>5. QED
  BY <1>3, <1>4, ToldNothing

(* What may be called by frame f                                           *)
CalledFrom(f, g, m, n) ==
  /\ IsFrame(g) /\ IsCallee(f, g)
  /\ Marked(g) => g.mark <= n /\ m <= g.mark /\ ~Marked(f)

LEMMA CallPushes ==
  ASSUME LexerInv, Turn, UNCHANGED tokens, NEW f, NEW g,
         Follows(Top, f), MarkKept(Top, f, index, index'),
         input.start # "operator",
         CalledFrom(f, g, index, index')
  PROVE  LET s == Append(Append(Front(stack), f), g)
         IN /\ WellStacked(s, input.start) /\ MarksInOrder(s, tokens, index') /\ s # <<>>
            /\ s[Len(s)] = g
            /\ IsSeq(Front(stack))
<1>1. /\ WellStacked(stack, input.start) /\ MarksInOrder(stack, tokens, index) /\ stack # <<>>
      /\ TokensHavePlace(tokens)
      /\ index \in Nat /\ index' \in Nat
  BY TopFrame DEF LexerInv, Turn
<1>2. /\ WellStacked(Front(stack), input.start)
      /\ MarksInOrder(Front(stack), tokens, index')
      /\ CanPush(Front(stack), tokens, f, index', input.start)
  <2>1. Above(Front(stack), tokens, index')
    BY DEF Turn
  <2>2. QED
    BY <1>1, <2>1, ReplaceFrame DEF Top
<1> DEFINE r == Front(stack)
           t == Append(r, f)
<1>3. /\ WellStacked(t, input.start) /\ MarksInOrder(t, tokens, index') /\ t # <<>>
      /\ t[Len(t)] = f
  BY <1>1, <1>2, PushFrame
<1>4. IsSeq(r)
  BY <1>2 DEF WellStacked
<1>5. /\ Len(t) = Len(r) + 1 /\ Len(r) \in Nat
      /\ \A i \in 1 .. Len(r) : t[i] = r[i]
  BY <1>4, AppendElements DEF IsSeq
<1>6. Marked(g) => g.mark <= index' /\ Above(t, tokens, g.mark)
  <2> SUFFICES ASSUME Marked(g)
               PROVE  g.mark <= index' /\ Above(t, tokens, g.mark)
    OBVIOUS
  <2>1. g.mark \in Nat /\ g.mark <= index' /\ index <= g.mark /\ ~Marked(f)
    BY DEF CalledFrom, IsFrame
  <2>2. /\ Len(r) = Len(stack) - 1
        /\ \A i \in 1 .. Len(stack) - 1 : r[i] = stack[i]
        /\ Len(stack) \in Nat
    BY <1>1, FrontElements DEF WellStacked
  <2>3. \A i \in 1 .. Len(r) : Marked(r[i]) => r[i].mark \in Nat /\ r[i].mark <= index
    BY <1>1, <2>2 DEF MarksInOrder, Above, WellStacked, IsFrame
  <2>4. \A k \in 1 .. Len(tokens) : tokens[k].end \in Nat /\ tokens[k].end <= index
    BY <1>1 DEF MarksInOrder, Above, TokensHavePlace, IsToken
  <2> HIDE DEF r, t
  <2>5. \A i \in 1 .. Len(t) : i \in 1 .. Len(r) \/ t[i] = f
    <3>1. \A i \in 1 .. Len(r) + 1 : i \in 1 .. Len(r) \/ i = Len(r) + 1
      BY <1>5
    <3>2. QED
      BY <1>3, <1>5, <3>1
  <2>6. \A i \in 1 .. Len(t) : Marked(t[i]) => t[i].mark <= g.mark
    <3> SUFFICES ASSUME NEW i \in 1 .. Len(t), Marked(t[i])
                 PROVE  t[i].mark <= g.mark
      OBVIOUS
    <3>1. i \in 1 .. Len(r) /\ t[i] = r[i]
      BY <1>5, <2>1, <2>5
    <3>2. QED
      BY <1>1, <2>1, <2>3, <3>1
  <2>7. \A k \in 1 .. Len(tokens) : tokens[k].end <= g.mark
    BY <1>1, <2>1, <2>4
  <2>8. QED
    BY <2>1, <2>6, <2>7 DEF Above
<1> HIDE DEF t, r
<1>7. CanPush(t, tokens, g, index', input.start)
  BY <1>3, <1>6 DEF CanPush, CalledFrom
<1>8. WellStacked(Append(t, g), input.start) /\ MarksInOrder(Append(t, g), tokens, index')
      /\ Append(t, g) # <<>> /\ Append(t, g)[Len(Append(t, g))] = g
  BY <1>1, <1>3, <1>7, PushFrame
<1>9. QED
  BY <1>4, <1>8 DEF t, r

LEMMA CallStep ==
  ASSUME LexerInv, Turn, UNCHANGED tokens, NEW f, NEW g,
         Call(f, <<g>>),
         Follows(Top, f), MarkKept(Top, f, index, index'),
         input.start # "operator",
         CalledFrom(f, g, index, index')
  PROVE  LexerInv'
<1> DEFINE s == Append(Append(Front(stack), f), g)
<1>1. /\ WellStacked(s, input.start) /\ MarksInOrder(s, tokens, index') /\ s # <<>>
      /\ IsSeq(Front(stack))
  BY CallPushes
<1>2. stack' = s /\ value' = NoValue /\ outcome' = outcome
  <2>1. /\ stack' = Front(stack) \o <<f>> \o <<g>>
        /\ value' = NoValue /\ outcome' = outcome
    BY DEF Call
  <2>2. Front(stack) \o <<f>> \o <<g>> = s
    BY <1>1, CallAppends
  <2>3. QED
    BY <2>1, <2>2
<1>3. QED
  BY <1>1, <1>2, ToldNothing

LEMMA CallTwoPush ==
  ASSUME LexerInv, Turn, UNCHANGED tokens, NEW f, NEW g, NEW h,
         Follows(Top, f), MarkKept(Top, f, index, index'),
         input.start # "operator",
         CalledFrom(f, g, index, index'),
         IsFrame(h), IsCallee(g, h), ~Marked(h)
  PROVE  LET s == Append(Append(Append(Front(stack), f), g), h)
         IN /\ WellStacked(s, input.start) /\ MarksInOrder(s, tokens, index') /\ s # <<>>
            /\ IsSeq(Front(stack))
<1> DEFINE t == Append(Append(Front(stack), f), g)
<1>1. /\ WellStacked(t, input.start) /\ MarksInOrder(t, tokens, index') /\ t # <<>>
      /\ t[Len(t)] = g
      /\ IsSeq(Front(stack))
  BY CallPushes
<1>2. index' \in Nat
  BY TopFrame DEF Turn
<1> HIDE DEF t
<1>3. CanPush(t, tokens, h, index', input.start)
  BY <1>1 DEF CanPush
<1>4. QED
  BY <1>1, <1>2, <1>3, PushFrame DEF t

(* A function returns to one that is not to be told nothing else than v.   *)
LEMMA ReturnStep ==
  ASSUME LexerInv, Turn, UNCHANGED tokens, NEW v, Return(v),
         Top.at \notin {"tokens", "from_str"},
         v.kind = "operator" => ReturnedToken(v, Front(stack), tokens, index'),
         Last(Front(stack)).at \in {"tokens", "list"} =>
           v = NoValue \/ ReturnedToken(v, Front(stack), tokens, index'),
         Last(Front(stack)).at = "arith" /\ v.kind = "text" =>
           index' < Len(source) /\ source[index' + 1] \in {"(", ")", EndOfInput}
  PROVE  LexerInv'
<1> DEFINE r == Front(stack)
<1>1. /\ WellStacked(stack, input.start) /\ MarksInOrder(stack, tokens, index) /\ stack # <<>>
      /\ index \in Nat /\ index' \in Nat
      /\ Above(Front(stack), tokens, index')
  BY TopFrame DEF LexerInv, Turn
<1>2. WellStacked(r, input.start) /\ MarksInOrder(r, tokens, index')
  BY <1>1, PopFrame
<1>3. r # <<>> /\ Last(r) = r[Len(r)]
  <2>1. Len(stack) \in Nat \ {0} /\ Len(r) = Len(stack) - 1 /\ IsSeq(r) /\ Top = stack[Len(stack)]
    BY <1>1, FrontElements DEF WellStacked, Top
  <2>2. Len(stack) # 1
    BY <1>1, <2>1 DEF WellStacked
  <2>3. r # <<>>
    BY <2>1, <2>2, EmptyStack
  <2>4. QED
    BY <2>1, <2>3, FrontElements
<1>4. stack' = r /\ value' = v /\ outcome' = outcome
  BY DEF Return
<1> HIDE DEF r
<1>5. Types'
  BY <1>4 DEF LexerInv, Types, Turn
<1>6. ValueFits(value', stack', tokens', index')
  BY <1>3, <1>4 DEF ValueFits, r
<1>7. ArithTextEnds'
  BY <1>3, <1>4 DEF ArithTextEnds, Turn, Top, NextChar, r
<1>8. stack' # <<>> /\ WellStacked(stack', input'.start) /\ TokensHavePlace(tokens')
      /\ MarksInOrder(stack', tokens', index')
  BY <1>2, <1>3, <1>4 DEF LexerInv, Turn
<1>9. QED
  BY <1>5, <1>6, <1>7, <1>8 DEF LexerInv

(* A unit is returned to the word or text that it is a part of.            *)
LEMMA ReturnUnitStep ==
  ASSUME LexerInv, Turn, UNCHANGED tokens, NEW u, ReturnUnit(u), Top.at \in UnitPlace
  PROVE  LexerInv'
<1> DEFINE r == Front(stack)
           n == Len(r)
           f == [r[n] EXCEPT !.units = Append(@, u)]
           t == [r EXCEPT ![n] = f]
<1>1. /\ WellStacked(stack, input.start) /\ MarksInOrder(stack, tokens, index) /\ stack # <<>>
      /\ TokensHavePlace(tokens)
      /\ index \in Nat /\ index' \in Nat
      /\ Above(r, tokens, index')
  BY TopFrame DEF LexerInv, Turn
<1>2. WellStacked(r, input.start) /\ MarksInOrder(r, tokens, index')
  BY <1>1, PopFrame
<1>3. /\ Len(stack) \in Nat \ {0} /\ n = Len(stack) - 1 /\ IsSeq(r) /\ Top = stack[Len(stack)]
      /\ \A i \in 1 .. Len(stack) - 1 : r[i] = stack[i]
  BY <1>1, FrontElements DEF WellStacked, Top
<1>4. Len(stack) # 1
  BY <1>1, <1>3 DEF WellStacked, UnitPlace
<1>5. r # <<>> /\ n \in Nat \ {0} /\ r[n] = stack[Len(stack) - 1] /\ IsFrame(r[n])
  <2>1. n \in Nat \ {0} /\ n \in 1 .. Len(r)
    BY <1>3, <1>4
  <2>2. IsFrame(r[n])
    BY <1>2, <2>1 DEF WellStacked
  <2>3. QED
    BY <1>3, <2>1, <2>2, EmptyStack
<1>6. Last(r) = r[n] /\ IsSeq(Front(r)) /\ Len(Front(r)) = n - 1
      /\ \A i \in 1 .. n - 1 : Front(r)[i] = r[i]
  BY <1>3, <1>5, FrontElements
<1>7. r[n].at = "units"
  <2>1. Top.at \in Callees(r[n].at)
    <3>1. Len(stack) \in 1 .. Len(stack) /\ Len(stack) # 1
      BY <1>3, <1>4
    <3>2. QED
      BY <1>1, <1>3, <1>5, <3>1 DEF WellStacked, IsCallee
  <2>2. QED
    BY <2>1 DEF Callees, TokenPlace, TextPlace, UnitPlace
<1>8. /\ f.at = "units" /\ DOMAIN f = DOMAIN r[n] /\ f.delimiters = r[n].delimiters
      /\ IsFrame(f) /\ ~Marked(f)
  BY <1>5, <1>7 DEF IsFrame, Marked, MarkedPlace, TextPlace
<1>9. Above(Front(r), tokens, index')
  <2>1. \A i \in 1 .. n - 1 : i \in 1 .. n
    BY <1>5
  <2>2. QED
    BY <1>1, <1>6, <2>1 DEF Above
<1>10. /\ WellStacked(Front(r), input.start)
       /\ MarksInOrder(Front(r), tokens, index')
       /\ CanPush(Front(r), tokens, f, index', input.start)
  <2>1. Follows(Last(r), f)
    BY <1>6, <1>7, <1>8 DEF Follows
  <2>2. MarkKept(Last(r), f, index', index')
    BY <1>8 DEF MarkKept
  <2>3. input.start = "operator" => f.at = Last(r).at
    BY <1>6, <1>7, <1>8
  <2> HIDE DEF f, r
  <2>4. QED
    BY <1>1, <1>2, <1>5, <1>9, <2>1, <2>2, <2>3, ReplaceFrame
<1>11. stack' = t /\ value' = NoValue /\ outcome' = outcome
  BY DEF ReturnUnit
<1>12. t = Append(Front(r), f)
  <2> HIDE DEF f
  <2>1. r = [i \in 1 .. n |-> r[i]]
    BY <1>3 DEF IsSeq
  <2>2. t = [i \in 1 .. n |-> IF i = n THEN f ELSE r[i]]
    BY <2>1
  <2> DEFINE a == Append(Front(r), f)
  <2>3. IsSeq(a) /\ Len(a) = n - 1 + 1 /\ (\A i \in 1 .. n - 1 : a[i] = r[i]) /\ a[n - 1 + 1] = f
    BY <1>6, AppendElements
  <2> HIDE DEF a, t, n, r
  <2>4. a = [i \in 1 .. n |-> a[i]] /\ a[n] = f
    BY <1>5, <2>3 DEF IsSeq
  <2>5. \A i \in 1 .. n : a[i] = IF i = n THEN f ELSE r[i]
    <3>1. \A i \in 1 .. n : i = n \/ i \in 1 .. n - 1
      BY <1>5
    <3>2. QED
      BY <2>3, <2>4, <3>1
  <2>6. a = t
    BY <2>2, <2>4, <2>5
  <2>7. QED
    BY <2>6 DEF a
<1> HIDE DEF f, t, r
<1>13. WellStacked(stack', input.start) /\ MarksInOrder(stack', tokens, index') /\ stack' # <<>>
  BY <1>1, <1>10, <1>11, <1>12, PushFrame
<1>14. QED
  BY <1>11, <1>13, ToldNothing

(* The lexer or the parser ends.                                           *)
LEMMA EndStep ==
  ASSUME LexerInv, NEW o \in Outcome \ {"none"}, End(o),
         UNCHANGED <<input, source, index, tokens>>, continuing' \in BOOLEAN
  PROVE  LexerInv'
<1>1. UNCHANGED <<stack, value>> /\ outcome' = o
  BY DEF End
<1>2. Types'
  BY <1>1 DEF LexerInv, Types
<1>3. ArithTextEnds'
  BY <1>1 DEF LexerInv, ArithTextEnds, Top, NextChar
<1>4. o # "none"
  OBVIOUS
<1>5. QED
  BY <1>1, <1>2, <1>3, <1>4 DEF LexerInv

LEMMA FailStep ==
  ASSUME LexerInv, Fail, UNCHANGED <<input, source>>
  PROVE  LexerInv'
<1>1. "error" \in Outcome \ {"none"}
  BY DEF Outcome
<1>2. UNCHANGED <<input, source, index, tokens>> /\ continuing' \in BOOLEAN /\ End("error")
  BY DEF Fail, Peek, LexerInv, Types
<1>3. QED
  BY <1>1, <1>2, EndStep

(* Nothing but the source and the place in it changes.                     *)
LEMMA ReadStep ==
  ASSUME LexerInv, outcome = "none", UNCHANGED <<input, continuing, tokens, stack, value, outcome>>,
         Types', ~ (Top.at = "arith" /\ value.kind = "text"),
         index <= index'
  PROVE  LexerInv'
<1>1. index \in Nat /\ index' \in Nat
  BY TopFrame, LenProperties DEF Types
<1>2. Above(stack, tokens, index')
  BY <1>1, GoesForward
<1>3. MarksInOrder(stack', tokens', index')
  BY <1>2 DEF LexerInv, MarksInOrder
<1>4. ArithTextEnds'
  BY DEF ArithTextEnds, Top
<1>5. ValueFits(value', stack', tokens', index')
  <2>1. \A v : IsToken(v) /\ v.end <= index => v.end <= index'
    BY <1>1 DEF IsToken
  <2>2. QED
    BY <2>1 DEF LexerInv, ValueFits, ReturnedToken
<1>6. QED
  BY <1>3, <1>4, <1>5 DEF LexerInv

-----------------------------------------------------------------------------
(* The steps one by one                                                    *)

LEMMA AtFacts ==
  ASSUME LexerInv, NEW l, NEW v, At(l, v)
  PROVE  /\ outcome = "none" /\ Top.at = l /\ value.kind = v
         /\ input' = input /\ source' = source
         /\ index \in Nat /\ Len(source) \in Nat /\ index < Len(source)
         /\ IsFrame(Top) /\ continuing \in BOOLEAN
         /\ l \notin {"from_str", "operator"} => input.start # "operator"
<1>1. index # Len(source)
  BY DEF At, NeedsInput
<1>2. /\ IsFrame(Top) /\ index \in Nat /\ Len(source) \in Nat /\ index <= Len(source)
      /\ Top.at \notin {"from_str", "operator"} => input.start # "operator"
  BY TopFrame
<1>3. QED
  BY <1>1, <1>2 DEF At, Peeks, LexerInv, Types

LEMMA Advance ==
  ASSUME LexerInv, NEW l, NEW v, At(l, v), Consume \/ Peek, continuing' \in BOOLEAN
  PROVE  /\ Turn /\ index' \in Nat /\ index <= index'
         /\ Above(stack, tokens, index')
         /\ Marked(Top) => Top.mark \in Nat /\ Top.mark <= index /\ Top.mark <= index'
<1>1. /\ index \in Nat /\ Len(source) \in Nat /\ index < Len(source)
      /\ outcome = "none" /\ input' = input /\ source' = source
  BY AtFacts
<1>2. index' \in 0 .. Len(source) /\ index <= index'
  BY <1>1 DEF Consume, Peek
<1>3. Above(stack, tokens, index') /\ Above(Front(stack), tokens, index')
  BY <1>2, GoesForward
<1>4. Marked(Top) => Top.mark \in Nat /\ Top.mark <= index
  BY GoesBack
<1>5. QED
  BY <1>1, <1>2, <1>3, <1>4 DEF Turn

(* The frame goes on with some of its fields changed.                      *)
LEMMA EditStep ==
  ASSUME LexerInv, NEW l, NEW v, At(l, v), Consume \/ Peek, continuing' \in BOOLEAN, UNCHANGED tokens,
         NEW f, Go(f), DOMAIN f = DOMAIN Top,
         \/ f.at = l
         \/ l \in TokenPlace /\ f.at \in TokenPlace
         \/ l \in TextPlace /\ f.at \in TextPlace
         \/ l \in UnitPlace /\ f.at \in UnitPlace,
         l \in MarkedPlace <=> f.at \in MarkedPlace,
         l \in MarkedPlace => f.mark = Top.mark,
         l \in TextPlace => f.delimiters = Top.delimiters,
         l \notin {"from_str", "heredoc"}, l = "operator" => f.at = l
  PROVE  LexerInv'
<1>1. /\ Turn /\ index' \in Nat
      /\ Marked(Top) => Top.mark \in Nat /\ Top.mark <= index'
  BY Advance
<1>2. Top.at = l /\ IsFrame(Top) /\ (l \notin {"from_str", "operator"} => input.start # "operator")
  BY AtFacts
<1>3. Marked(Top) <=> Marked(f)
  BY <1>2 DEF Marked
<1>4. f.at # "heredoc"
  BY <1>2 DEF TokenPlace, TextPlace, UnitPlace
<1>5. f.at \in TextPlace => l \in TextPlace
  BY DEF TokenPlace, TextPlace, UnitPlace
<1>6. IsFrame(f)
  BY <1>1, <1>2, <1>3, <1>4, <1>5 DEF IsFrame, Marked
<1>7. Follows(Top, f)
  BY <1>2, <1>6 DEF Follows
<1>8. MarkKept(Top, f, index, index')
  BY <1>1, <1>2, <1>3 DEF MarkKept, Marked
<1>9. QED
  BY <1>1, <1>2, <1>7, <1>8, GoStep

LEMMA BlanksStep ==
  ASSUME LexerInv, Blanks
  PROVE  LexerInv'
<1>1. At("blanks", "none")
  BY DEF Blanks
<1>2. Top.at = "blanks" /\ "at" \in DOMAIN Top /\ index \in Nat /\ continuing \in BOOLEAN
      /\ input.start # "operator"
  BY <1>1, AtFacts DEF IsFrame
<1>3. CASE NextChar \in Blank /\ Consume /\ Go(Top) /\ Quiet
  BY <1>1, <1>2, <1>3, EditStep DEF Quiet, TokenPlace, MarkedPlace, TextPlace
<1>4. CASE NextChar = "#" /\ Consume /\ Go(To("comment")) /\ DisableLineContinuation /\ UNCHANGED tokens
  <2>1. To("comment").at = "comment" /\ DOMAIN To("comment") = DOMAIN Top
    BY <1>2 DEF To
  <2>2. QED
    BY <1>1, <1>2, <1>4, <2>1, EditStep DEF DisableLineContinuation, TokenPlace, MarkedPlace, TextPlace
<1>5. CASE Peek /\ Go(OperatorFrame) /\ Quiet
  <2>1. Turn /\ index' = index
    BY <1>1, <1>2, <1>5, Advance DEF Peek, Quiet
  <2>2. IsFrame(OperatorFrame) /\ OperatorFrame.at = "operator" /\ OperatorFrame.mark = index
    BY <1>2 DEF OperatorFrame, IsFrame, Marked, MarkedPlace, TextPlace
  <2>3. Follows(Top, OperatorFrame)
    BY <1>2, <2>2 DEF Follows, TokenPlace, TextPlace
  <2>4. MarkKept(Top, OperatorFrame, index, index')
    BY <1>2, <2>1, <2>2 DEF MarkKept
  <2>5. QED
    BY <1>2, <1>5, <2>1, <2>3, <2>4, GoStep DEF Quiet
<1>6. QED
  BY <1>3, <1>4, <1>5 DEF Blanks

LEMMA CommentStep ==
  ASSUME LexerInv, Comment
  PROVE  LexerInv'
<1>1. At("comment", "none")
  BY DEF Comment
<1>2. Top.at = "comment" /\ index \in Nat /\ continuing \in BOOLEAN
      /\ input.start # "operator"
  BY <1>1, AtFacts
<1>3. CASE Consume /\ Go(Top) /\ Quiet
  BY <1>1, <1>2, <1>3, EditStep DEF Quiet, TokenPlace, MarkedPlace, TextPlace
<1>4. CASE Peek /\ Go(OperatorFrame) /\ EnableLineContinuation /\ UNCHANGED tokens
  <2>1. Turn /\ index' = index
    BY <1>1, <1>2, <1>4, Advance DEF Peek, EnableLineContinuation
  <2>2. IsFrame(OperatorFrame) /\ OperatorFrame.at = "operator" /\ OperatorFrame.mark = index
    BY <1>2 DEF OperatorFrame, IsFrame, Marked, MarkedPlace, TextPlace
  <2>3. Follows(Top, OperatorFrame)
    BY <1>2, <2>2 DEF Follows, TokenPlace, TextPlace
  <2>4. MarkKept(Top, OperatorFrame, index, index')
    BY <1>2, <2>1, <2>2 DEF MarkKept
  <2>5. QED
    BY <1>2, <1>4, <2>1, <2>3, <2>4, GoStep
<1>5. QED
  BY <1>3, <1>4 DEF Comment

(* The function that has called the one on top                             *)
Caller == Last(Front(stack))

LEMMA TopIsCalled ==
  ASSUME LexerInv, Top.at \notin {"tokens", "from_str"}
  PROVE  IsCallee(Caller, Top)
<1>1. WellStacked(stack, input.start) /\ IsSeq(stack) /\ stack # <<>>
  BY DEF LexerInv, WellStacked
<1>2. /\ Len(stack) \in Nat \ {0} /\ IsSeq(Front(stack)) /\ Len(Front(stack)) = Len(stack) - 1
      /\ \A i \in 1 .. Len(stack) - 1 : Front(stack)[i] = stack[i]
      /\ Top = stack[Len(stack)]
  BY <1>1, FrontElements DEF Top
<1>3. Len(stack) # 1
  BY <1>1, <1>2 DEF WellStacked
<1>4. Caller = stack[Len(stack) - 1]
  <2>1. Front(stack) # <<>>
    BY <1>2, <1>3, EmptyStack
  <2>2. Caller = Front(stack)[Len(stack) - 1]
    BY <1>2, <2>1, FrontElements DEF Caller
  <2>3. QED
    BY <1>2, <1>3, <2>2
<1>5. Len(stack) \in 1 .. Len(stack)
  BY <1>2
<1>6. QED
  BY <1>1, <1>2, <1>3, <1>4, <1>5 DEF WellStacked

LEMMA ReturnTokenStep ==
  ASSUME LexerInv, NEW l \in {"operator", "word"}, NEW v, At(l, v), Consume \/ Peek, Quiet,
         NEW kind, NEW key, NEW word, Return(Token(kind, key, word))
  PROVE  LexerInv'
<1> DEFINE t == Token(kind, key, word)
<1>1. Top.at = l /\ continuing \in BOOLEAN
  BY AtFacts
<1>2. Marked(Top) /\ Top.at \in TokenPlace /\ Top.at \notin {"tokens", "from_str"}
  BY <1>1 DEF Marked, MarkedPlace, TokenPlace
<1>3. Turn /\ index' \in Nat /\ Top.mark \in Nat /\ Top.mark <= index'
  BY <1>1, <1>2, Advance DEF Quiet
<1>4. Above(Front(stack), tokens, Top.mark)
  BY <1>2, GoesBack
<1>5. t.begin = Top.mark /\ t.end = index'
  BY DEF Token
<1> HIDE DEF t
<1>6. ReturnedToken(t, Front(stack), tokens, index')
  BY <1>3, <1>4, <1>5 DEF ReturnedToken, IsToken
<1>7. Caller.at # "arith"
  BY <1>2, TopIsCalled DEF IsCallee, Callees, TokenPlace, TextPlace
<1>8. QED
  BY <1>2, <1>3, <1>6, <1>7, ReturnStep DEF Quiet, t, Caller

(* Text is returned, by a word or text that ends here or by a line.        *)
LEMMA ReturnTextStep ==
  ASSUME LexerInv, NEW l, NEW v, At(l, v), Peek, continuing' \in BOOLEAN, UNCHANGED tokens,
         NEW units, Return(Text(units)),
         \/ l = "line"
         \/ l = "units" /\ NextChar \in Top.delimiters \cup {EndOfInput}
  PROVE  LexerInv'
<1>1. /\ Top.at = l /\ index < Len(source) /\ source' = source
      /\ Top.at \notin {"tokens", "from_str"}
  BY AtFacts
<1>2. Turn /\ index' = index
  BY Advance DEF Peek
<1>3. IsCallee(Caller, Top)
  BY <1>1, TopIsCalled
<1>4. Caller.at \notin {"tokens", "list"}
  BY <1>1, <1>3 DEF IsCallee, Callees, TokenPlace
<1>5. Caller.at = "arith" => NextChar \in {"(", ")", EndOfInput}
  BY <1>1, <1>3 DEF IsCallee, Callees, TextPlace
<1>6. Text(units).kind = "text"
  BY DEF Text
<1>7. QED
  BY <1>1, <1>2, <1>4, <1>5, <1>6, ReturnStep DEF Caller, NextChar

(* An ending that is none, for the caller that waits for units             *)
LEMMA NotFoundStep ==
  ASSUME LexerInv, Turn, UNCHANGED tokens, Return(NotFound),
         Top.at \in UnitPlace \/ (input.start = "operator" /\ Top.at = "operator")
  PROVE  LexerInv'
<1>1. Top.at \notin {"tokens", "from_str"}
  BY DEF UnitPlace
<1>2. IsCallee(Caller, Top)
  BY <1>1, TopIsCalled
<1>3. Caller.at \notin {"tokens", "list"}
  <2>1. CASE Top.at \in UnitPlace
    BY <2>1, <1>2 DEF IsCallee, Callees, UnitPlace, TokenPlace
  <2>2. CASE input.start = "operator" /\ Top.at = "operator"
    <3>1. WellStacked(stack, input.start) /\ IsSeq(stack) /\ stack # <<>>
      BY DEF LexerInv, WellStacked
    <3>2. /\ Len(stack) \in Nat \ {0} /\ IsSeq(Front(stack)) /\ Len(Front(stack)) = Len(stack) - 1
          /\ \A i \in 1 .. Len(stack) - 1 : Front(stack)[i] = stack[i]
          /\ Top = stack[Len(stack)]
      BY <3>1, FrontElements DEF Top
    <3>3. Len(stack) # 1
      BY <2>2, <3>1, <3>2 DEF WellStacked
    <3>4. Front(stack) # <<>>
      BY <3>2, <3>3, EmptyStack
    <3>5. Caller = stack[Len(stack) - 1] /\ Len(stack) - 1 \in 1 .. Len(stack)
      BY <3>2, <3>3, <3>4, FrontElements DEF Caller
    <3>6. Caller.at \in {"from_str", "operator"}
      BY <2>2, <3>1, <3>5 DEF WellStacked, OnlyOperator
    <3>7. QED
      BY <3>6
  <2>3. QED
    BY <2>1, <2>2
<1>4. NotFound.kind = "not found"
  BY DEF NotFound
<1>5. QED
  BY <1>1, <1>3, <1>4, ReturnStep DEF Caller

LEMMA OperatorStep ==
  ASSUME LexerInv, Operator
  PROVE  LexerInv'
<1> DEFINE key == Append(Top.key, NextChar)
<1>1. At("operator", "none") /\ Quiet
  BY DEF Operator
<1>2. Top.at = "operator" /\ "at" \in DOMAIN Top /\ continuing \in BOOLEAN /\ Marked(Top)
  BY <1>1, AtFacts DEF IsFrame, Marked, MarkedPlace
<1>3. CASE Consume /\ Go([Top EXCEPT !.key = key])
  <2> DEFINE f == [Top EXCEPT !.key = key]
  <2>1. "mark" \in DOMAIN Top
    BY <1>1, <1>2, AtFacts DEF IsFrame
  <2>2. f.at = "operator" /\ DOMAIN f = DOMAIN Top /\ f.mark = Top.mark
    BY <1>2, <2>1
  <2> HIDE DEF f
  <2>3. QED
    BY <1>1, <1>2, <1>3, <2>2, EditStep DEF Quiet, TokenPlace, TextPlace, f
<1>4. CASE Consume /\ Return(Token("operator", key, Literals(key)))
  BY <1>1, <1>4, ReturnTokenStep
<1>5. CASE Peek /\ Return(Token("operator", Top.key, Literals(Top.key)))
  BY <1>1, <1>5, ReturnTokenStep
<1>6. CASE Peek /\ input.start = "operator" /\ Return(NotFound)
  BY <1>1, <1>2, <1>6, Advance, NotFoundStep DEF Quiet
<1>7. CASE Peek /\ input.start # "operator" /\ Call(To("word"), <<WordFrame("Word", TokenDelimiter)>>)
  <2> DEFINE f == To("word")
             g == WordFrame("Word", TokenDelimiter)
  <2>1. /\ Turn /\ index' = index /\ index \in Nat /\ index <= index'
        /\ Top.mark \in Nat /\ Top.mark <= index'
    BY <1>1, <1>2, <1>7, Advance DEF Quiet, Peek
  <2>2. f.at = "word" /\ DOMAIN f = DOMAIN Top /\ f.mark = Top.mark
    BY <1>2, AtFacts, <1>1 DEF To, IsFrame
  <2>3. Follows(Top, f) /\ MarkKept(Top, f, index, index') /\ IsFrame(f)
    <3>1. IsFrame(f)
      BY <1>1, <1>2, <2>1, <2>2, AtFacts DEF IsFrame, Marked, MarkedPlace, TextPlace
    <3>2. QED
      BY <1>2, <2>1, <2>2, <3>1 DEF Follows, MarkKept, TokenPlace, TextPlace
  <2>4. /\ g.at = "units" /\ DOMAIN g = {"at", "context", "word", "delimiters", "escapable", "units"}
    BY DEF WordFrame, UnitsFrame
  <2> HIDE DEF f, g
  <2>5. CalledFrom(f, g, index, index')
    BY <2>2, <2>4 DEF CalledFrom, IsFrame, IsCallee, Callees, Marked, MarkedPlace, TextPlace
  <2>6. QED
    BY <1>1, <1>7, <2>1, <2>3, <2>5, CallStep DEF Quiet, f, g
<1>8. QED
  BY <1>3, <1>4, <1>5, <1>6, <1>7 DEF Operator

LEMMA WordTokenStep ==
  ASSUME LexerInv, WordToken
  PROVE  LexerInv'
<1> DEFINE word == ParseTildeFront(value.units)
<1>1. /\ At("word", "text") /\ Peek /\ Quiet
      /\ Return(Token(TokenId(word), <<>>, word))
  BY DEF WordToken
<1>2. QED
  BY <1>1, ReturnTokenStep

(* The frame goes on where it is, or at another place, with more units.    *)
LEMMA TopEdited ==
  ASSUME IsFrame(Top), NEW l, NEW u
  PROVE  /\ To(l).at = l /\ DOMAIN To(l) = DOMAIN Top
         /\ Marked(Top) => To(l).mark = Top.mark
         /\ Top.at \in TextPlace => To(l).delimiters = Top.delimiters
         /\ With(u).at = Top.at /\ DOMAIN With(u) = DOMAIN Top
         /\ Top.at \in TextPlace => With(u).delimiters = Top.delimiters
         /\ Resumed(l, u).at = l /\ DOMAIN Resumed(l, u) = DOMAIN Top
         /\ Top.at \in TextPlace => Resumed(l, u).delimiters = Top.delimiters
<1>1. /\ "at" \in DOMAIN Top /\ (Marked(Top) => "mark" \in DOMAIN Top)
      /\ Top.at \in TextPlace => "delimiters" \in DOMAIN Top
  BY DEF IsFrame
<1>2. /\ To(l).at = l /\ DOMAIN To(l) = DOMAIN Top
      /\ Marked(Top) => To(l).mark = Top.mark
      /\ Top.at \in TextPlace => To(l).delimiters = Top.delimiters
  BY <1>1 DEF To
<1>3. /\ With(u).at = Top.at /\ DOMAIN With(u) = DOMAIN Top
      /\ Top.at \in TextPlace => With(u).delimiters = Top.delimiters
  BY <1>1 DEF With
<1>4. /\ Resumed(l, u).at = l /\ DOMAIN Resumed(l, u) = DOMAIN Top
      /\ Top.at \in TextPlace => Resumed(l, u).delimiters = Top.delimiters
  <2>1. Resumed(l, u) = [With(u) EXCEPT !.at = l]
    BY DEF Resumed
  <2>2. QED
    BY <1>1, <1>3, <2>1
<1>5. QED
  BY <1>2, <1>3, <1>4

(* A word or text calls the function that reads one of its units.          *)
LEMMA CallUnitStep ==
  ASSUME LexerInv, At("units", "none"), Consume, continuing' \in BOOLEAN, UNCHANGED tokens,
         NEW g, Call(Top, <<g>>), IsFrame(g), g.at \in UnitPlace,
         Marked(g) => g.mark = index
  PROVE  LexerInv'
<1>1. /\ Top.at = "units" /\ IsFrame(Top) /\ input.start # "operator"
      /\ index \in Nat
  BY AtFacts
<1>2. Turn /\ index <= index'
  BY Advance
<1>3. Follows(Top, Top) /\ MarkKept(Top, Top, index, index')
  BY <1>1 DEF Follows, MarkKept, Marked, MarkedPlace
<1>4. CalledFrom(Top, g, index, index')
  BY <1>1, <1>2 DEF CalledFrom, IsCallee, Callees, Marked, MarkedPlace
<1>5. QED
  BY <1>1, <1>2, <1>3, <1>4, CallStep

LEMMA TextUnitStep ==
  ASSUME LexerInv, At("units", "none"), TextUnit, UNCHANGED <<continuing, tokens>>
  PROVE  LexerInv'
<1>1. /\ Top.at = "units" /\ IsFrame(Top) /\ index \in Nat /\ continuing \in BOOLEAN
  BY AtFacts
<1>2. CASE Consume /\ Go(To("units.escape"))
  <2>1. /\ To("units.escape").at = "units.escape" /\ DOMAIN To("units.escape") = DOMAIN Top
        /\ To("units.escape").delimiters = Top.delimiters
    BY <1>1, TopEdited DEF TextPlace
  <2>2. QED
    BY <1>1, <1>2, <2>1, EditStep DEF TextPlace, MarkedPlace
<1>3. CASE Consume /\ Call(Top, <<DollarFrame("dollar", index)>>)
  <2> DEFINE g == DollarFrame("dollar", index)
  <2>1. g.at = "dollar" /\ g.mark = index /\ IsFrame(g)
    BY <1>1 DEF DollarFrame, IsFrame, Marked, MarkedPlace, TextPlace
  <2> HIDE DEF g
  <2>2. g.at \in UnitPlace
    BY <2>1 DEF UnitPlace
  <2>3. QED
    BY <1>1, <1>3, <2>1, <2>2, CallUnitStep DEF g
<1>4. CASE Consume /\ Call(Top, <<BackquoteFrame>>)
  <2>1. BackquoteFrame.at = "backquote" /\ IsFrame(BackquoteFrame) /\ ~Marked(BackquoteFrame)
    BY DEF BackquoteFrame, IsFrame, Marked, MarkedPlace, TextPlace
  <2>2. BackquoteFrame.at \in UnitPlace
    BY <2>1 DEF UnitPlace
  <2>3. QED
    BY <1>1, <1>4, <2>1, <2>2, CallUnitStep
<1>5. CASE Consume /\ Go(With(Literal(NextChar)))
  <2> DEFINE f == With(Literal(NextChar))
  <2>1. f.at = "units" /\ DOMAIN f = DOMAIN Top /\ f.delimiters = Top.delimiters
    BY <1>1, TopEdited DEF TextPlace
  <2> HIDE DEF f
  <2>2. QED
    BY <1>1, <1>5, <2>1, EditStep DEF TextPlace, MarkedPlace, f
<1>6. QED
  BY <1>2, <1>3, <1>4, <1>5 DEF TextUnit, SpecialChar, BQ

LEMMA UnitsStep ==
  ASSUME LexerInv, Units
  PROVE  LexerInv'
<1>1. At("units", "none") /\ UNCHANGED tokens
  BY DEF Units
<1>2. /\ Top.at = "units" /\ IsFrame(Top) /\ index \in Nat /\ continuing \in BOOLEAN
      /\ input.start # "operator"
  BY <1>1, AtFacts
<1>3. CASE /\ Consume /\ Call(Top, <<[at |-> "single", content |-> <<>>]>>)
           /\ DisableLineContinuation
  <2> DEFINE g == [at |-> "single", content |-> <<>>]
  <2>1. g.at = "single" /\ IsFrame(g) /\ ~Marked(g)
    BY DEF IsFrame, Marked, MarkedPlace, TextPlace
  <2> HIDE DEF g
  <2>2. g.at \in UnitPlace
    BY <2>1 DEF UnitPlace
  <2>3. continuing' \in BOOLEAN
    BY <1>3 DEF DisableLineContinuation
  <2>4. QED
    BY <1>1, <1>3, <2>1, <2>2, <2>3, CallUnitStep DEF g
<1>4. CASE /\ Consume
           /\ Call(Top, <<[at |-> "double"], TextFrame({"\""}, DoubleQuoteEscapable)>>)
           /\ UNCHANGED continuing
  <2> DEFINE g == [at |-> "double"]
             h == TextFrame({"\""}, DoubleQuoteEscapable)
             s == Append(Append(Append(Front(stack), Top), g), h)
  <2>1. g.at = "double" /\ IsFrame(g) /\ ~Marked(g) /\ g.at \in UnitPlace
    BY DEF IsFrame, Marked, MarkedPlace, TextPlace, UnitPlace
  <2>2. h.at = "units" /\ IsFrame(h) /\ ~Marked(h)
    BY DEF TextFrame, UnitsFrame, IsFrame, Marked, MarkedPlace, TextPlace
  <2>3. /\ stack' = Front(stack) \o <<Top>> \o <<g, h>>
        /\ value' = NoValue /\ outcome' = outcome
    BY <1>4 DEF Call
  <2> HIDE DEF g, h
  <2>4. IsCallee(g, h)
    BY <2>1, <2>2 DEF IsCallee, Callees, TextPlace
  <2>5. Turn /\ index <= index'
    BY <1>1, <1>2, <1>4, Advance
  <2>6. Follows(Top, Top) /\ MarkKept(Top, Top, index, index')
    BY <1>2 DEF Follows, MarkKept, Marked, MarkedPlace
  <2>7. CalledFrom(Top, g, index, index')
    BY <1>2, <2>1 DEF CalledFrom, IsCallee, Callees
  <2>8. /\ WellStacked(s, input.start) /\ MarksInOrder(s, tokens, index') /\ s # <<>>
        /\ IsSeq(Front(stack))
    BY <1>1, <1>2, <2>2, <2>4, <2>5, <2>6, <2>7, CallTwoPush
  <2>9. stack' = s
    BY <2>3, <2>8, CallAppends
  <2>10. QED
    BY <1>1, <2>3, <2>5, <2>8, <2>9, ToldNothing
<1>5. CASE TextUnit /\ UNCHANGED continuing
  BY <1>1, <1>5, TextUnitStep
<1>6. CASE /\ NextChar \in (Top.delimiters \cup {EndOfInput}) \ (SpecialChar \cup QuoteChar)
           /\ Peek
           /\ Return(Text(Top.units))
           /\ UNCHANGED continuing
  BY <1>1, <1>2, <1>6, ReturnTextStep
<1>7. QED
  BY <1>1, <1>3, <1>4, <1>5, <1>6 DEF Units

LEMMA LiteralDollarStep ==
  ASSUME LexerInv, LiteralDollar
  PROVE  LexerInv'
<1> DEFINE f == With(Literal("$"))
<1>1. At("units", "not found") /\ Consume /\ Go(f) /\ Quiet
  BY DEF LiteralDollar
<1>2. Top.at = "units" /\ IsFrame(Top) /\ continuing \in BOOLEAN
  BY <1>1, AtFacts
<1>3. f.at = "units" /\ DOMAIN f = DOMAIN Top /\ f.delimiters = Top.delimiters
  BY <1>2, TopEdited DEF TextPlace
<1> HIDE DEF f
<1>4. QED
  BY <1>1, <1>2, <1>3, EditStep DEF TextPlace, MarkedPlace, Quiet

LEMMA EscapeStep ==
  ASSUME LexerInv, Escape
  PROVE  LexerInv'
<1>1. /\ At("units.escape", "none") /\ Quiet
      /\ \E u : (Consume \/ Peek) /\ Go(Resumed("units", u))
  BY DEF Escape, ConsumeIf, NoneOf
<1>2. Top.at = "units.escape" /\ IsFrame(Top) /\ continuing \in BOOLEAN
  BY <1>1, AtFacts
<1>3. PICK u : (Consume \/ Peek) /\ Go(Resumed("units", u))
  BY <1>1
<1> DEFINE f == Resumed("units", u)
<1>4. f.at = "units" /\ DOMAIN f = DOMAIN Top /\ f.delimiters = Top.delimiters
  BY <1>2, TopEdited DEF TextPlace
<1> HIDE DEF f
<1>5. QED
  BY <1>1, <1>2, <1>3, <1>4, EditStep DEF TextPlace, MarkedPlace, Quiet, f

(* A unit ends here.                                                       *)
LEMMA UnitEndsStep ==
  ASSUME LexerInv, NEW l \in UnitPlace, NEW v, At(l, v), Consume \/ Peek, continuing' \in BOOLEAN,
         UNCHANGED tokens, NEW u, ReturnUnit(u)
  PROVE  LexerInv'
BY AtFacts, Advance, ReturnUnitStep

LEMMA FailsStep ==
  ASSUME LexerInv, NEW l, NEW v, At(l, v), Fail
  PROVE  LexerInv'
BY AtFacts, FailStep

LEMMA SingleQuoteStep ==
  ASSUME LexerInv, SingleQuote
  PROVE  LexerInv'
<1>1. At("single", "none") /\ "single" \in UnitPlace
  BY DEF SingleQuote, UnitPlace
<1>2. Top.at = "single" /\ IsFrame(Top) /\ continuing \in BOOLEAN
  BY <1>1, AtFacts
<1>3. CASE Consume /\ ReturnUnit(SingleQuoted(Top.content)) /\ EnableLineContinuation /\ UNCHANGED tokens
  BY <1>1, <1>3, UnitEndsStep DEF EnableLineContinuation
<1>4. CASE Consume /\ Go([Top EXCEPT !.content = Append(@, NextChar)]) /\ Quiet
  <2> DEFINE f == [Top EXCEPT !.content = Append(@, NextChar)]
  <2>1. f.at = "single" /\ DOMAIN f = DOMAIN Top
    BY <1>2 DEF IsFrame
  <2> HIDE DEF f
  <2>2. QED
    BY <1>1, <1>2, <1>4, <2>1, EditStep DEF MarkedPlace, TextPlace, Quiet, f
<1>5. CASE Fail
  BY <1>1, <1>5, FailsStep
<1>6. QED
  BY <1>3, <1>4, <1>5 DEF SingleQuote

LEMMA DoubleQuoteStep ==
  ASSUME LexerInv, DoubleQuote
  PROVE  LexerInv'
<1>1. At("double", "text") /\ "double" \in UnitPlace
  BY DEF DoubleQuote, UnitPlace
<1>2. continuing \in BOOLEAN
  BY <1>1, AtFacts
<1>3. CASE Consume /\ ReturnUnit(DoubleQuoted(value.units)) /\ Quiet
  BY <1>1, <1>2, <1>3, UnitEndsStep DEF Quiet
<1>4. CASE Fail
  BY <1>1, <1>4, FailsStep
<1>5. QED
  BY <1>3, <1>4 DEF DoubleQuote

LEMMA BackquoteStep ==
  ASSUME LexerInv, Backquote
  PROVE  LexerInv'
<1>1. At("backquote", "none") /\ "backquote" \in UnitPlace
  BY DEF Backquote, UnitPlace
<1>2. Top.at = "backquote" /\ IsFrame(Top) /\ continuing \in BOOLEAN
  BY <1>1, AtFacts
<1>3. CASE Consume /\ Go(To("backquote.escape")) /\ Quiet
  <2>1. To("backquote.escape").at = "backquote.escape" /\ DOMAIN To("backquote.escape") = DOMAIN Top
    BY <1>2, TopEdited
  <2>2. "backquote.escape" \in UnitPlace
    BY DEF UnitPlace
  <2>3. QED
    BY <1>1, <1>2, <1>3, <2>1, <2>2, EditStep DEF MarkedPlace, TextPlace, Quiet
<1>4. CASE Consume /\ ReturnUnit(Backquoted(Top.units)) /\ Quiet
  BY <1>1, <1>2, <1>4, UnitEndsStep DEF Quiet
<1>5. CASE Consume /\ Go(With(Literal(NextChar))) /\ Quiet
  <2> DEFINE f == With(Literal(NextChar))
  <2>1. f.at = "backquote" /\ DOMAIN f = DOMAIN Top
    BY <1>2, TopEdited
  <2> HIDE DEF f
  <2>2. QED
    BY <1>1, <1>2, <1>5, <2>1, EditStep DEF MarkedPlace, TextPlace, Quiet, f
<1>6. CASE Fail
  BY <1>1, <1>6, FailsStep
<1>7. QED
  BY <1>3, <1>4, <1>5, <1>6 DEF Backquote

LEMMA BackquoteEscapeStep ==
  ASSUME LexerInv, BackquoteEscape
  PROVE  LexerInv'
<1>1. /\ At("backquote.escape", "none") /\ Quiet
      /\ \E u : (Consume \/ Peek) /\ Go(Resumed("backquote", u))
  BY DEF BackquoteEscape, ConsumeIf, NoneOf
<1>2. Top.at = "backquote.escape" /\ IsFrame(Top) /\ continuing \in BOOLEAN
      /\ "backquote.escape" \in UnitPlace /\ "backquote" \in UnitPlace
  BY <1>1, AtFacts DEF UnitPlace
<1>3. PICK u : (Consume \/ Peek) /\ Go(Resumed("backquote", u))
  BY <1>1
<1> DEFINE f == Resumed("backquote", u)
<1>4. f.at = "backquote" /\ DOMAIN f = DOMAIN Top
  BY <1>2, TopEdited
<1> HIDE DEF f
<1>5. QED
  BY <1>1, <1>2, <1>3, <1>4, EditStep DEF TextPlace, MarkedPlace, Quiet, f

(* Going back to the mark                                                  *)
LEMMA RewindFacts ==
  ASSUME LexerInv, NEW l \in MarkedPlace, NEW v, At(l, v), Rewind(Top.mark), continuing' \in BOOLEAN
  PROVE  Turn /\ index' = Top.mark /\ Top.mark \in Nat
<1>1. /\ Top.at = l /\ index \in Nat /\ Len(source) \in Nat /\ index < Len(source)
      /\ outcome = "none" /\ input' = input /\ source' = source
  BY AtFacts
<1>2. Marked(Top)
  BY <1>1 DEF Marked
<1>3. Above(Front(stack), tokens, Top.mark) /\ Top.mark \in Nat /\ Top.mark <= index
  BY <1>2, GoesBack
<1>4. index' = Top.mark
  BY DEF Rewind
<1>5. Top.mark \in 0 .. Len(source)
  BY <1>1, <1>3
<1>6. QED
  BY <1>1, <1>3, <1>4, <1>5 DEF Turn

(* What reads a unit goes on in another frame.                             *)
LEMMA GoUnitStep ==
  ASSUME LexerInv, Turn, UNCHANGED tokens, Top.at \in UnitPlace,
         NEW f, Go(f), f.at \in UnitPlace, IsFrame(f), MarkKept(Top, f, index, index')
  PROVE  LexerInv'
<1>1. Follows(Top, f)
  BY DEF Follows, TextPlace, UnitPlace
<1>2. input.start # "operator"
  BY TopFrame DEF UnitPlace
<1>3. QED
  BY <1>1, <1>2, GoStep

LEMMA DollarFrameFacts ==
  ASSUME NEW l \in MarkedPlace \cap UnitPlace, NEW mark \in Nat
  PROVE  /\ IsFrame(DollarFrame(l, mark)) /\ Marked(DollarFrame(l, mark))
         /\ DollarFrame(l, mark).at = l /\ DollarFrame(l, mark).mark = mark
<1> DEFINE f == DollarFrame(l, mark)
<1>1. f.at = l /\ f.mark = mark /\ "mark" \in DOMAIN f /\ "at" \in DOMAIN f
  BY DEF DollarFrame
<1>2. l \in MarkedPlace /\ l # "heredoc" /\ l \notin TextPlace
  BY DEF UnitPlace, TextPlace
<1> HIDE DEF f
<1>3. IsFrame(f) /\ Marked(f)
  BY <1>1, <1>2 DEF IsFrame, Marked
<1>4. QED
  BY <1>1, <1>3 DEF f

LEMMA DollarStep ==
  ASSUME LexerInv, Dollar
  PROVE  LexerInv'
<1>1. At("dollar", "none") /\ Quiet
  BY DEF Dollar
<1>2. "dollar" \in MarkedPlace /\ "dollar" \in UnitPlace
  BY DEF MarkedPlace, UnitPlace
<1>3. Top.at = "dollar" /\ IsFrame(Top) /\ index \in Nat /\ continuing' \in BOOLEAN
  BY <1>1, AtFacts DEF Quiet
<1>4. CASE Consume /\ ReturnUnit(RawParam(<<NextChar>>))
  BY <1>1, <1>2, <1>3, <1>4, UnitEndsStep DEF Quiet
<1>5. CASE Consume /\ Go([at |-> "name", name |-> <<NextChar>>])
  <2> DEFINE f == [at |-> "name", name |-> <<NextChar>>]
  <2>1. f.at \in UnitPlace /\ IsFrame(f) /\ ~Marked(f)
    BY DEF IsFrame, Marked, MarkedPlace, TextPlace, UnitPlace
  <2>2. MarkKept(Top, f, index, index')
    BY <2>1 DEF MarkKept
  <2> HIDE DEF f
  <2>3. QED
    BY <1>1, <1>2, <1>3, <1>5, <2>1, <2>2, Advance, GoUnitStep DEF Quiet, f
<1>6. ASSUME NEW l \in MarkedPlace \cap UnitPlace, NEW mark \in index .. index + 1,
             Consume, Go(DollarFrame(l, mark))
      PROVE  LexerInv'
  <2> DEFINE f == DollarFrame(l, mark)
  <2>1. f.at = l /\ IsFrame(f) /\ f.mark = mark
    BY <1>3, <1>6, DollarFrameFacts
  <2>2. MarkKept(Top, f, index, index')
    BY <1>3, <1>6, <2>1 DEF MarkKept, Consume
  <2> HIDE DEF f
  <2>3. QED
    BY <1>1, <1>2, <1>3, <1>6, <2>1, <2>2, Advance, GoUnitStep DEF Quiet, f
<1>7. CASE Consume /\ Go(DollarFrame("prefix", index + 1))
  BY <1>3, <1>6, <1>7 DEF MarkedPlace, UnitPlace
<1>8. CASE Consume /\ Go(DollarFrame("arith.open", index))
  BY <1>3, <1>6, <1>8 DEF MarkedPlace, UnitPlace
<1>9. CASE Rewind(Top.mark) /\ Return(NotFound)
  <2>1. Turn
    BY <1>1, <1>2, <1>3, <1>9, RewindFacts
  <2>2. UNCHANGED tokens
    BY <1>1 DEF Quiet
  <2>3. QED
    BY <1>2, <1>3, <1>9, <2>1, <2>2, NotFoundStep
<1>10. QED
  BY <1>4, <1>5, <1>7, <1>8, <1>9 DEF Dollar, ConsumeIf

LEMMA TopNamed ==
  ASSUME IsFrame(Top), NEW l
  PROVE  /\ Named(l).at = l /\ DOMAIN Named(l) = DOMAIN Top
         /\ Operated(l).at = l /\ DOMAIN Operated(l) = DOMAIN Top
BY DEF Named, Operated, IsFrame

(* Both the place that the frame is at and the next one have no mark.      *)
UnmarkedUnitPlace == UnitPlace \ MarkedPlace

LEMMA NextUnmarkedStep ==
  ASSUME LexerInv, NEW l \in UnmarkedUnitPlace, NEW v, At(l, v), Consume \/ Peek, Quiet,
         NEW m \in UnmarkedUnitPlace, NEW f, Go(f), f.at = m, DOMAIN f = DOMAIN Top
  PROVE  LexerInv'
<1>1. l \notin TextPlace /\ l \notin {"from_str", "heredoc"} /\ l # "operator"
  BY DEF UnmarkedUnitPlace, UnitPlace, TextPlace
<1>2. continuing' \in BOOLEAN /\ UNCHANGED tokens
  BY AtFacts DEF Quiet
<1>3. QED
  BY <1>1, <1>2, EditStep DEF UnmarkedUnitPlace

LEMMA NameStep ==
  ASSUME LexerInv, Name
  PROVE  LexerInv'
<1>1. At("name", "none") /\ Quiet
  BY DEF Name
<1>2. "name" \in UnmarkedUnitPlace /\ "name" \in UnitPlace
  BY DEF UnmarkedUnitPlace, MarkedPlace, UnitPlace
<1>3. Top.at = "name" /\ IsFrame(Top) /\ continuing' \in BOOLEAN
  BY <1>1, AtFacts DEF Quiet
<1>4. CASE Consume /\ Go(Named(Top.at))
  BY <1>1, <1>2, <1>3, <1>4, TopNamed, NextUnmarkedStep
<1>5. CASE Peek /\ ReturnUnit(RawParam(Top.name))
  BY <1>1, <1>2, <1>3, <1>5, UnitEndsStep DEF Quiet
<1>6. QED
  BY <1>4, <1>5 DEF Name, ConsumeIf, NoneOf

LEMMA LengthPrefixStep ==
  ASSUME LexerInv, LengthPrefix
  PROVE  LexerInv'
<1>1. Quiet /\ UNCHANGED tokens
  BY DEF LengthPrefix, Quiet
<1>2. /\ {"prefix", "prefix.first", "prefix.second"} \subseteq MarkedPlace \cap UnitPlace
      /\ {"prefix.consume", "param"} \subseteq UnmarkedUnitPlace
      /\ {"prefix", "prefix.first", "prefix.second"} \cap TextPlace = {}
  BY DEF MarkedPlace, UnitPlace, UnmarkedUnitPlace, TextPlace
<1>3. ASSUME NEW l \in {"prefix", "prefix.first", "prefix.second"},
             NEW m \in {"prefix", "prefix.first", "prefix.second"},
             At(l, "none"), Consume, Go(To(m))
      PROVE  LexerInv'
  <2>1. Top.at = l /\ IsFrame(Top) /\ continuing' \in BOOLEAN /\ Marked(Top)
    BY <1>1, <1>2, <1>3, AtFacts DEF Quiet, Marked
  <2>2. To(m).at = m /\ DOMAIN To(m) = DOMAIN Top /\ To(m).mark = Top.mark
    BY <2>1, TopEdited
  <2>3. l \notin {"from_str", "heredoc"} /\ l # "operator"
    OBVIOUS
  <2>4. /\ l \in UnitPlace /\ To(m).at \in UnitPlace /\ l \in MarkedPlace /\ To(m).at \in MarkedPlace
        /\ l \notin TextPlace
    BY <1>2, <2>2
  <2>5. QED
    BY <1>1, <1>3, <2>1, <2>2, <2>3, <2>4, EditStep
<1>4. ASSUME NEW l \in {"prefix", "prefix.first", "prefix.second"}, At(l, "none"), NoPrefix \/ Prefix
      PROVE  LexerInv'
  <2>1. PICK m \in {"param", "prefix.consume"}, length \in BOOLEAN :
             Rewind(Top.mark) /\ Go(ParamFrame(m, length))
    BY <1>4 DEF NoPrefix, Prefix
  <2> DEFINE f == ParamFrame(m, length)
  <2>2. f.at = m /\ "at" \in DOMAIN f /\ "mark" \notin DOMAIN f
    BY DEF ParamFrame
  <2> HIDE DEF f
  <2>3. IsFrame(f) /\ ~Marked(f) /\ f.at \in UnitPlace
    BY <1>2, <2>2 DEF IsFrame, Marked, MarkedPlace, TextPlace, UnmarkedUnitPlace
  <2>4. Top.at = l /\ continuing' \in BOOLEAN
    BY <1>1, <1>4, AtFacts DEF Quiet
  <2>5. Turn
    BY <1>2, <1>4, <2>1, <2>4, RewindFacts
  <2>6. MarkKept(Top, f, index, index')
    BY <2>3 DEF MarkKept
  <2>7. QED
    BY <1>1, <1>2, <2>1, <2>3, <2>4, <2>5, <2>6, GoUnitStep DEF f
<1>5. CASE At("prefix.consume", "none") /\ Consume /\ Go(To("param"))
  <2>1. IsFrame(Top)
    BY <1>5, AtFacts
  <2>2. QED
    BY <1>1, <1>2, <1>5, <2>1, TopEdited, NextUnmarkedStep
<1>6. QED
  BY <1>3, <1>4, <1>5 DEF LengthPrefix

LEMMA BracedParamStep ==
  ASSUME LexerInv, BracedParam
  PROVE  LexerInv'
<1>1. {"param", "param.name", "suffix"} \subseteq UnmarkedUnitPlace
  BY DEF UnmarkedUnitPlace, UnitPlace, MarkedPlace
<1>2. CASE At("param", "none") /\ Consume /\ Go(Named("suffix")) /\ Quiet
  BY <1>1, <1>2, AtFacts, TopNamed, NextUnmarkedStep
<1>3. CASE At("param", "none") /\ Consume /\ Go(Named("param.name")) /\ Quiet
  BY <1>1, <1>3, AtFacts, TopNamed, NextUnmarkedStep
<1>4. CASE At("param", "none") /\ Fail
  BY <1>4, FailsStep
<1>5. CASE At("param", "none") /\ Peek /\ End("panic") /\ Quiet
  BY <1>5, AtFacts, EndStep DEF Peek, Quiet, Outcome
<1>6. CASE At("param.name", "none") /\ Quiet /\ Consume /\ Go(Named("param.name"))
  BY <1>1, <1>6, AtFacts, TopNamed, NextUnmarkedStep
<1>7. CASE At("param.name", "none") /\ Quiet /\ Peek /\ Go(To("suffix"))
  BY <1>1, <1>7, AtFacts, TopEdited, NextUnmarkedStep
<1>8. QED
  BY <1>2, <1>3, <1>4, <1>5, <1>6, <1>7 DEF BracedParam, ConsumeIf, NoneOf

(* The word of a modifier is called.                                       *)
LEMMA CallWordStep ==
  ASSUME LexerInv, NEW l \in UnmarkedUnitPlace, NEW v, At(l, v), Consume \/ Peek, Quiet,
         NEW m \in {"switch", "trim"}, NEW f, f.at = m, DOMAIN f = DOMAIN Top,
         NEW context, NEW delimiters, Call(f, <<WordFrame(context, delimiters)>>)
  PROVE  LexerInv'
<1> DEFINE g == WordFrame(context, delimiters)
<1>1. /\ Top.at = l /\ IsFrame(Top) /\ continuing' \in BOOLEAN
      /\ l \notin {"from_str", "operator"} => input.start # "operator"
  BY AtFacts DEF Quiet
<1>2. /\ l \notin {"from_str", "operator"} /\ l \in UnitPlace /\ f.at \in UnitPlace
      /\ ~Marked(Top) /\ ~Marked(f) /\ f.at \notin TextPlace /\ l \notin TextPlace
  BY <1>1 DEF UnmarkedUnitPlace, UnitPlace, MarkedPlace, TextPlace, Marked
<1>3. Turn
  BY <1>1, Advance
<1>4. IsFrame(f)
  BY <1>1, <1>2 DEF IsFrame
<1>5. Follows(Top, f) /\ MarkKept(Top, f, index, index')
  BY <1>1, <1>2, <1>4 DEF Follows, MarkKept
<1>6. g.at = "units" /\ IsFrame(g) /\ ~Marked(g)
  BY DEF WordFrame, UnitsFrame, IsFrame, Marked, MarkedPlace, TextPlace
<1> HIDE DEF g
<1>7. CalledFrom(f, g, index, index')
  BY <1>6 DEF CalledFrom, IsCallee, Callees, TextPlace
<1>8. QED
  BY <1>1, <1>2, <1>3, <1>5, <1>7, CallStep DEF Quiet, g

LEMMA SuffixStep ==
  ASSUME LexerInv, Suffix
  PROVE  LexerInv'
<1>1. {"suffix", "suffix.colon", "trim.length", "brace.close"} \subseteq UnmarkedUnitPlace
  BY DEF UnmarkedUnitPlace, UnitPlace, MarkedPlace
<1>2. CASE At("suffix", "none") /\ Consume /\ Go(Operated("suffix.colon")) /\ Quiet
  BY <1>1, <1>2, AtFacts, TopNamed, NextUnmarkedStep
<1>3. ASSUME NEW l \in {"suffix", "suffix.colon"}, At(l, "none"), Consume, Quiet,
             Call(Operated("switch"), <<WordFrame(Top.context, {"}"})>>)
      PROVE  LexerInv'
  BY <1>1, <1>3, AtFacts, TopNamed, CallWordStep
<1>4. CASE At("suffix", "none") /\ Consume /\ Go(Operated("trim.length")) /\ Quiet
  BY <1>1, <1>4, AtFacts, TopNamed, NextUnmarkedStep
<1>5. CASE At("suffix", "none") /\ Peek /\ Go(To("brace.close")) /\ Quiet
  BY <1>1, <1>5, AtFacts, TopEdited, NextUnmarkedStep
<1>6. CASE At("suffix.colon", "none") /\ Fail
  BY <1>6, FailsStep
<1>7. QED
  BY <1>2, <1>3, <1>4, <1>5, <1>6 DEF Suffix, SuffixNotFound, ConsumeIf, NoneOf

LEMMA TrimStep ==
  ASSUME LexerInv, Trim
  PROVE  LexerInv'
<1>1. At("trim.length", "none") /\ Quiet /\ "trim.length" \in UnmarkedUnitPlace
  BY DEF Trim, UnmarkedUnitPlace, UnitPlace, MarkedPlace
<1>2. CASE Consume /\ Call(Operated("trim"), <<WordFrame("Word", {"}"})>>)
  BY <1>1, <1>2, AtFacts, TopNamed, CallWordStep
<1>3. CASE Peek /\ Call(To("trim"), <<WordFrame("Word", {"}"})>>)
  BY <1>1, <1>3, AtFacts, TopEdited, CallWordStep
<1>4. QED
  BY <1>2, <1>3 DEF Trim

LEMMA BraceCloseStep ==
  ASSUME LexerInv, BraceClose
  PROVE  LexerInv'
<1>1. PICK l \in {"brace.close", "switch", "trim"}, v \in {"none", "text"} : At(l, v)
  BY DEF BraceClose
<1>2. l \in UnitPlace /\ continuing \in BOOLEAN
  BY <1>1, AtFacts DEF UnitPlace
<1>3. CASE Consume /\ ReturnUnit(Param(Top.name, ModifierOf(Top))) /\ Quiet
  BY <1>1, <1>2, <1>3, UnitEndsStep DEF Quiet
<1>4. CASE Fail
  BY <1>1, <1>4, FailsStep
<1>5. QED
  BY <1>3, <1>4 DEF BraceClose

LEMMA ArithFrameFacts ==
  ASSUME LexerInv, Marked(Top), NEW depth, NEW units
  PROVE  /\ ArithFrame(depth, units).at = "arith" /\ ArithFrame(depth, units).mark = Top.mark
         /\ IsFrame(ArithFrame(depth, units))
         /\ ArithText.at = "units" /\ ArithText.delimiters = {"(", ")"}
         /\ IsFrame(ArithText) /\ ~Marked(ArithText)
<1>1. Top.mark \in Nat
  BY GoesBack
<1>2. /\ ArithFrame(depth, units).at = "arith" /\ ArithFrame(depth, units).mark = Top.mark
      /\ IsFrame(ArithFrame(depth, units))
  BY <1>1 DEF ArithFrame, IsFrame, Marked, MarkedPlace, TextPlace
<1>3. /\ ArithText.at = "units" /\ ArithText.delimiters = {"(", ")"}
      /\ DOMAIN ArithText = {"at", "context", "word", "delimiters", "escapable", "units"}
  BY DEF ArithText, TextFrame, UnitsFrame
<1>4. IsFrame(ArithText) /\ ~Marked(ArithText)
  BY <1>3 DEF IsFrame, Marked, MarkedPlace, TextPlace
<1>5. QED
  BY <1>2, <1>3, <1>4

(* Another part of the content of an arithmetic expansion is read.         *)
LEMMA CallArithTextStep ==
  ASSUME LexerInv, NEW l \in {"arith.open", "arith"}, NEW v, At(l, v), Consume, Quiet,
         NEW depth, NEW units, Call(ArithFrame(depth, units), <<ArithText>>)
  PROVE  LexerInv'
<1> DEFINE f == ArithFrame(depth, units)
<1>1. /\ Top.at = l /\ IsFrame(Top) /\ continuing' \in BOOLEAN /\ Marked(Top)
      /\ input.start # "operator"
  BY AtFacts DEF Quiet, Marked, MarkedPlace
<1>2. Turn /\ Top.mark \in Nat /\ Top.mark <= index'
  BY <1>1, Advance
<1>3. /\ f.at = "arith" /\ f.mark = Top.mark /\ IsFrame(f)
      /\ ArithText.at = "units" /\ ArithText.delimiters = {"(", ")"}
      /\ IsFrame(ArithText) /\ ~Marked(ArithText)
  BY <1>1, ArithFrameFacts
<1> HIDE DEF f
<1>4. Follows(Top, f) /\ MarkKept(Top, f, index, index')
  BY <1>1, <1>2, <1>3 DEF Follows, MarkKept, UnitPlace, TextPlace
<1>5. CalledFrom(f, ArithText, index, index')
  BY <1>3 DEF CalledFrom, IsCallee, Callees, TextPlace
<1>6. QED
  BY <1>1, <1>2, <1>4, <1>5, CallStep DEF Quiet, f

(* What is no arithmetic expansion is read again from the first `(` on.    *)
LEMMA FallbackStep ==
  ASSUME LexerInv, NEW l \in {"arith.open", "arith.close"}, NEW v, At(l, v), Rewind(Top.mark), Quiet,
         Go(Fallback)
  PROVE  LexerInv'
<1>1. /\ Top.at = l /\ continuing' \in BOOLEAN /\ l \in MarkedPlace /\ l \in UnitPlace
      /\ UNCHANGED tokens
  BY AtFacts DEF Quiet, MarkedPlace, UnitPlace
<1>2. Turn /\ index' = Top.mark /\ Top.mark \in Nat
  BY <1>1, RewindFacts
<1>3. /\ IsFrame(Fallback) /\ Fallback.at = "command" /\ Fallback.mark = Top.mark
      /\ "command" \in UnitPlace
  BY <1>2, DollarFrameFacts DEF Fallback, MarkedPlace, UnitPlace
<1>4. MarkKept(Top, Fallback, index, index')
  BY <1>1, <1>2, <1>3 DEF MarkKept, Marked
<1>5. QED
  BY <1>1, <1>2, <1>3, <1>4, GoUnitStep

LEMMA ArithOpenStep ==
  ASSUME LexerInv, ArithOpen
  PROVE  LexerInv'
<1>1. At("arith.open", "none") /\ Quiet
  BY DEF ArithOpen
<1>2. CASE Consume /\ Call(ArithFrame(0, <<>>), <<ArithText>>)
  BY <1>1, <1>2, CallArithTextStep
<1>3. CASE Rewind(Top.mark) /\ Go(Fallback)
  BY <1>1, <1>3, FallbackStep
<1>4. QED
  BY <1>2, <1>3 DEF ArithOpen

LEMMA ArithContentStep ==
  ASSUME LexerInv, ArithContent
  PROVE  LexerInv'
<1> DEFINE units == Top.units \o value.units
<1>1. At("arith", "text")
  BY DEF ArithContent
<1>2. Top.at = "arith" /\ value.kind = "text" /\ IsFrame(Top) /\ continuing \in BOOLEAN
  BY <1>1, AtFacts
<1>3. NextChar \in {"(", ")", EndOfInput}
  BY <1>2 DEF LexerInv, ArithTextEnds
<1>4. ASSUME NEW depth, Consume, Quiet,
             Call(ArithFrame(depth, Append(units, Literal(NextChar))), <<ArithText>>)
      PROVE  LexerInv'
  BY <1>1, <1>4, CallArithTextStep
<1>5. CASE Consume /\ Go([Top EXCEPT !.at = "arith.close", !.units = units]) /\ Quiet
  <2> DEFINE f == [Top EXCEPT !.at = "arith.close", !.units = units]
  <2>1. "mark" \in DOMAIN Top /\ "at" \in DOMAIN Top
    BY <1>2 DEF IsFrame, Marked, MarkedPlace
  <2>2. f.at = "arith.close" /\ DOMAIN f = DOMAIN Top /\ f.mark = Top.mark
    BY <2>1
  <2> HIDE DEF f
  <2>3. /\ {"arith", "arith.close"} \subseteq UnitPlace \cap MarkedPlace
        /\ "arith" \notin TextPlace
    BY DEF UnitPlace, MarkedPlace, TextPlace
  <2>4. QED
    BY <1>1, <1>2, <1>5, <2>2, <2>3, EditStep DEF Quiet, f
<1>6. CASE Fail
  BY <1>1, <1>6, FailsStep
<1>7. ~ (NextChar \notin {"(", ")", EndOfInput} /\ Top.depth = 0)
  BY <1>3
<1> HIDE DEF units
<1>8. QED
  BY <1>4, <1>5, <1>6, <1>7 DEF ArithContent, units

LEMMA ArithCloseStep ==
  ASSUME LexerInv, ArithClose
  PROVE  LexerInv'
<1>1. At("arith.close", "none") /\ "arith.close" \in UnitPlace
  BY DEF ArithClose, UnitPlace
<1>2. CASE Consume /\ ReturnUnit(Arith(Top.units)) /\ Quiet
  BY <1>1, <1>2, AtFacts, UnitEndsStep DEF Quiet
<1>3. CASE Fail
  BY <1>1, <1>3, FailsStep
<1>4. CASE Rewind(Top.mark) /\ Go(Fallback) /\ Quiet
  BY <1>1, <1>4, FallbackStep
<1>5. QED
  BY <1>2, <1>3, <1>4 DEF ArithClose

LEMMA CommandSubstitutionStep ==
  ASSUME LexerInv, CommandSubstitution
  PROVE  LexerInv'
<1>1. CASE /\ At("command", "none") /\ Consume /\ Quiet
           /\ Call([at |-> "command.close", mark |-> index'], <<ListFrame(FALSE)>>)
  <2> DEFINE f == [at |-> "command.close", mark |-> index']
             g == ListFrame(FALSE)
  <2>1. /\ Top.at = "command" /\ continuing' \in BOOLEAN /\ input.start # "operator"
        /\ UNCHANGED tokens
    BY <1>1, AtFacts DEF Quiet
  <2>2. Turn /\ index' \in Nat /\ index <= index'
    BY <1>1, <2>1, Advance
  <2>3. /\ f.at = "command.close" /\ f.mark = index' /\ IsFrame(f)
    BY <2>2 DEF IsFrame, Marked, MarkedPlace, TextPlace
  <2>4. g.at = "list" /\ IsFrame(g) /\ ~Marked(g)
    BY DEF ListFrame, IsFrame, Marked, MarkedPlace, TextPlace
  <2>5. Call(f, <<g>>)
    BY <1>1
  <2> HIDE DEF f, g
  <2>6. Follows(Top, f) /\ MarkKept(Top, f, index, index')
    BY <2>1, <2>2, <2>3 DEF Follows, MarkKept, UnitPlace, TextPlace
  <2>7. CalledFrom(f, g, index, index')
    BY <2>3, <2>4 DEF CalledFrom, IsCallee, Callees
  <2>8. QED
    BY <2>1, <2>2, <2>5, <2>6, <2>7, CallStep
<1>2. CASE At("command.close", "none") /\ Consume /\ Quiet
           /\ ReturnUnit(CommandSubst(SourceString(Top.mark)))
  <2>1. "command.close" \in UnitPlace
    BY DEF UnitPlace
  <2>2. QED
    BY <1>2, <2>1, AtFacts, UnitEndsStep DEF Quiet
<1>3. CASE At("command.close", "none") /\ Fail
  BY <1>3, FailsStep
<1>4. QED
  BY <1>1, <1>2, <1>3 DEF CommandSubstitution

(* The caller of Lexer::token is at the bottom or reads a command          *)
(* substitution.                                                           *)
LEMMA BottomFrame ==
  ASSUME NEW s, NEW start, WellStacked(s, start), s # <<>>,
         Last(s).at \in {"tokens", "from_str"}
  PROVE  /\ Len(s) = 1 /\ Last(s) = s[1]
         /\ \A i \in 1 .. Len(s) : ~Marked(s[i])
<1>1. Len(s) \in Nat \ {0} /\ Last(s) = s[Len(s)]
  BY FrontElements DEF WellStacked
<1>2. Len(s) \in 1 .. Len(s)
  BY <1>1
<1>3. Len(s) # 1 => s[Len(s)].at \in Callees(s[Len(s) - 1].at)
  BY <1>2 DEF WellStacked, IsCallee
<1>4. Len(s) = 1
  BY <1>1, <1>3 DEF Callees, TokenPlace, TextPlace, UnitPlace
<1>5. ~Marked(s[1])
  BY <1>1, <1>4 DEF Marked, MarkedPlace
<1>6. QED
  BY <1>1, <1>4, <1>5

LEMMA RequireTokenStep ==
  ASSUME LexerInv, RequireToken
  PROVE  LexerInv'
<1>1. /\ Top.at \in {"tokens", "list"} /\ outcome = "none"
      /\ UNCHANGED <<input, source, continuing, index, tokens>>
      /\ Call(Top, <<BlanksFrame>>)
  BY DEF RequireToken, Calls, Peek
<1>2. IsFrame(Top) /\ index \in Nat /\ index' = index /\ input.start # "operator"
      /\ Len(source) \in Nat /\ index <= Len(source)
  BY <1>1, TopFrame
<1>3. Turn
  BY <1>1, <1>2, GoesForward DEF Turn, LexerInv, Types
<1>4. Follows(Top, Top) /\ MarkKept(Top, Top, index, index')
  BY <1>1, <1>2 DEF Follows, MarkKept, Marked, MarkedPlace
<1>5. CalledFrom(Top, BlanksFrame, index, index')
  <2>1. BlanksFrame.at = "blanks" /\ IsFrame(BlanksFrame) /\ ~Marked(BlanksFrame)
    BY DEF BlanksFrame, IsFrame, Marked, MarkedPlace, TextPlace
  <2>2. QED
    BY <1>1, <2>1 DEF CalledFrom, IsCallee, Callees, TokenPlace
<1>6. QED
  BY <1>1, <1>2, <1>3, <1>4, <1>5, CallStep

(* The caller at the bottom may take tokens, which are behind no mark.     *)
LEMMA MoreTokens ==
  ASSUME NEW s, NEW start, WellStacked(s, start), s # <<>>, Last(s).at \in {"tokens", "from_str"},
         NEW ts, NEW n \in Nat, NEW t, TokensHavePlace(ts), Above(<<>>, ts, n), IsToken(t), t.end <= n
  PROVE  /\ TokensHavePlace(Append(ts, t))
         /\ MarksInOrder(s, Append(ts, t), n)
<1>1. /\ Len(s) = 1
      /\ \A i \in 1 .. Len(s) : ~Marked(s[i])
  BY BottomFrame
<1>2. /\ IsSeq(Append(ts, t)) /\ Len(ts) \in Nat
      /\ Len(Append(ts, t)) = Len(ts) + 1
      /\ \A i \in 1 .. Len(ts) : Append(ts, t)[i] = ts[i]
      /\ Append(ts, t)[Len(ts) + 1] = t
  BY AppendElements DEF TokensHavePlace, IsSeq
<1>3. \A k \in 1 .. Len(ts) + 1 : k \in 1 .. Len(ts) \/ k = Len(ts) + 1
  BY <1>2
<1>4. \A k \in 1 .. Len(ts) : ts[k].end <= n /\ IsToken(ts[k])
  BY DEF Above, TokensHavePlace
<1>5. \A k \in 1 .. Len(ts) + 1 : Append(ts, t)[k].end <= n /\ IsToken(Append(ts, t)[k])
  BY <1>2, <1>3, <1>4
<1>6. TokensHavePlace(Append(ts, t))
  BY <1>2, <1>5 DEF TokensHavePlace
<1>7. Above(s, Append(ts, t), n)
  BY <1>1, <1>2, <1>5 DEF Above
<1>8. MarksInOrder(s, Append(ts, t), n)
  BY <1>1, <1>7 DEF MarksInOrder
<1>9. QED
  BY <1>6, <1>8

LEMMA TokensEnd ==
  ASSUME LexerInv
  PROVE  Above(<<>>, tokens, index)
BY DEF LexerInv, MarksInOrder, Above

LEMMA TakeTokenStep ==
  ASSUME LexerInv, TakeToken
  PROVE  LexerInv'
<1>1. /\ Top.at = "tokens" /\ outcome = "none" /\ value # NoValue
      /\ UNCHANGED <<input, source, continuing, index>>
      /\ tokens' = Append(tokens, value)
  BY DEF TakeToken, Calls, Peek
<1>2. /\ IsFrame(Top) /\ Top = stack[Len(stack)] /\ index \in Nat /\ input.start # "operator"
  BY <1>1, TopFrame
<1>3. IsToken(value) /\ value.end <= index
  BY <1>1, <1>2 DEF LexerInv, ValueFits, ReturnedToken
<1>4. WellStacked(stack, input.start) /\ stack # <<>> /\ TokensHavePlace(tokens)
      /\ Last(stack).at = "tokens"
  BY <1>1 DEF LexerInv, Top
<1>5. TokensHavePlace(tokens') /\ MarksInOrder(stack, tokens', index')
  BY <1>1, <1>2, <1>3, <1>4, MoreTokens, TokensEnd
<1>6. ASSUME NEW o \in {"done", "syntax error"}, End(o)
      PROVE  LexerInv'
  <2>1. UNCHANGED <<stack, value>> /\ outcome' = o
    BY <1>6 DEF End
  <2>2. Types'
    BY <1>1, <1>6, <2>1 DEF LexerInv, Types, Outcome
  <2>3. ArithTextEnds'
    BY <1>1, <2>1 DEF ArithTextEnds, Top
  <2>4. outcome' # "none"
    BY <1>6, <2>1
  <2>5. QED
    BY <1>1, <1>4, <1>5, <2>1, <2>2, <2>3, <2>4 DEF LexerInv
<1>7. ASSUME NEW f, Go(f), f.at = "tokens", DOMAIN f = DOMAIN Top
      PROVE  LexerInv'
  <2>1. stack' = Append(Front(stack), f) /\ value' = NoValue /\ outcome' = outcome
    BY <1>7 DEF Go
  <2>2. IsFrame(f) /\ ~Marked(f)
    BY <1>1, <1>2, <1>7 DEF IsFrame, Marked, MarkedPlace, TextPlace
  <2>3. Follows(Last(stack), f) /\ MarkKept(Last(stack), f, index, index')
    BY <1>1, <1>2, <1>4, <1>7, <2>2 DEF Follows, MarkKept, TextPlace
  <2>4. Above(Front(stack), tokens', index')
    <3>1. IsSeq(stack)
      BY <1>4 DEF WellStacked
    <3>2. /\ Len(Front(stack)) = Len(stack) - 1
          /\ Len(stack) = 1
      BY <1>4, <3>1, FrontElements, BottomFrame
    <3>3. QED
      BY <1>5, <3>2 DEF Above, MarksInOrder
  <2>5. /\ WellStacked(Front(stack), input.start)
        /\ MarksInOrder(Front(stack), tokens', index')
        /\ CanPush(Front(stack), tokens', f, index', input.start)
    BY <1>1, <1>2, <1>4, <1>5, <2>3, <2>4, ReplaceFrame
  <2>6. WellStacked(stack', input.start) /\ MarksInOrder(stack', tokens', index') /\ stack' # <<>>
    BY <1>1, <1>2, <2>1, <2>5, PushFrame
  <2>7. Types'
    BY <1>1, <2>1 DEF LexerInv, Types
  <2>8. value'.kind = "none"
    BY <2>1 DEF NoValue
  <2>9. ValueFits(value', stack', tokens', index') /\ ArithTextEnds'
    BY <2>1, <2>8 DEF ValueFits, ArithTextEnds
  <2>10. QED
    BY <1>1, <1>5, <2>6, <2>7, <2>9 DEF LexerInv
<1>8. CASE End("done") \/ End("syntax error")
  BY <1>6, <1>8
<1>9. CASE Go(Top)
  BY <1>1, <1>7, <1>9
<1>10. CASE Go([Top EXCEPT !.unread = Append(@, [delimiter |-> value.word,
                                                 remove_tabs |-> Len(Last(tokens).key) = 3])])
  <2> DEFINE f == [Top EXCEPT !.unread = Append(@, [delimiter |-> value.word,
                                                    remove_tabs |-> Len(Last(tokens).key) = 3])]
  <2>1. f.at = "tokens" /\ DOMAIN f = DOMAIN Top
    BY <1>1, <1>2 DEF IsFrame
  <2> HIDE DEF f
  <2>2. QED
    BY <1>7, <1>10, <2>1 DEF f
<1>11. QED
  BY <1>8, <1>9, <1>10 DEF TakeToken

LEMMA LineFrameFacts ==
  ASSUME NEW delimiter
  PROVE  /\ IsFrame(LineFrame(delimiter)) /\ ~Marked(LineFrame(delimiter))
         /\ LineFrame(delimiter).at \in {"line", "units"}
<1>1. CASE IsQuoted(delimiter)
  BY <1>1 DEF LineFrame, IsFrame, Marked, MarkedPlace, TextPlace
<1>2. CASE ~IsQuoted(delimiter)
  <2>1. /\ LineFrame(delimiter).at = "units"
        /\ DOMAIN LineFrame(delimiter) = {"at", "context", "word", "delimiters", "escapable", "units"}
    BY <1>2 DEF LineFrame, TextFrame, UnitsFrame
  <2>2. QED
    BY <2>1 DEF IsFrame, Marked, MarkedPlace, TextPlace
<1>3. QED
  BY <1>1, <1>2

LEMMA HereDocContentsStep ==
  ASSUME LexerInv, HereDocContents
  PROVE  LexerInv'
<1> DEFINE here_doc == Head(Top.unread)
           g == [at |-> "heredoc", begin |-> index, mark |-> index, content |-> <<>>,
                 delimiter |-> here_doc.delimiter, remove_tabs |-> here_doc.remove_tabs]
           f == [Top EXCEPT !.unread = Tail(@)]
           h == LineFrame(here_doc.delimiter)
           s == Append(Append(Append(Front(stack), f), g), h)
<1>1. /\ outcome = "none" /\ Top.at = "tokens" /\ value = NoValue
      /\ UNCHANGED <<input, source, index, tokens, value, outcome>>
      /\ continuing' \in BOOLEAN
  BY DEF HereDocContents, AtHereDoc, Peek, IsQuoted
<1>2. stack' = Front(stack) \o <<f, g, h>>
  <2>1. g.delimiter = here_doc.delimiter
    OBVIOUS
  <2>2. QED
    BY <2>1 DEF HereDocContents
<1>3. IsFrame(Top) /\ index \in Nat /\ index' = index /\ input.start # "operator"
      /\ Len(source) \in Nat /\ index <= Len(source)
  BY <1>1, TopFrame
<1>4. Turn
  BY <1>1, <1>3, GoesForward DEF Turn
<1>5. f.at = "tokens" /\ DOMAIN f = DOMAIN Top
  BY <1>1, <1>3 DEF IsFrame
<1>6. g.at = "heredoc" /\ g.mark = index /\ IsFrame(g) /\ Marked(g)
  BY <1>3 DEF IsFrame, Marked, MarkedPlace, TextPlace
<1>7. IsFrame(h) /\ ~Marked(h) /\ h.at \in {"line", "units"}
  BY LineFrameFacts
<1> HIDE DEF f, g, h
<1>8. IsFrame(f) /\ ~Marked(f)
  BY <1>1, <1>3, <1>5 DEF IsFrame, Marked, MarkedPlace, TextPlace
<1>9. Follows(Top, f) /\ MarkKept(Top, f, index, index')
  BY <1>1, <1>5, <1>8 DEF Follows, MarkKept, TextPlace
<1>10. CalledFrom(f, g, index, index') /\ IsCallee(g, h)
  BY <1>3, <1>5, <1>6, <1>7, <1>8 DEF CalledFrom, IsCallee, Callees, TextPlace
<1>11. /\ WellStacked(s, input.start) /\ MarksInOrder(s, tokens, index') /\ s # <<>>
       /\ IsSeq(Front(stack))
  BY <1>1, <1>3, <1>4, <1>7, <1>9, <1>10, CallTwoPush
<1>12. stack' = s
  BY <1>2, <1>11, CallAppends
<1>13. QED
  BY <1>1, <1>4, <1>11, <1>12, ToldNothing

LEMMA LineStep ==
  ASSUME LexerInv, Line
  PROVE  LexerInv'
<1>1. At("line", "none") /\ UNCHANGED tokens
  BY DEF Line
<1>2. Top.at = "line" /\ IsFrame(Top) /\ continuing \in BOOLEAN
  BY <1>1, AtFacts
<1>3. CASE Consume /\ Go([Top EXCEPT !.content = Append(@, NextChar)]) /\ UNCHANGED continuing
  <2> DEFINE f == [Top EXCEPT !.content = Append(@, NextChar)]
  <2>1. f.at = "line" /\ DOMAIN f = DOMAIN Top
    BY <1>2 DEF IsFrame
  <2> HIDE DEF f
  <2>2. QED
    BY <1>1, <1>2, <1>3, <2>1, EditStep DEF MarkedPlace, TextPlace, f
<1>4. CASE Peek /\ Return(Text(Literals(Top.content))) /\ EnableLineContinuation
  BY <1>1, <1>4, ReturnTextStep DEF EnableLineContinuation
<1>5. QED
  BY <1>3, <1>4 DEF Line

(* The content of a here-document is behind the tokens before it.          *)
LEMMA HereDocEndsStep ==
  ASSUME LexerInv, NEW v, At("heredoc", v), Consume, Return(NoValue), UNCHANGED continuing,
         NEW t, tokens' = Append(tokens, t), t.begin = Top.begin, t.end = index'
  PROVE  LexerInv'
<1> DEFINE r == Front(stack)
<1>1. /\ Top.at = "heredoc" /\ IsFrame(Top) /\ index \in Nat /\ index' = index + 1 /\ index < Len(source)
      /\ Len(source) \in Nat /\ outcome = "none" /\ UNCHANGED <<input, source>>
      /\ continuing' \in BOOLEAN /\ Marked(Top)
  BY AtFacts DEF Consume, Marked, MarkedPlace
<1>2. Above(r, tokens, index') /\ Above(stack, tokens, index') /\ Top.mark \in Nat /\ Top.mark <= index'
  BY <1>1, GoesForward, GoesBack
<1>3. WellStacked(stack, input.start) /\ MarksInOrder(stack, tokens, index) /\ stack # <<>>
  BY DEF LexerInv
<1>4. WellStacked(r, input.start)
  BY <1>1, <1>2, <1>3, PopFrame
<1>5. r # <<>> /\ Last(r) = r[Len(r)]
  <2>1. Len(stack) \in Nat \ {0} /\ Len(r) = Len(stack) - 1 /\ IsSeq(r) /\ Top = stack[Len(stack)]
    BY <1>3, FrontElements DEF WellStacked, Top
  <2>2. Len(stack) # 1
    BY <1>1, <1>3, <2>1 DEF WellStacked
  <2>3. r # <<>>
    BY <2>1, <2>2, EmptyStack
  <2>4. QED
    BY <2>1, <2>3, FrontElements
<1>6. Last(r).at = "tokens"
  <2>1. IsCallee(Last(r), Top)
    BY <1>1, TopIsCalled DEF Caller
  <2>2. QED
    BY <1>1, <2>1 DEF IsCallee, Callees, TokenPlace, TextPlace, UnitPlace
<1>7. IsToken(t) /\ t.end <= index'
  BY <1>1, <1>2 DEF IsToken, IsFrame
<1>8. Above(<<>>, tokens, index') /\ TokensHavePlace(tokens)
  BY <1>2 DEF Above, LexerInv
<1> HIDE DEF r
<1>9. TokensHavePlace(tokens') /\ MarksInOrder(r, tokens', index')
  BY <1>1, <1>4, <1>5, <1>6, <1>7, <1>8, MoreTokens
<1>10. stack' = r /\ value' = NoValue /\ outcome' = outcome
  BY DEF Return, r
<1>11. Types'
  BY <1>1, <1>10 DEF LexerInv, Types
<1>12. value'.kind = "none"
  BY <1>10 DEF NoValue
<1>13. ValueFits(value', stack', tokens', index') /\ ArithTextEnds'
  BY <1>10, <1>12 DEF ValueFits, ArithTextEnds
<1>14. QED
  BY <1>1, <1>4, <1>5, <1>9, <1>10, <1>11, <1>13 DEF LexerInv

LEMMA HereDocLineStep ==
  ASSUME LexerInv, HereDocLine
  PROVE  LexerInv'
<1> DEFINE skip_count == IF Top.remove_tabs THEN LeadingTabs(value.units) ELSE 0
           units == SubSeq(value.units, skip_count + 1, Len(value.units))
           f == [Top EXCEPT !.mark = index', !.content = @ \o units \o <<Literal(Newline)>>]
           t == [kind |-> "here-doc", key |-> <<>>, word |-> Top.content,
                 begin |-> Top.begin, end |-> index']
<1>1. At("heredoc", "text")
  BY DEF HereDocLine
<1>2. CASE Fail
  BY <1>1, <1>2, FailsStep
<1>3. CASE Consume /\ Return(NoValue) /\ tokens' = Append(tokens, t) /\ UNCHANGED continuing
  <2>1. t.begin = Top.begin /\ t.end = index'
    OBVIOUS
  <2> HIDE DEF t
  <2>2. QED
    BY <1>1, <1>3, <2>1, HereDocEndsStep
<1>4. CASE Consume /\ ReadLine(f) /\ UNCHANGED tokens
  <2>1. /\ Top.at = "heredoc" /\ IsFrame(Top) /\ input.start # "operator" /\ Marked(Top)
        /\ index \in Nat
    BY <1>1, AtFacts DEF Marked, MarkedPlace
  <2>2. f.at = "heredoc" /\ DOMAIN f = DOMAIN Top /\ f.mark = index' /\ f.begin = Top.begin
    BY <2>1 DEF IsFrame
  <2> HIDE DEF f
  <2>3. Call(f, <<LineFrame(f.delimiter)>>) /\ continuing' \in BOOLEAN
    BY <1>4 DEF ReadLine, IsQuoted
  <2>4. Turn /\ index' \in Nat /\ index <= index' /\ Top.mark \in Nat /\ Top.mark <= index'
    BY <1>1, <1>4, <2>1, <2>3, Advance
  <2>5. IsFrame(f) /\ Marked(f)
    BY <2>1, <2>2, <2>4 DEF IsFrame, Marked, TextPlace
  <2>6. Follows(Top, f) /\ MarkKept(Top, f, index, index')
    BY <2>1, <2>2, <2>4, <2>5 DEF Follows, MarkKept, TextPlace
  <2>7. CalledFrom(f, LineFrame(f.delimiter), index, index')
    BY <2>2, LineFrameFacts DEF CalledFrom, IsCallee, Callees, TextPlace
  <2>8. QED
    BY <1>4, <2>1, <2>3, <2>4, <2>6, <2>7, CallStep
<1> HIDE DEF f, t
<1>5. QED
  BY <1>2, <1>3, <1>4 DEF HereDocLine, f, t

LEMMA ListTokenStep ==
  ASSUME LexerInv, ListToken
  PROVE  LexerInv'
<1> DEFINE place == NextPlace
           next == [Top EXCEPT !.place = place, !.some = @ \/ place \in {"word", "done"}]
<1>1. /\ Top.at = "list" /\ outcome = "none" /\ value # NoValue
      /\ UNCHANGED <<input, source, continuing, tokens>>
  BY DEF ListToken, Calls
<1>2. /\ IsFrame(Top) /\ Top = stack[Len(stack)] /\ index \in Nat /\ input.start # "operator"
      /\ Len(source) \in Nat /\ index <= Len(source) /\ continuing' \in BOOLEAN
  BY <1>1, TopFrame DEF LexerInv, Types
<1>3. ReturnedToken(value, stack, tokens, index)
  BY <1>1, <1>2 DEF LexerInv, ValueFits
<1>4. ASSUME Peek
      PROVE  Turn /\ index' = index
  BY <1>1, <1>2, <1>4, GoesForward DEF Turn, Peek
<1>5. next.at = "list" /\ DOMAIN next = DOMAIN Top
  BY <1>1, <1>2 DEF IsFrame
<1> HIDE DEF next
<1>6. IsFrame(next) /\ ~Marked(next)
  BY <1>1, <1>2, <1>5 DEF IsFrame, Marked, MarkedPlace, TextPlace
<1>7. Follows(Top, next) /\ MarkKept(Top, next, index, index')
  BY <1>1, <1>5, <1>6 DEF Follows, MarkKept, TextPlace
<1>8. ASSUME NEW o \in {"beyond", "error"}, Peek, End(o)
      PROVE  LexerInv'
  BY <1>1, <1>2, <1>8, EndStep DEF Peek, Outcome
<1>9. CASE Peek /\ Call(next, <<ListFrame(TRUE)>>)
  <2> DEFINE g == ListFrame(TRUE)
  <2>1. g.at = "list" /\ IsFrame(g) /\ ~Marked(g)
    BY DEF ListFrame, IsFrame, Marked, MarkedPlace, TextPlace
  <2> HIDE DEF g
  <2>2. CalledFrom(next, g, index, index')
    BY <1>5, <2>1 DEF CalledFrom, IsCallee, Callees
  <2>3. QED
    BY <1>1, <1>2, <1>4, <1>7, <1>9, <2>2, CallStep DEF g
<1>10. CASE Peek /\ Go(next)
  BY <1>1, <1>2, <1>4, <1>7, <1>10, GoStep
<1>11. ASSUME Turn, Return(NoValue)
       PROVE  LexerInv'
  <2>1. NoValue.kind = "none"
    BY DEF NoValue
  <2>2. Top.at \notin {"tokens", "from_str"}
    BY <1>1
  <2>3. QED
    BY <1>1, <1>11, <2>1, <2>2, ReturnStep
<1>12. CASE Rewind(value.begin) /\ Return(NoValue)
  <2>1. index' = value.begin /\ value.begin \in Nat /\ value.begin <= index
        /\ Above(stack, tokens, value.begin)
    BY <1>2, <1>3, <1>12 DEF Rewind, ReturnedToken, IsToken
  <2>2. Above(Front(stack), tokens, value.begin)
    <3>1. IsSeq(stack) /\ stack # <<>>
      BY DEF LexerInv, WellStacked
    <3>2. /\ Len(Front(stack)) = Len(stack) - 1
          /\ \A i \in 1 .. Len(stack) - 1 : Front(stack)[i] = stack[i]
          /\ Len(stack) \in Nat
      BY <3>1, FrontElements
    <3>3. \A i \in 1 .. Len(stack) - 1 : i \in 1 .. Len(stack)
      BY <3>2
    <3>4. QED
      BY <2>1, <3>2, <3>3 DEF Above
  <2>3. Turn
    BY <1>1, <1>2, <2>1, <2>2 DEF Turn
  <2>4. QED
    BY <1>11, <1>12, <2>3
<1>13. CASE EndOfList
  BY <1>4, <1>8, <1>11, <1>12, <1>13 DEF EndOfList
<1>14. QED
  BY <1>8, <1>9, <1>10, <1>13 DEF ListToken, next

(* A string has been parsed: what has been read of it is the only token.   *)
LEMMA StringDoneStep ==
  ASSUME LexerInv, End("done"), UNCHANGED <<input, source, continuing, index>>,
         NEW t, tokens' = <<t>>, IsToken(t), t.end <= index,
         \A i \in 1 .. Len(stack) : ~Marked(stack[i])
  PROVE  LexerInv'
<1>1. UNCHANGED <<stack, value>> /\ outcome' = "done"
  BY DEF End
<1>2. Types'
  BY <1>1 DEF LexerInv, Types, Outcome
<1>3. TokensHavePlace(<<t>>) /\ Above(stack, <<t>>, index)
  <2>1. <<t>> \in Seq({t}) /\ Len(<<t>>) = 1 /\ <<t>>[1] = t
    OBVIOUS
  <2>2. IsSeq(<<t>>)
    BY <2>1, IsSeqOfSeq
  <2>3. \A k \in 1 .. 1 : <<t>>[k] = t
    BY <2>1
  <2>4. QED
    BY <2>1, <2>2, <2>3 DEF TokensHavePlace, Above
<1>4. MarksInOrder(stack', tokens', index')
  BY <1>1, <1>3 DEF MarksInOrder
<1>5. ArithTextEnds'
  BY <1>1 DEF LexerInv, ArithTextEnds, Top, NextChar
<1>6. QED
  BY <1>1, <1>2, <1>3, <1>4, <1>5 DEF LexerInv

LEMMA FromStrStep ==
  ASSUME LexerInv, FromStr
  PROVE  LexerInv'
<1> DEFINE t == StringToken(value.units)
<1>1. /\ Top.at = "from_str" /\ End("done") /\ UNCHANGED <<input, source, continuing, index>>
      /\ tokens' = <<t>>
  BY DEF FromStr, Calls, Peek
<1>2. IsToken(t) /\ t.end <= index
  BY TopFrame DEF StringToken, IsToken
<1>3. \A i \in 1 .. Len(stack) : ~Marked(stack[i])
  BY <1>1, BottomFrame DEF LexerInv, Top
<1> HIDE DEF t
<1>4. QED
  BY <1>1, <1>2, <1>3, StringDoneStep

LEMMA UnitFromStrStep ==
  ASSUME LexerInv, UnitFromStr
  PROVE  LexerInv'
<1>1. CASE /\ HasUnit /\ Peek /\ End("done")
           /\ tokens' = <<StringToken(Top.units)>>
           /\ UNCHANGED <<input, source, continuing>>
  <2> DEFINE t == StringToken(Top.units)
  <2>1. IsToken(t) /\ t.end <= index
    BY TopFrame DEF StringToken, IsToken
  <2>2. \A i \in 1 .. Len(stack) : ~Marked(stack[i])
    <3>1. Len(stack) = 2 /\ stack[2].at = "units" /\ WellStacked(stack, input.start)
      BY <1>1, TopFrame DEF HasUnit, LexerInv
    <3>2. stack[1].at \in {"tokens", "from_str"}
      BY <3>1 DEF WellStacked
    <3>3. ~Marked(stack[1]) /\ ~Marked(stack[2])
      BY <3>1, <3>2 DEF Marked, MarkedPlace
    <3>4. QED
      BY <3>1, <3>3
  <2> HIDE DEF t
  <2>3. QED
    BY <1>1, <2>1, <2>2, StringDoneStep DEF Peek, t
<1>2. CASE Calls("from_str") /\ Peek /\ End("panic") /\ UNCHANGED tokens
  <2>1. UNCHANGED <<input, source, index, tokens>> /\ continuing' \in BOOLEAN
    BY <1>2 DEF Calls, Peek, LexerInv, Types
  <2>2. "panic" \in Outcome \ {"none"}
    BY DEF Outcome
  <2>3. QED
    BY <1>2, <2>1, <2>2, EndStep
<1>3. QED
  BY <1>1, <1>2 DEF UnitFromStr

LEMMA OperatorFromStrStep ==
  ASSUME LexerInv, OperatorFromStr
  PROVE  LexerInv'
<1>1. /\ Top.at = "from_str" /\ outcome = "none" /\ UNCHANGED <<input, source, continuing, index>>
  BY DEF OperatorFromStr, Calls, Peek
<1>2. CASE value.kind = "operator" /\ End("done") /\ tokens' = <<value>>
  <2>1. IsToken(value) /\ value.end <= index
    BY <1>1, <1>2 DEF LexerInv, ValueFits, ReturnedToken
  <2>2. \A i \in 1 .. Len(stack) : ~Marked(stack[i])
    BY <1>1, BottomFrame DEF LexerInv, Top
  <2>3. QED
    BY <1>1, <1>2, <2>1, <2>2, StringDoneStep
<1>3. CASE End("nothing") /\ UNCHANGED tokens
  <2>1. UNCHANGED <<input, source, index, tokens>> /\ continuing' \in BOOLEAN
    BY <1>1, <1>3 DEF LexerInv, Types
  <2>2. "nothing" \in Outcome \ {"none"}
    BY DEF Outcome
  <2>3. QED
    BY <1>3, <2>1, <2>2, EndStep
<1>4. QED
  BY <1>2, <1>3 DEF OperatorFromStr

(* When a parenthesis ends the text of an arithmetic expansion, no input   *)
(* is needed to see it, and it is no backslash.                            *)
LEMMA ArithTextSeen ==
  ASSUME LexerInv, NeedsInput \/ AtLineContinuation
  PROVE  ~ (Top.at = "arith" /\ value.kind = "text")
<1> SUFFICES ASSUME Top.at = "arith", value.kind = "text"
             PROVE  FALSE
  OBVIOUS
<1>1. index < Len(source) /\ NextChar \in {"(", ")", EndOfInput} /\ index \in Nat
  BY TopFrame DEF LexerInv, ArithTextEnds
<1>2. NextChar # "\\"
  BY <1>1 DEF EndOfInput
<1>3. QED
  BY <1>1, <1>2 DEF NeedsInput, AtLineContinuation, AtBackslash

LEMMA ReadMoreStep ==
  ASSUME LexerInv, ReadMore
  PROVE  LexerInv'
<1> DEFINE C == Char \cup {EndOfInput}
<1>1. PICK unit \in Offer : source' = source \o unit
  BY DEF ReadMore
<1>2. /\ outcome = "none" /\ UNCHANGED <<input, index, continuing, tokens, stack, value, outcome>>
      /\ NeedsInput
  BY DEF ReadMore, Peeks
<1>3. unit \in Seq(C)
  <2>1. input.starts \cup input.units \subseteq Seq(C)
    BY SourceAssumption DEF LexerInv, Types
  <2>2. <<EndOfInput>> \in Seq(C)
    <3>1. EndOfInput \in C
      OBVIOUS
    <3> HIDE DEF C
    <3>2. QED
      BY <3>1
  <2> HIDE DEF C
  <2>3. QED
    BY <1>1, <2>1, <2>2 DEF Offer
<1>4. source \in Seq(C)
  BY DEF LexerInv, Types
<1> HIDE DEF C
<1>5. /\ source' \in Seq(C) /\ Len(source') = Len(source) + Len(unit)
      /\ Len(source) \in Nat /\ Len(unit) \in Nat
  <2>1. source \o unit \in Seq(C) /\ Len(source \o unit) = Len(source) + Len(unit)
    BY <1>3, <1>4, ConcatProperties
  <2>2. QED
    BY <1>1, <1>3, <1>4, <2>1, LenProperties
<1>6. Types'
  BY <1>2, <1>5, TopFrame DEF LexerInv, Types, C
<1>7. index <= index'
  BY <1>2, TopFrame
<1>8. QED
  BY <1>2, <1>6, <1>7, ArithTextSeen, ReadStep

LEMMA LineContinuationStep ==
  ASSUME LexerInv, LineContinuation
  PROVE  LexerInv'
<1>1. /\ outcome = "none" /\ UNCHANGED <<input, source, continuing, tokens, stack, value, outcome>>
      /\ ~NeedsInput /\ AtLineContinuation /\ index' = index + 2
  BY DEF LineContinuation, Peeks
<1>2. index \in Nat /\ Len(source) \in Nat /\ index < Len(source) /\ index + 1 # Len(source)
  BY <1>1, TopFrame DEF NeedsInput, AtLineContinuation, AtBackslash
<1>3. Types' /\ index <= index'
  BY <1>1, <1>2 DEF LexerInv, Types
<1>4. QED
  BY <1>1, <1>3, ArithTextSeen, ReadStep

LEMMA LexerInvInit ==
  ASSUME Init
  PROVE  LexerInv
<1>1. /\ input \in Source /\ source = <<>> /\ index = 0 /\ continuing = TRUE /\ tokens = <<>>
      /\ stack = StartFrames(input.start) /\ value = NoValue /\ outcome = "none"
  BY DEF Init
<1>2. Types
  <2>1. source \in Seq(Char \cup {EndOfInput}) /\ Len(source) = 0
    BY <1>1, EmptySeq
  <2>2. QED
    BY <1>1, <2>1 DEF Types, Outcome
<1>3. input.start \in Start
  BY <1>1, SourceAssumption
<1>4. ASSUME NEW f, NEW g, stack = <<f, g>>,
             f.at \in {"tokens", "from_str"}, g.at \in {"blanks", "units", "operator"},
             IsFrame(f), IsFrame(g), Marked(g) => g.mark = 0,
             IsCallee(f, g),
             input.start = "operator" => f.at = "from_str" /\ g.at = "operator"
      PROVE  LexerInv
  <2>1. stack \in Seq({f, g}) /\ Len(stack) = 2 /\ stack[1] = f /\ stack[2] = g
    BY <1>4
  <2>2. IsSeq(stack)
    BY <2>1, IsSeqOfSeq
  <2>3. \A i \in 1 .. Len(stack) : i = 1 \/ i = 2
    BY <2>1
  <2>4. WellStacked(stack, input.start)
    <3>1. \A i \in 1 .. Len(stack) : IsFrame(stack[i])
      BY <1>4, <2>1, <2>3
    <3>2. \A i \in 1 .. Len(stack) : i = 1 => stack[i].at \in {"tokens", "from_str"}
      BY <1>4, <2>1
    <3>3. \A i \in 1 .. Len(stack) : i # 1 => IsCallee(stack[i - 1], stack[i])
      BY <1>4, <2>1, <2>3
    <3>4. input.start = "operator" => \A i \in 1 .. Len(stack) : OnlyOperator(stack, i)
      BY <1>4, <2>1, <2>3 DEF OnlyOperator
    <3>5. QED
      BY <2>2, <3>1, <3>2, <3>3, <3>4 DEF WellStacked
  <2>5. TokensHavePlace(tokens) /\ Len(tokens) = 0
    <3>1. tokens \in Seq({}) /\ Len(tokens) = 0
      BY <1>1, EmptySeq
    <3>2. IsSeq(tokens)
      BY <3>1, IsSeqOfSeq
    <3>3. QED
      BY <3>1, <3>2 DEF TokensHavePlace
  <2>6. ~Marked(f)
    BY <1>4 DEF Marked, MarkedPlace
  <2>7. Above(stack, tokens, index)
    BY <1>1, <1>4, <2>1, <2>3, <2>5, <2>6 DEF Above
  <2>8. MarksInOrder(stack, tokens, index)
    <3>1. \A i, j \in 1 .. Len(stack) : Marked(stack[i]) /\ Marked(stack[j]) => i = 2 /\ j = 2
      BY <2>1, <2>3, <2>6
    <3>2. \A i \in 1 .. Len(stack) : Marked(stack[i]) => stack[i].mark = 0
      BY <1>4, <2>1, <2>3, <2>6
    <3>3. QED
      BY <2>5, <2>7, <3>1, <3>2 DEF MarksInOrder
  <2>9. ValueFits(value, stack, tokens, index) /\ ArithTextEnds
    <3>1. value = NoValue /\ value.kind = "none"
      BY <1>1 DEF NoValue
    <3>2. QED
      BY <3>1 DEF ValueFits, ArithTextEnds
  <2>10. stack # <<>>
    BY <2>1, EmptySeq
  <2>11. QED
    BY <1>2, <2>4, <2>5, <2>8, <2>9, <2>10 DEF LexerInv
<1> DEFINE string == [at |-> "from_str"]
<1>5. /\ IsFrame(string) /\ string.at = "from_str"
      /\ IsFrame(TokensFrame) /\ TokensFrame.at = "tokens"
      /\ IsFrame(BlanksFrame) /\ BlanksFrame.at = "blanks"
      /\ IsFrame(OperatorFrame) /\ OperatorFrame.at = "operator" /\ OperatorFrame.mark = 0
  BY <1>1 DEF TokensFrame, BlanksFrame, OperatorFrame, IsFrame, Marked, MarkedPlace, TextPlace
<1>6. \A context, word, delimiters, escapable :
        /\ IsFrame(UnitsFrame(context, word, delimiters, escapable))
        /\ UnitsFrame(context, word, delimiters, escapable).at = "units"
  BY DEF UnitsFrame, IsFrame, Marked, MarkedPlace, TextPlace
<1>8. /\ {"units", "operator"} \subseteq Callees("from_str")
      /\ "blanks" \in Callees("tokens")
      /\ ~ ("units" \in MarkedPlace) /\ ~ ("blanks" \in MarkedPlace)
  BY DEF Callees, TokenPlace, TextPlace, MarkedPlace
<1> HIDE DEF string
<1>9. CASE input.start = "tokens"
  <2>1. stack = <<TokensFrame, BlanksFrame>>
    BY <1>1, <1>9 DEF StartFrames
  <2>2. IsCallee(TokensFrame, BlanksFrame) /\ ~Marked(BlanksFrame)
    BY <1>5, <1>8 DEF IsCallee, Marked
  <2>3. QED
    BY <1>4, <1>5, <1>9, <2>1, <2>2
<1>10. CASE input.start = "operator"
  <2>1. stack = <<string, OperatorFrame>>
    BY <1>1, <1>10 DEF StartFrames, string
  <2>2. IsCallee(string, OperatorFrame)
    BY <1>5, <1>8 DEF IsCallee
  <2>3. QED
    BY <1>4, <1>5, <1>10, <2>1, <2>2
<1>11. CASE input.start \in {"word", "text", "word unit", "text unit"}
  <2>1. PICK context, word, delimiters, escapable :
             stack = <<string, UnitsFrame(context, word, delimiters, escapable)>>
    BY <1>1, <1>11 DEF StartFrames, string, WordFrame, TextFrame
  <2> DEFINE g == UnitsFrame(context, word, delimiters, escapable)
  <2>2. IsFrame(g) /\ g.at = "units"
    BY <1>6
  <2> HIDE DEF g
  <2>3. IsCallee(string, g) /\ ~Marked(g)
    BY <1>5, <1>8, <2>2 DEF IsCallee, Marked
  <2>4. QED
    BY <1>4, <1>5, <1>11, <2>1, <2>2, <2>3 DEF g
<1>12. QED
  BY <1>3, <1>9, <1>10, <1>11 DEF Start, SingleUnit

LEMMA LexerInvStep ==
  ASSUME LexerInv, [Next]_vars
  PROVE  LexerInv'
<1>1. CASE ReadMore
  BY <1>1, ReadMoreStep
<1>2. CASE LineContinuation
  BY <1>2, LineContinuationStep
<1>3. CASE Step
  BY <1>3, BlanksStep, CommentStep, OperatorStep, WordTokenStep, UnitsStep, LiteralDollarStep, EscapeStep,
     SingleQuoteStep, DoubleQuoteStep, BackquoteStep, BackquoteEscapeStep, DollarStep, NameStep,
     LengthPrefixStep, BracedParamStep, SuffixStep, TrimStep, BraceCloseStep, ArithOpenStep,
     ArithContentStep, ArithCloseStep, CommandSubstitutionStep, RequireTokenStep, TakeTokenStep,
     HereDocContentsStep, LineStep, HereDocLineStep, ListTokenStep, FromStrStep, UnitFromStrStep,
     OperatorFromStrStep
     DEF Step
<1>4. CASE UNCHANGED vars
  BY <1>4 DEF vars, LexerInv, Types, ArithTextEnds, Top, NextChar
<1>5. QED
  BY <1>1, <1>2, <1>3, <1>4 DEF Next

LEMMA LexerInvImplies ==
  ASSUME LexerInv
  PROVE  TypeOK /\ ContentEndsAtParenthesis
<1>1. DOMAIN stack = 1 .. Len(stack) /\ DOMAIN tokens = 1 .. Len(tokens)
  BY DEF LexerInv, WellStacked, TokensHavePlace, IsSeq
<1>2. \A i \in DOMAIN stack : "mark" \in DOMAIN stack[i] => stack[i].mark \in 0 .. index
  BY <1>1, TopFrame DEF LexerInv, WellStacked, IsFrame, MarksInOrder, Above
<1>3. \A i \in DOMAIN tokens : tokens[i].begin <= tokens[i].end /\ tokens[i].end <= index
  BY <1>1 DEF LexerInv, TokensHavePlace, IsToken, MarksInOrder, Above
<1>4. QED
  BY <1>2, <1>3 DEF LexerInv, Types, Outcome, TypeOK, ContentEndsAtParenthesis

-----------------------------------------------------------------------------
(* What has been read ahead of the lexer: src is what has been read, and n *)
(* the place that the lexer is at.                                         *)

(* No newline after i has been read but as the last character.             *)
Fresh(src, i) == \A p \in i + 1 .. Len(src) : src[p] = Newline => p = Len(src)

(* There is nothing but line continuations from i to j.                    *)
Continuations(src, i, j) ==
  \A p \in i + 1 .. j : \/ src[p] = "\\" /\ p + 1 <= j /\ src[p + 1] = Newline
                        \/ src[p] = Newline /\ p - 1 > i /\ src[p - 1] = "\\"

(* Line continuations and then no newline but the last character           *)
Near(src, i) == \E j \in i .. Len(src) : Continuations(src, i, j) /\ Fresh(src, j)

(* The same after one or two characters that length_prefix looks at        *)
LengthChar == {"#", "-", "?"}
NearNext(src, i) ==
  \E j \in i .. Len(src) - 1 :
    Continuations(src, i, j) /\ src[j + 1] \in LengthChar /\ Near(src, j + 1)
NearSecond(src, i) ==
  \E j \in i .. Len(src) - 1 :
    Continuations(src, i, j) /\ src[j + 1] \in LengthChar /\ NearNext(src, j + 1)

(* There is a character after i, and no line continuation.                 *)
HasChar(src, i) ==
  /\ i < Len(src)
  /\ src[i + 1] = "\\" => i + 1 < Len(src) /\ src[i + 2] # Newline

(* What may have been read ahead when frame f goes on, told v              *)
ReadAhead(f, v, src, n) ==
  CASE f.at = "units" /\ v.kind = "not found" ->
         n < Len(src) /\ src[n + 1] = "$" /\ Near(src, n + 1)
    [] f.at = "command" -> n < Len(src) /\ src[n + 1] = "(" /\ Near(src, n + 1)
    [] f.at = "command.close" -> HasChar(src, n) /\ (src[n + 1] = ")" => Near(src, n + 1))
    [] f.at \in {"prefix.consume", "param"} ->
         Near(src, n) \/ NearNext(src, n) \/ NearSecond(src, n)
    [] f.at = "suffix" -> Near(src, n) \/ NearNext(src, n)
    [] OTHER -> Near(src, n)

(* What is between the mark of frame f and the lexer                       *)
SinceMark(f, start, src, n) ==
  /\ f.at \in {"dollar", "arith.open"} =>
       /\ f.mark < n
       /\ src[f.mark + 1] = IF f.at = "dollar" THEN "$" ELSE "("
       /\ Continuations(src, f.mark + 1, n)
  /\ f.at = "prefix" => Continuations(src, f.mark, n)
  /\ f.at = "prefix.first" =>
       \E j \in f.mark .. n - 1 :
         Continuations(src, f.mark, j) /\ src[j + 1] \in LengthChar /\ Continuations(src, j + 1, n)
  /\ f.at = "prefix.second" =>
       \E j \in f.mark .. n - 1 : \E k \in j + 1 .. n - 1 :
         /\ Continuations(src, f.mark, j) /\ src[j + 1] \in LengthChar
         /\ Continuations(src, j + 1, k) /\ src[k + 1] \in LengthChar
         /\ Continuations(src, k + 1, n)
  /\ f.at = "operator" /\ f.key = <<>> /\ start # "operator" => f.mark = n /\ HasChar(src, n)

(* A token that may be read again does not begin with a line continuation. *)
(* A newline that has been returned is the last character that was read.   *)
LineIsTaken(ts) ==
  ts # <<>> /\ \/ Last(ts).kind = "operator" /\ Last(ts).key = <<Newline>>
               \/ Last(ts).kind = "here-doc"
Told(f, v, ts, src, n) ==
  /\ f.at = "from_str" => v # NoValue
  /\ f.at = "list" /\ v # NoValue =>
       HasChar(src, v.begin) /\ (src[v.begin + 1] = ")" => Near(src, v.begin + 1))
  /\ f.at = "tokens" =>
       /\ v.kind # "here-doc"
       /\ v.kind = "operator" /\ v.key = <<Newline>> => n = Len(src)
       /\ v = NoValue /\ LineIsTaken(ts) => n = Len(src)

(* The functions that read without line continuation                       *)
RawPlace == {"comment", "single", "line"}

Looks == /\ ~continuing => Fresh(source, index) /\ Top.at \in RawPlace
         /\ ReadAhead(Top, value, source, index)
         /\ SinceMark(Top, input.start, source, index)
         /\ Told(Top, value, tokens, source, index)

(* The first character of what frame f reads has been looked at.           *)
BegunToken(f, start, src) ==
  /\ f.at = "word" \/ (f.at = "operator" /\ f.key # <<>> /\ start # "operator") =>
       HasChar(src, f.mark) /\ src[f.mark + 1] # ")"
  /\ f.at = "operator" => "key" \in DOMAIN f /\ IsSeq(f.key) /\ f.key # <<Newline>>
  /\ f.at = "list" => "group" \in DOMAIN f

(* A list is that of a command substitution or in parentheses.             *)
ListCalled(f, g) == g.at = "list" => (g.group <=> f.at = "list")

Linked(s, start, src) ==
  /\ \A i \in 1 .. Len(s) : BegunToken(s[i], start, src)
  /\ \A i \in 1 .. Len(s) : i # 1 => ListCalled(s[i - 1], s[i])

Reading == Linked(stack, input.start, source) /\ Looks
ReadInv == again \/ Reading

-----------------------------------------------------------------------------
(* Line continuations and newlines                                         *)

LEMMA NoContinuation ==
  ASSUME NEW src, NEW i \in Nat
  PROVE  Continuations(src, i, i)
BY DEF Continuations

LEMMA FreshIsNear ==
  ASSUME NEW src, Len(src) \in Nat, NEW i \in Nat, i <= Len(src), Fresh(src, i)
  PROVE  Near(src, i)
BY NoContinuation DEF Near

LEMMA FreshOn ==
  ASSUME NEW src, Len(src) \in Nat, NEW i \in Nat, NEW j \in Nat, i <= j, Fresh(src, i)
  PROVE  Fresh(src, j)
BY DEF Fresh

(* The first thing of what is nothing but line continuations               *)
LEMMA FirstContinuation ==
  ASSUME NEW src, NEW i \in Nat, NEW j \in Nat, i < j, Continuations(src, i, j)
  PROVE  /\ src[i + 1] = "\\" /\ src[i + 2] = Newline /\ i + 2 <= j
         /\ Continuations(src, i + 2, j)
<1>1. src[i + 1] = "\\" /\ i + 2 <= j /\ src[i + 2] = Newline
  <2>1. i + 1 \in i + 1 .. j /\ ~ (i + 1 - 1 > i)
    OBVIOUS
  <2>2. src[i + 1] = "\\" /\ i + 1 + 1 <= j /\ src[i + 1 + 1] = Newline
    BY <2>1 DEF Continuations
  <2>3. i + 1 + 1 = i + 2
    OBVIOUS
  <2>4. QED
    BY <2>2, <2>3
<1>2. Newline # "\\"
  BY DEF Newline
<1>3. ASSUME NEW p \in i + 2 + 1 .. j
      PROVE  \/ src[p] = "\\" /\ p + 1 <= j /\ src[p + 1] = Newline
             \/ src[p] = Newline /\ p - 1 > i + 2 /\ src[p - 1] = "\\"
  <2>1. \/ src[p] = "\\" /\ p + 1 <= j /\ src[p + 1] = Newline
        \/ src[p] = Newline /\ p - 1 > i /\ src[p - 1] = "\\"
    BY DEF Continuations
  <2>2. p - 1 = i + 2 => src[p - 1] # "\\"
    BY <1>1, <1>2
  <2>3. QED
    BY <2>1, <2>2
<1>4. QED
  BY <1>1, <1>3 DEF Continuations

LEMMA MoreContinuations ==
  ASSUME NEW src, NEW i \in Nat, NEW j \in Nat, i <= j, Continuations(src, i, j),
         src[j + 1] = "\\", src[j + 2] = Newline
  PROVE  Continuations(src, i, j + 2)
<1> SUFFICES ASSUME NEW p \in i + 1 .. j + 2
             PROVE  \/ src[p] = "\\" /\ p + 1 <= j + 2 /\ src[p + 1] = Newline
                    \/ src[p] = Newline /\ p - 1 > i /\ src[p - 1] = "\\"
  BY DEF Continuations
<1>1. CASE p <= j
  BY <1>1 DEF Continuations
<1>2. CASE p = j + 1
  <2>1. p + 1 = j + 2
    BY <1>2
  <2>2. QED
    BY <1>2, <2>1
<1>3. CASE p = j + 2
  <2>1. p - 1 = j + 1 /\ p - 1 > i
    BY <1>3
  <2>2. QED
    BY <1>3, <2>1
<1>4. QED
  BY <1>1, <1>2, <1>3

LEMMA ContinuationsThenFresh ==
  ASSUME NEW src, Len(src) \in Nat, NEW i \in Nat, NEW j \in Nat, i <= j, j <= Len(src),
         Continuations(src, i, j), Fresh(src, j)
  PROVE  Near(src, i)
BY DEF Near

(* Where there is no line continuation, j is i.                            *)
LEMMA StaysAtChar ==
  ASSUME NEW src, Len(src) \in Nat, NEW i \in Nat, HasChar(src, i), NEW j \in Nat, i <= j,
         Continuations(src, i, j)
  PROVE  j = i
<1> SUFFICES ASSUME i < j
             PROVE  FALSE
  OBVIOUS
<1>1. src[i + 1] = "\\" /\ src[i + 2] = Newline
  BY FirstContinuation
<1>2. QED
  BY <1>1 DEF HasChar

LEMMA NearAtChar ==
  ASSUME NEW src, Len(src) \in Nat, NEW i \in Nat, HasChar(src, i)
  PROVE  /\ Near(src, i) => Fresh(src, i)
         /\ NearNext(src, i) => src[i + 1] \in LengthChar /\ Near(src, i + 1)
         /\ NearSecond(src, i) => src[i + 1] \in LengthChar /\ NearNext(src, i + 1)
<1>1. \A j \in i .. Len(src) : Continuations(src, i, j) => j = i
  BY StaysAtChar
<1>2. \A j \in i .. Len(src) - 1 : Continuations(src, i, j) => j = i
  BY StaysAtChar
<1>3. QED
  BY <1>1, <1>2 DEF Near, NearNext, NearSecond

(* A line continuation is read.                                            *)
LEMMA NearAfterContinuation ==
  ASSUME NEW src, Len(src) \in Nat, NEW i \in Nat, i + 1 < Len(src),
         src[i + 1] = "\\", src[i + 2] = Newline
  PROVE  /\ Near(src, i) => Near(src, i + 2)
         /\ NearNext(src, i) => NearNext(src, i + 2)
         /\ NearSecond(src, i) => NearSecond(src, i + 2)
<1>1. ASSUME NEW j \in Nat, i < j, Continuations(src, i, j)
      PROVE  i + 2 <= j /\ Continuations(src, i + 2, j)
  BY <1>1, FirstContinuation
<1>2. "\\" \notin LengthChar
  BY DEF LengthChar
<1>3. ASSUME NEW j \in i .. Len(src) - 1, Continuations(src, i, j), src[j + 1] \in LengthChar
      PROVE  j \in i + 2 .. Len(src) - 1 /\ Continuations(src, i + 2, j)
  <2>1. j # i
    BY <1>2, <1>3
  <2>2. QED
    BY <1>1, <1>3, <2>1
<1>4. ASSUME Near(src, i)
      PROVE  Near(src, i + 2)
  <2>1. PICK j \in i .. Len(src) : Continuations(src, i, j) /\ Fresh(src, j)
    BY <1>4 DEF Near
  <2>2. CASE j = i
    <3>1. i + 2 = Len(src)
      BY <2>1, <2>2 DEF Fresh
    <3>2. Fresh(src, i + 2)
      BY <2>1, <2>2, FreshOn
    <3>3. QED
      BY <3>1, <3>2, FreshIsNear
  <2>3. CASE i < j
    <3>1. i + 2 <= j /\ Continuations(src, i + 2, j)
      BY <1>1, <2>1, <2>3
    <3>2. QED
      BY <2>1, <3>1, ContinuationsThenFresh
  <2>4. QED
    BY <2>2, <2>3
<1>5. QED
  BY <1>3, <1>4 DEF NearNext, NearSecond

(* More has been read than src.                                            *)
Extends(src, more) ==
  /\ Len(more) \in Nat /\ Len(src) <= Len(more)
  /\ \A p \in 1 .. Len(src) : more[p] = src[p]

LEMMA StaysSoWithMore ==
  ASSUME NEW src, NEW more, Len(src) \in Nat, Extends(src, more), NEW i \in Nat
  PROVE  /\ HasChar(src, i) => HasChar(more, i) /\ more[i + 1] = src[i + 1]
         /\ \A j \in i .. Len(src) : Continuations(src, i, j) => Continuations(more, i, j)
<1>1. HasChar(src, i) => HasChar(more, i) /\ more[i + 1] = src[i + 1]
  <2> SUFFICES ASSUME HasChar(src, i)
               PROVE  HasChar(more, i) /\ more[i + 1] = src[i + 1]
    OBVIOUS
  <2>1. i + 1 \in 1 .. Len(src) /\ (i + 1 < Len(src) => i + 2 \in 1 .. Len(src))
    BY DEF HasChar
  <2>2. more[i + 1] = src[i + 1] /\ (i + 1 < Len(src) => more[i + 2] = src[i + 2])
    BY <2>1 DEF Extends
  <2>3. QED
    BY <2>1, <2>2 DEF HasChar, Extends
<1>2. ASSUME NEW j \in i .. Len(src), Continuations(src, i, j)
      PROVE  Continuations(more, i, j)
  <2> SUFFICES ASSUME NEW p \in i + 1 .. j
               PROVE  \/ more[p] = "\\" /\ p + 1 <= j /\ more[p + 1] = Newline
                      \/ more[p] = Newline /\ p - 1 > i /\ more[p - 1] = "\\"
    BY DEF Continuations
  <2>1. \/ src[p] = "\\" /\ p + 1 <= j /\ src[p + 1] = Newline
        \/ src[p] = Newline /\ p - 1 > i /\ src[p - 1] = "\\"
    BY <1>2 DEF Continuations
  <2>2. p \in 1 .. Len(src) /\ (p + 1 <= j => p + 1 \in 1 .. Len(src))
        /\ (p - 1 > i => p - 1 \in 1 .. Len(src))
    OBVIOUS
  <2>3. more[p] = src[p] /\ (p + 1 <= j => more[p + 1] = src[p + 1])
        /\ (p - 1 > i => more[p - 1] = src[p - 1])
    BY <2>2 DEF Extends
  <2>4. QED
    BY <2>1, <2>3
<1>3. QED
  BY <1>1, <1>2

-----------------------------------------------------------------------------
(* The frames                                                              *)

LEMMA LinkedFront ==
  ASSUME NEW s, IsSeq(s), s # <<>>, NEW start, NEW src, Linked(s, start, src)
  PROVE  Linked(Front(s), start, src)
<1>1. /\ Len(s) \in Nat \ {0} /\ Len(Front(s)) = Len(s) - 1
      /\ \A i \in 1 .. Len(s) - 1 : Front(s)[i] = s[i]
  BY FrontElements
<1> DEFINE t == Front(s)
           l == Len(s)
<1>2. l \in Nat \ {0} /\ Len(t) = l - 1 /\ \A i \in 1 .. l - 1 : t[i] = s[i] /\ i \in 1 .. l
  BY <1>1
<1>3. /\ \A i \in 1 .. l : BegunToken(s[i], start, src)
      /\ \A i \in 1 .. l : i # 1 => ListCalled(s[i - 1], s[i])
  BY DEF Linked
<1> HIDE DEF t, l
<1>4. \A i \in 1 .. l - 1 : i # 1 => i - 1 \in 1 .. l - 1
  BY <1>2
<1>5. Linked(t, start, src)
  BY <1>2, <1>3, <1>4 DEF Linked
<1>6. QED
  BY <1>5 DEF t

LEMMA LinkedAppend ==
  ASSUME NEW s, IsSeq(s), NEW start, NEW src, Linked(s, start, src),
         NEW g, BegunToken(g, start, src), s # <<>> => ListCalled(Last(s), g)
  PROVE  Linked(Append(s, g), start, src)
<1>1. /\ IsSeq(Append(s, g)) /\ Len(Append(s, g)) = Len(s) + 1
      /\ \A i \in 1 .. Len(s) : Append(s, g)[i] = s[i]
      /\ Append(s, g)[Len(s) + 1] = g
  BY AppendElements
<1>2. s # <<>> => ListCalled(s[Len(s)], g)
  BY FrontElements
<1> DEFINE t == Append(s, g)
           l == Len(s)
<1>3. l \in Nat /\ (s = <<>> <=> l = 0)
  BY EmptyStack DEF IsSeq
<1>4. Len(t) = l + 1 /\ t[l + 1] = g /\ \A i \in 1 .. l : t[i] = s[i]
  BY <1>1
<1>5. /\ \A i \in 1 .. l : BegunToken(s[i], start, src)
      /\ \A i \in 1 .. l : i # 1 => ListCalled(s[i - 1], s[i])
  BY DEF Linked
<1>6. l # 0 => ListCalled(s[l], g)
  BY <1>2, <1>3
<1> HIDE DEF t, l
<1>7. \A i \in 1 .. l + 1 : BegunToken(t[i], start, src)
  <2>1. \A i \in 1 .. l + 1 : i \in 1 .. l \/ i = l + 1
    BY <1>3
  <2>2. QED
    BY <1>4, <1>5, <2>1
<1>8. ASSUME NEW i \in 1 .. l + 1, i # 1
      PROVE  ListCalled(t[i - 1], t[i])
  <2>1. CASE i \in 1 .. l
    <3>1. i - 1 \in 1 .. l
      BY <1>3, <1>8, <2>1
    <3>2. QED
      BY <1>4, <1>5, <1>8, <2>1, <3>1
  <2>2. CASE i = l + 1
    <3>1. l \in 1 .. l /\ i - 1 = l /\ l # 0
      BY <1>3, <1>8, <2>2
    <3>2. QED
      BY <1>4, <1>6, <2>2, <3>1
  <2>3. QED
    BY <1>3, <2>1, <2>2
<1>9. Linked(t, start, src)
  BY <1>4, <1>7, <1>8 DEF Linked
<1>10. QED
  BY <1>9 DEF t

(* What Append leaves of the frames below                                  *)
LEMMA LastOfAppend ==
  ASSUME NEW s, IsSeq(s), NEW g
  PROVE  /\ IsSeq(Append(s, g)) /\ Append(s, g) # <<>> /\ Last(Append(s, g)) = g
<1>1. /\ IsSeq(Append(s, g)) /\ Len(Append(s, g)) = Len(s) + 1
      /\ Append(s, g)[Len(s) + 1] = g
  BY AppendElements
<1>2. Len(s) \in Nat
  BY DEF IsSeq
<1>3. Append(s, g) # <<>>
  BY <1>1, <1>2, EmptyStack
<1>4. QED
  BY <1>1, <1>3 DEF Last

(* The frames that a step starts from                                      *)
LEMMA FramesLinked ==
  ASSUME LexerInv, Reading
  PROVE  /\ IsSeq(stack) /\ stack # <<>> /\ IsSeq(Front(stack))
         /\ Linked(stack, input.start, source) /\ Linked(Front(stack), input.start, source)
         /\ BegunToken(Top, input.start, source)
         /\ Front(stack) # <<>> => /\ ListCalled(Caller, Top)
                                   /\ BegunToken(Caller, input.start, source)
         /\ Top.at \notin {"tokens", "from_str"} => Front(stack) # <<>>
<1>1. IsSeq(stack) /\ stack # <<>> /\ Linked(stack, input.start, source)
  BY DEF LexerInv, WellStacked, Reading
<1>2. /\ Len(stack) \in Nat \ {0} /\ IsSeq(Front(stack)) /\ Len(Front(stack)) = Len(stack) - 1
      /\ \A i \in 1 .. Len(stack) - 1 : Front(stack)[i] = stack[i]
      /\ Top = stack[Len(stack)]
  BY <1>1, FrontElements DEF Top
<1>3. Linked(Front(stack), input.start, source)
  BY <1>1, LinkedFront
<1>4. BegunToken(Top, input.start, source)
  <2>1. Len(stack) \in 1 .. Len(stack)
    BY <1>2
  <2>2. QED
    BY <1>1, <1>2, <2>1 DEF Linked
<1>5. ASSUME Front(stack) # <<>>
      PROVE  ListCalled(Caller, Top) /\ BegunToken(Caller, input.start, source)
  <2>1. Len(stack) - 1 # 0
    BY <1>2, <1>5, EmptyStack
  <2>2. Caller = stack[Len(stack) - 1]
    <3>1. Caller = Front(stack)[Len(stack) - 1]
      BY <1>2, <1>5, FrontElements DEF Caller
    <3>2. Len(stack) - 1 \in 1 .. Len(stack) - 1
      BY <1>2, <2>1
    <3>3. QED
      BY <1>2, <3>1, <3>2
  <2>3. Len(stack) \in 1 .. Len(stack) /\ Len(stack) - 1 \in 1 .. Len(stack) /\ Len(stack) # 1
    BY <1>2, <2>1
  <2>4. QED
    BY <1>1, <1>2, <2>2, <2>3 DEF Linked
<1>6. ASSUME Top.at \notin {"tokens", "from_str"}
      PROVE  Front(stack) # <<>>
  <2>1. Len(stack) # 1
    <3>1. Len(stack) \in 1 .. Len(stack)
      BY <1>2
    <3>2. QED
      BY <1>2, <1>6, <3>1 DEF LexerInv, WellStacked
  <2>2. Len(Front(stack)) # 0
    BY <1>2, <2>1
  <2>3. QED
    BY <1>2, <2>2, EmptyStack
<1>7. QED
  BY <1>1, <1>2, <1>3, <1>4, <1>5, <1>6

(* The frames and what has been told after a step                          *)
NowAt(f, v) == /\ Linked(stack', input'.start, source')
                /\ Top' = f /\ value' = v
                /\ UNCHANGED <<input, source>>

LEMMA GoLinked ==
  ASSUME LexerInv, Reading, UNCHANGED <<input, source>>, NEW f, Go(f),
         BegunToken(f, input.start, source),
         f.at = "list" => Top.at = "list" /\ f.group = Top.group
  PROVE  NowAt(f, NoValue)
<1>1. stack' = Append(Front(stack), f) /\ value' = NoValue
  BY DEF Go
<1>2. Front(stack) # <<>> => ListCalled(Caller, f)
  BY FramesLinked DEF ListCalled
<1>3. Linked(Append(Front(stack), f), input.start, source)
  BY <1>2, FramesLinked, LinkedAppend DEF Caller
<1>4. Top' = f
  BY <1>1, FramesLinked, LastOfAppend DEF Top
<1>5. QED
  BY <1>1, <1>3, <1>4 DEF NowAt

LEMMA CallAppendsOne ==
  ASSUME NEW s, IsSeq(s), NEW f, NEW g
  PROVE  s \o <<f>> \o <<g>> = Append(Append(s, f), g)
<1>1. s \in Seq({s[i] : i \in 1 .. Len(s)})
  BY SeqOfItsElements
<1>2. s \in Seq({s[i] : i \in 1 .. Len(s)} \cup {f, g})
  BY <1>1
<1> DEFINE S == {s[i] : i \in 1 .. Len(s)} \cup {f, g}
<1>3. s \in Seq(S) /\ f \in S /\ g \in S
  BY <1>2
<1> HIDE DEF S
<1>4. QED
  BY <1>3

LEMMA CallLinked ==
  ASSUME LexerInv, Reading, UNCHANGED <<input, source>>, NEW f, NEW g,
         Call(f, <<g>>),
         BegunToken(f, input.start, source), BegunToken(g, input.start, source),
         f.at = "list" => Top.at = "list" /\ f.group = Top.group,
         ListCalled(f, g)
  PROVE  NowAt(g, NoValue)
<1> DEFINE s == Append(Front(stack), f)
<1>1. stack' = Append(s, g)
  <2>1. IsSeq(Front(stack))
    BY FramesLinked
  <2>2. Front(stack) \o <<f>> \o <<g>> = Append(Append(Front(stack), f), g)
    BY <2>1, CallAppendsOne
  <2>3. stack' = Front(stack) \o <<f>> \o <<g>>
    BY DEF Call
  <2>4. QED
    BY <2>2, <2>3
<1>2. Front(stack) # <<>> => ListCalled(Caller, f)
  BY FramesLinked DEF ListCalled
<1>3. Linked(s, input.start, source)
  BY <1>2, FramesLinked, LinkedAppend DEF Caller
<1>4. IsSeq(s) /\ s # <<>> /\ Last(s) = f
  BY FramesLinked, LastOfAppend
<1> HIDE DEF s
<1>5. Linked(Append(s, g), input.start, source)
  BY <1>3, <1>4, LinkedAppend
<1>6. Top' = g
  BY <1>1, <1>4, LastOfAppend DEF Top
<1>7. QED
  BY <1>1, <1>5, <1>6 DEF NowAt, Call

LEMMA CallTwoLinked ==
  ASSUME LexerInv, Reading, UNCHANGED <<input, source>>, NEW f, NEW g, NEW h,
         \/ stack' = Front(stack) \o <<f>> \o <<g, h>>
         \/ stack' = Front(stack) \o <<f, g, h>>,
         BegunToken(f, input.start, source), BegunToken(g, input.start, source),
         BegunToken(h, input.start, source), f.at # "list", g.at # "list", h.at # "list"
  PROVE  NowAt(h, value')
<1> DEFINE s == Append(Front(stack), f)
           t == Append(s, g)
<1>1. stack' = Append(t, h)
  <2>1. IsSeq(Front(stack))
    BY FramesLinked
  <2>2. /\ Front(stack) \o <<f>> \o <<g, h>> = Append(t, h)
        /\ Front(stack) \o <<f, g, h>> = Append(t, h)
    BY <2>1, CallAppends
  <2>3. QED
    BY <2>2
<1>2. Linked(s, input.start, source)
  BY FramesLinked, LinkedAppend DEF Caller, ListCalled
<1>3. IsSeq(s) /\ s # <<>> /\ Last(s) = f
  BY FramesLinked, LastOfAppend
<1> HIDE DEF s
<1>4. Linked(t, input.start, source)
  BY <1>2, <1>3, LinkedAppend DEF ListCalled
<1>5. IsSeq(t) /\ t # <<>> /\ Last(t) = g
  BY <1>3, LastOfAppend
<1> HIDE DEF t
<1>6. Linked(Append(t, h), input.start, source)
  BY <1>4, <1>5, LinkedAppend DEF ListCalled
<1>7. Top' = h
  BY <1>1, <1>5, LastOfAppend DEF Top
<1>8. QED
  BY <1>1, <1>6, <1>7 DEF NowAt

LEMMA ReturnLinked ==
  ASSUME LexerInv, Reading, UNCHANGED <<input, source>>, NEW v, Return(v),
         Top.at \notin {"tokens", "from_str"}
  PROVE  /\ NowAt(Caller, v)
         /\ Top.at \in Callees(Caller.at)
         /\ ListCalled(Caller, Top)
<1>1. stack' = Front(stack) /\ value' = v
  BY DEF Return
<1>2. Top' = Caller
  BY <1>1 DEF Top, Caller
<1>3. Top.at \in Callees(Caller.at)
  BY TopIsCalled DEF IsCallee
<1>4. QED
  BY <1>1, <1>2, <1>3, FramesLinked DEF NowAt

LEMMA UnitsCalled ==
  ASSUME NEW l, NEW c, l \in Callees(c), l \in UnitPlace
  PROVE  c = "units"
<1>1. /\ UnitPlace \cap (TokenPlace \cup TextPlace \cup {"heredoc", "list", "line"}) = {}
  BY DEF UnitPlace, TokenPlace, TextPlace
<1>2. QED
  BY <1>1 DEF Callees

LEMMA ReturnUnitLinked ==
  ASSUME LexerInv, Reading, UNCHANGED <<input, source>>, NEW u, ReturnUnit(u),
         Top.at \in UnitPlace
  PROVE  NowAt(Top', NoValue) /\ Top'.at = "units"
<1> DEFINE s == Front(stack)
           word == s[Len(s)]
           more == [word EXCEPT !.units = Append(@, u)]
<1>1. Top.at \notin {"tokens", "from_str"}
  BY DEF UnitPlace
<1>2. IsSeq(s) /\ s # <<>> /\ Linked(s, input.start, source)
  BY <1>1, FramesLinked
<1>3. Caller = word /\ Caller.at = "units"
  BY <1>1, <1>2, FrontElements, TopIsCalled, UnitsCalled DEF Caller, IsCallee
<1>4. stack' = [s EXCEPT ![Len(s)] = more] /\ value' = NoValue
  BY DEF ReturnUnit
<1>5. more.at = "units"
  <2>1. "at" \in DOMAIN word
    <3>1. WellStacked(stack, input.start) /\ IsSeq(stack) /\ stack # <<>>
      BY DEF LexerInv, WellStacked
    <3>2. /\ Len(stack) \in Nat \ {0} /\ Len(s) = Len(stack) - 1
          /\ \A i \in 1 .. Len(stack) - 1 : s[i] = stack[i]
      BY <3>1, FrontElements
    <3>3. Len(s) # 0
      BY <1>2, EmptyStack
    <3>4. Len(s) \in 1 .. Len(stack) - 1 /\ Len(s) \in 1 .. Len(stack)
      BY <3>2, <3>3
    <3>5. QED
      BY <3>1, <3>2, <3>4 DEF WellStacked, IsFrame
  <2>2. QED
    BY <1>3, <2>1
<1> HIDE DEF s
<1>6. /\ Len(s) \in Nat \ {0} /\ s = [i \in 1 .. Len(s) |-> s[i]]
  BY <1>2, FrontElements DEF IsSeq
<1> HIDE DEF word, more
<1>7. /\ stack' = [i \in 1 .. Len(s) |-> IF i = Len(s) THEN more ELSE s[i]]
      /\ DOMAIN s = 1 .. Len(s)
  BY <1>4, <1>6
<1>8. /\ Len(stack') = Len(s)
      /\ \A i \in 1 .. Len(s) : stack'[i] = IF i = Len(s) THEN more ELSE s[i]
  BY <1>6, <1>7
<1>9. Top' = more
  BY <1>6, <1>8 DEF Top, Last
<1>10. Linked(stack', input.start, source)
  <2>1. /\ \A i \in 1 .. Len(s) : BegunToken(s[i], input.start, source)
        /\ \A i \in 1 .. Len(s) : i # 1 => ListCalled(s[i - 1], s[i])
    BY <1>2 DEF Linked
  <2>2. BegunToken(more, input.start, source)
    BY <1>5 DEF BegunToken
  <2>3. \A i \in 1 .. Len(s) : BegunToken(stack'[i], input.start, source)
    BY <1>8, <2>1, <2>2
  <2>4. ASSUME NEW i \in 1 .. Len(s), i # 1
        PROVE  ListCalled(stack'[i - 1], stack'[i])
    <3>1. i - 1 \in 1 .. Len(s) /\ i - 1 # Len(s)
      BY <1>6, <2>4
    <3>2. stack'[i - 1] = s[i - 1]
      BY <1>8, <3>1
    <3>3. CASE i = Len(s)
      BY <1>5, <1>8, <3>3 DEF ListCalled
    <3>4. CASE i # Len(s)
      BY <1>8, <2>1, <2>4, <3>2, <3>4
    <3>5. QED
      BY <3>3, <3>4
  <2>5. QED
    BY <1>8, <2>3, <2>4 DEF Linked
<1>11. QED
  BY <1>4, <1>5, <1>9, <1>10 DEF NowAt

-----------------------------------------------------------------------------
(* How the steps look at the next character                                *)

(* The places that may be come to when more than the next line             *)
(* continuations have been read ahead                                      *)
AheadPlace == {"command", "command.close", "prefix.consume", "param", "suffix"}
IsAhead(l, v) == l \in AheadPlace \/ (l = "units" /\ v = "not found")

LEMMA SeenChar ==
  ASSUME LexerInv, Reading, NEW l, NEW v, At(l, v)
  PROVE  /\ index \in Nat /\ Len(source) \in Nat /\ index < Len(source)
         /\ l \notin RawPlace => continuing
         /\ continuing => HasChar(source, index)
         /\ ~continuing => Fresh(source, index)
         /\ ReadAhead(Top, value, source, index) /\ Top.at = l /\ value.kind = v
         /\ input' = input /\ source' = source
<1>1. /\ index \in Nat /\ Len(source) \in Nat /\ index < Len(source) /\ Top.at = l /\ value.kind = v
      /\ input' = input /\ source' = source
  BY AtFacts
<1>2. ~NeedsInput /\ ~AtLineContinuation
  BY DEF At
<1>3. continuing => HasChar(source, index)
  <2>1. continuing /\ source[index + 1] = "\\" => index + 1 # Len(source) /\ source[index + 2] # Newline
    BY <1>1, <1>2 DEF NeedsInput, AtLineContinuation, AtBackslash, NextChar
  <2>2. QED
    BY <1>1, <2>1 DEF HasChar
<1>4. QED
  BY <1>1, <1>3 DEF Reading, Looks

LEMMA SeenFresh ==
  ASSUME LexerInv, Reading, NEW l, NEW v, At(l, v), ~IsAhead(l, v)
  PROVE  Fresh(source, index)
<1>1. CASE ~continuing
  BY <1>1, SeenChar
<1>2. CASE continuing
  <2>1. /\ HasChar(source, index) /\ ReadAhead(Top, value, source, index)
        /\ Top.at = l /\ value.kind = v
        /\ index \in Nat /\ Len(source) \in Nat
    BY <1>2, SeenChar
  <2>2. Near(source, index)
    BY <2>1 DEF ReadAhead, IsAhead, AheadPlace
  <2>3. QED
    BY <2>1, <2>2, NearAtChar
<1>3. QED
  BY <1>1, <1>2

LEMMA MovesOn ==
  ASSUME LexerInv, Reading, NEW l, NEW v, At(l, v), ~IsAhead(l, v), Consume \/ Peek
  PROVE  /\ index' \in Nat /\ index' <= Len(source)
         /\ Fresh(source, index') /\ Near(source, index')
<1>1. index \in Nat /\ Len(source) \in Nat /\ index < Len(source)
  BY SeenChar
<1>2. Fresh(source, index)
  BY SeenFresh
<1>3. index' \in Nat /\ index' <= Len(source) /\ index <= index'
  BY <1>1 DEF Consume, Peek
<1>4. Fresh(source, index')
  BY <1>1, <1>2, <1>3, FreshOn
<1>5. QED
  BY <1>1, <1>3, <1>4, FreshIsNear

(* The places where no more is known than that nothing has been read ahead *)
PlainPlace ==
  {"blanks", "comment", "units", "units.escape", "single", "double", "backquote", "backquote.escape",
   "name", "prefix.consume", "param", "param.name", "suffix", "suffix.colon", "switch", "trim.length",
   "trim", "brace.close", "arith", "arith.close", "heredoc", "line"}

LEMMA PlainReading ==
  ASSUME NEW f, NEW v, NowAt(f, v), Near(source, index'),
         continuing' \/ (Fresh(source, index') /\ f.at \in RawPlace),
         \/ f.at \in PlainPlace \cup {"word"} /\ v.kind # "not found"
         \/ f.at = "list" /\ v = NoValue
  PROVE  Reading'
<1>1. /\ Linked(stack', input'.start, source') /\ Top' = f /\ value' = v
      /\ input' = input /\ source' = source
  BY DEF NowAt
<1>2. f.at \in PlainPlace \cup {"word", "list"} /\ (f.at = "units" => v.kind # "not found")
      /\ (f.at = "list" => v = NoValue)
  BY DEF PlainPlace
<1>3. ReadAhead(f, v, source, index')
  BY <1>2 DEF ReadAhead, PlainPlace
<1>4. SinceMark(f, input.start, source, index')
  BY <1>2 DEF SinceMark, PlainPlace
<1>5. Told(f, v, tokens', source, index')
  BY <1>2 DEF Told, PlainPlace
<1>6. ~continuing' => Fresh(source, index') /\ f.at \in RawPlace
  OBVIOUS
<1>7. QED
  BY <1>1, <1>3, <1>4, <1>5, <1>6 DEF Reading, Looks

LEMMA BegunElsewhere ==
  ASSUME NEW f, f.at \notin {"word", "operator", "list"}, NEW start, NEW src
  PROVE  BegunToken(f, start, src)
BY DEF BegunToken

(* Line continuations are read again, or are not by a function that does   *)
(* not know about them.                                                    *)
StaysRaw(l, m) ==
  \/ continuing' = TRUE
  \/ m \in RawPlace
  \/ l \notin RawPlace /\ UNCHANGED continuing

LEMMA RawAfter ==
  ASSUME LexerInv, Reading, NEW l, NEW v, At(l, v), NEW m, StaysRaw(l, m)
  PROVE  continuing' \/ m \in RawPlace
BY SeenChar DEF StaysRaw

LEMMA NoValueIsNothing == NoValue.kind = "none" /\ \A units : Text(units).kind = "text"
BY DEF NoValue, Text

LEMMA GoReading ==
  ASSUME LexerInv, Reading, NEW l, NEW v, At(l, v), ~IsAhead(l, v), Consume \/ Peek,
         NEW f, Go(f), f.at \in PlainPlace, StaysRaw(l, f.at)
  PROVE  Reading'
<1>1. /\ f.at \notin {"word", "operator", "list"} /\ UNCHANGED <<input, source>>
  BY SeenChar DEF PlainPlace
<1>2. NowAt(f, NoValue)
  BY <1>1, BegunElsewhere, GoLinked
<1>3. QED
  BY <1>2, MovesOn, RawAfter, NoValueIsNothing, PlainReading

LEMMA CallReading ==
  ASSUME LexerInv, Reading, NEW l, NEW v, At(l, v), ~IsAhead(l, v), Consume \/ Peek,
         NEW f, NEW g, Call(f, <<g>>), f.at \in PlainPlace, g.at \in PlainPlace, StaysRaw(l, g.at)
  PROVE  Reading'
<1>1. /\ f.at \notin {"word", "operator", "list"} /\ g.at \notin {"word", "operator", "list"}
      /\ UNCHANGED <<input, source>>
  BY SeenChar DEF PlainPlace
<1>2. ListCalled(f, g)
  BY <1>1 DEF ListCalled
<1>3. NowAt(g, NoValue)
  BY <1>1, <1>2, BegunElsewhere, CallLinked
<1>4. QED
  BY <1>3, MovesOn, RawAfter, NoValueIsNothing, PlainReading

LEMMA CallTwoReading ==
  ASSUME LexerInv, Reading, NEW l, NEW v, At(l, v), ~IsAhead(l, v), Consume \/ Peek,
         NEW f, NEW g, NEW h, Call(f, <<g, h>>),
         f.at \in PlainPlace, g.at \in PlainPlace, h.at \in PlainPlace, StaysRaw(l, h.at)
  PROVE  Reading'
<1>1. /\ f.at \notin {"word", "operator", "list"} /\ g.at \notin {"word", "operator", "list"}
      /\ h.at \notin {"word", "operator", "list"}
      /\ UNCHANGED <<input, source>>
  BY SeenChar DEF PlainPlace
<1>2. stack' = Front(stack) \o <<f>> \o <<g, h>> /\ value' = NoValue
  BY DEF Call
<1>3. NowAt(h, value')
  BY <1>1, <1>2, BegunElsewhere, CallTwoLinked
<1>4. QED
  BY <1>2, <1>3, MovesOn, RawAfter, NoValueIsNothing, PlainReading

LEMMA UnitReading ==
  ASSUME LexerInv, Reading, NEW l, NEW v, At(l, v), ~IsAhead(l, v), Consume \/ Peek,
         NEW u, ReturnUnit(u), l \in UnitPlace, StaysRaw(l, "units")
  PROVE  Reading'
<1>1. UNCHANGED <<input, source>> /\ Top.at = l
  BY SeenChar
<1>2. NowAt(Top', NoValue) /\ Top'.at = "units"
  BY <1>1, ReturnUnitLinked
<1>3. "units" \in PlainPlace
  BY DEF PlainPlace
<1> DEFINE f == Top'
<1> HIDE DEF f
<1>4. NowAt(f, NoValue) /\ f.at = "units"
  BY <1>2 DEF f
<1>5. QED
  BY <1>3, <1>4, MovesOn, RawAfter, NoValueIsNothing, PlainReading

LEMMA TextReading ==
  ASSUME LexerInv, Reading, NEW l \in {"units", "line"}, NEW v, At(l, v), ~IsAhead(l, v), Peek,
         NEW units, Return(Text(units)), continuing'
  PROVE  Reading'
<1>1. UNCHANGED <<input, source>> /\ Top.at = l
  BY SeenChar
<1>2. NowAt(Caller, Text(units)) /\ l \in Callees(Caller.at)
  BY <1>1, ReturnLinked
<1>3. Caller.at \in {"from_str", "word", "double", "switch", "trim", "arith", "heredoc"}
  <2>1. /\ l \notin TokenPlace \cup UnitPlace \cup {"heredoc", "list"}
    BY DEF TokenPlace, UnitPlace
  <2>2. QED
    BY <1>2, <2>1 DEF Callees
<1>4. Near(source, index')
  BY MovesOn
<1>5. CASE Caller.at = "from_str"
  <2>1. Text(units).kind = "text" /\ Text(units) # NoValue
    BY NoValueIsNothing
  <2>2. ReadAhead(Caller, Text(units), source, index')
    BY <1>4, <1>5 DEF ReadAhead
  <2>3. SinceMark(Caller, input.start, source, index')
    BY <1>5 DEF SinceMark
  <2>4. Told(Caller, Text(units), tokens', source, index')
    BY <1>5, <2>1 DEF Told
  <2>5. QED
    BY <1>2, <2>2, <2>3, <2>4 DEF NowAt, Reading, Looks
<1>6. CASE Caller.at # "from_str"
  <2>1. Caller.at \in PlainPlace \cup {"word"}
    BY <1>3, <1>6 DEF PlainPlace
  <2> DEFINE f == Caller
             w == Text(units)
  <2>2. NowAt(f, w) /\ f.at \in PlainPlace \cup {"word"} /\ w.kind # "not found"
    BY <1>2, <2>1, NoValueIsNothing
  <2> HIDE DEF f, w
  <2>3. QED
    BY <1>4, <2>2, PlainReading
<1>7. QED
  BY <1>5, <1>6

LEMMA SameReading ==
  ASSUME Reading, UNCHANGED <<input, source, index, continuing, stack, value>>,
         Top.at # "tokens" \/ value # NoValue \/ UNCHANGED tokens
  PROVE  Reading'
<1>1. Top' = Top
  BY DEF Top
<1>2. Told(Top, value, tokens', source, index)
  BY DEF Reading, Looks, Told
<1>3. QED
  BY <1>1, <1>2 DEF Reading, Looks

LEMMA FailReading ==
  ASSUME LexerInv, Reading, NEW l, NEW v, At(l, v), Fail
  PROVE  Reading'
BY SeenChar, SameReading DEF Fail, Peek, End

-----------------------------------------------------------------------------
(* Blanks, quotes and names                                                *)

LEMMA PlainFrames ==
  ASSUME IsFrame(Top), NEW l, NEW u, NEW context, NEW delimiters, NEW escapable
  PROVE  /\ To(l).at = l /\ With(u).at = Top.at /\ Resumed(l, u).at = l
         /\ Named(l).at = l /\ Operated(l).at = l
         /\ WordFrame(context, delimiters).at = "units"
         /\ TextFrame(delimiters, escapable).at = "units" /\ ArithText.at = "units"
         /\ BackquoteFrame.at = "backquote"
BY TopEdited, TopNamed DEF WordFrame, TextFrame, UnitsFrame, ArithText, BackquoteFrame

LEMMA EmptyKey ==
  /\ <<>> # <<Newline>> /\ IsSeq(<<>>)
  /\ OperatorFrame.at = "operator" /\ OperatorFrame.mark = index /\ OperatorFrame.key = <<>>
  /\ "key" \in DOMAIN OperatorFrame
<1>1. <<>> \in Seq({}) /\ Len(<<>>) = 0 /\ Len(<<Newline>>) = 1
  OBVIOUS
<1>2. QED
  BY <1>1, IsSeqOfSeq DEF OperatorFrame

LEMMA OperatorBegins ==
  ASSUME LexerInv, Reading, NEW l, NEW v, At(l, v), ~IsAhead(l, v), Peek,
         HasChar(source, index), continuing', Go(OperatorFrame)
  PROVE  Reading'
<1>1. UNCHANGED <<input, source>> /\ index' = index
  BY SeenChar DEF Peek
<1>2. BegunToken(OperatorFrame, input.start, source)
  BY EmptyKey DEF BegunToken
<1>3. NowAt(OperatorFrame, NoValue)
  BY <1>1, <1>2, EmptyKey, GoLinked
<1>4. ReadAhead(OperatorFrame, NoValue, source, index')
  BY MovesOn, EmptyKey DEF ReadAhead
<1>5. SinceMark(OperatorFrame, input.start, source, index')
  BY <1>1, EmptyKey DEF SinceMark
<1>6. Told(OperatorFrame, NoValue, tokens', source, index')
  BY EmptyKey DEF Told
<1>7. QED
  BY <1>3, <1>4, <1>5, <1>6 DEF NowAt, Reading, Looks

LEMMA BlanksReading ==
  ASSUME LexerInv, Reading, Blanks
  PROVE  Reading'
<1>1. At("blanks", "none")
  BY DEF Blanks
<1>2. Top.at = "blanks" /\ ~IsAhead("blanks", "none") /\ "blanks" \in PlainPlace
      /\ "comment" \in PlainPlace /\ "blanks" \notin RawPlace /\ "comment" \in RawPlace
  BY <1>1, SeenChar DEF IsAhead, AheadPlace, PlainPlace, RawPlace
<1>3. CASE Consume /\ Go(Top) /\ Quiet
  BY <1>1, <1>2, <1>3, GoReading DEF StaysRaw, Quiet
<1>4. CASE Consume /\ Go(To("comment"))
  <2>1. To("comment").at = "comment"
    BY <1>1, AtFacts, PlainFrames
  <2>2. QED
    BY <1>1, <1>2, <1>4, <2>1, GoReading DEF StaysRaw
<1>5. CASE Peek /\ Go(OperatorFrame) /\ Quiet
  <2>1. continuing /\ HasChar(source, index)
    BY <1>1, <1>2, SeenChar
  <2>2. QED
    BY <1>1, <1>2, <1>5, <2>1, OperatorBegins DEF Quiet
<1>6. QED
  BY <1>3, <1>4, <1>5 DEF Blanks

LEMMA CommentReading ==
  ASSUME LexerInv, Reading, Comment
  PROVE  Reading'
<1>1. At("comment", "none")
  BY DEF Comment
<1>2. Top.at = "comment" /\ ~IsAhead("comment", "none") /\ "comment" \in PlainPlace
      /\ "comment" \in RawPlace
  BY <1>1, SeenChar DEF IsAhead, AheadPlace, PlainPlace, RawPlace
<1>3. CASE Consume /\ Go(Top)
  BY <1>1, <1>2, <1>3, GoReading DEF StaysRaw
<1>4. CASE /\ NextChar \in {Newline, EndOfInput} /\ Peek /\ Go(OperatorFrame)
           /\ EnableLineContinuation
  <2>1. source[index + 1] # "\\"
    BY <1>4 DEF NextChar, Newline, EndOfInput
  <2>2. HasChar(source, index)
    BY <1>1, <2>1, SeenChar DEF HasChar
  <2>3. QED
    BY <1>1, <1>2, <1>4, <2>2, OperatorBegins DEF EnableLineContinuation
<1>5. QED
  BY <1>3, <1>4 DEF Comment

LEMMA EscapeReading ==
  ASSUME LexerInv, Reading, Escape
  PROVE  Reading'
<1>1. At("units.escape", "none") /\ Quiet
  BY DEF Escape
<1>2. /\ ~IsAhead("units.escape", "none") /\ "units" \in PlainPlace
      /\ StaysRaw("units.escape", "units")
  BY <1>1 DEF IsAhead, AheadPlace, PlainPlace, RawPlace, StaysRaw, Quiet
<1>3. PICK u : (Consume \/ Peek) /\ Go(Resumed("units", u))
  BY DEF Escape, ConsumeIf, NoneOf
<1>4. Resumed("units", u).at = "units"
  BY <1>1, AtFacts, PlainFrames
<1>5. QED
  BY <1>1, <1>2, <1>3, <1>4, GoReading

LEMMA SingleQuoteReading ==
  ASSUME LexerInv, Reading, SingleQuote
  PROVE  Reading'
<1>1. At("single", "none")
  BY DEF SingleQuote
<1>2. ~IsAhead("single", "none") /\ "single" \in PlainPlace /\ "single" \in RawPlace
      /\ "single" \in UnitPlace
  BY DEF IsAhead, AheadPlace, PlainPlace, RawPlace, UnitPlace
<1>3. CASE Consume /\ ReturnUnit(SingleQuoted(Top.content)) /\ EnableLineContinuation
  <2>1. StaysRaw("single", "units")
    BY <1>3 DEF StaysRaw, EnableLineContinuation
  <2>2. QED
    BY <1>1, <1>2, <1>3, <2>1, UnitReading
<1>4. CASE Consume /\ Go([Top EXCEPT !.content = Append(@, NextChar)])
  <2>1. [Top EXCEPT !.content = Append(@, NextChar)].at = "single"
    BY <1>1, AtFacts DEF IsFrame
  <2>2. QED
    BY <1>1, <1>2, <1>4, <2>1, GoReading DEF StaysRaw
<1>5. CASE Fail
  BY <1>1, <1>5, FailReading
<1>6. QED
  BY <1>3, <1>4, <1>5 DEF SingleQuote

LEMMA DoubleQuoteReading ==
  ASSUME LexerInv, Reading, DoubleQuote
  PROVE  Reading'
<1>1. At("double", "text")
  BY DEF DoubleQuote
<1>2. ~IsAhead("double", "text") /\ "double" \in UnitPlace /\ "double" \notin RawPlace
  BY DEF IsAhead, AheadPlace, RawPlace, UnitPlace
<1>3. CASE Consume /\ ReturnUnit(DoubleQuoted(value.units)) /\ Quiet
  BY <1>1, <1>2, <1>3, UnitReading DEF StaysRaw, Quiet
<1>4. CASE Fail
  BY <1>1, <1>4, FailReading
<1>5. QED
  BY <1>3, <1>4 DEF DoubleQuote

LEMMA BackquoteReading ==
  ASSUME LexerInv, Reading, Backquote
  PROVE  Reading'
<1>1. At("backquote", "none")
  BY DEF Backquote
<1>2. /\ ~IsAhead("backquote", "none") /\ "backquote" \in UnitPlace /\ "backquote" \notin RawPlace
      /\ {"backquote", "backquote.escape"} \subseteq PlainPlace
      /\ Top.at = "backquote"
  BY <1>1, SeenChar DEF IsAhead, AheadPlace, RawPlace, UnitPlace, PlainPlace
<1>3. CASE Consume /\ Go(To("backquote.escape")) /\ Quiet
  <2>1. To("backquote.escape").at = "backquote.escape"
    BY <1>1, AtFacts, PlainFrames
  <2>2. QED
    BY <1>1, <1>2, <1>3, <2>1, GoReading DEF StaysRaw, Quiet
<1>4. CASE Consume /\ ReturnUnit(Backquoted(Top.units)) /\ Quiet
  BY <1>1, <1>2, <1>4, UnitReading DEF StaysRaw, Quiet
<1>5. CASE Consume /\ Go(With(Literal(NextChar))) /\ Quiet
  <2>1. With(Literal(NextChar)).at = "backquote"
    BY <1>1, <1>2, AtFacts, PlainFrames
  <2>2. QED
    BY <1>1, <1>2, <1>5, <2>1, GoReading DEF StaysRaw, Quiet
<1>6. CASE Fail
  BY <1>1, <1>6, FailReading
<1>7. QED
  BY <1>3, <1>4, <1>5, <1>6 DEF Backquote

LEMMA BackquoteEscapeReading ==
  ASSUME LexerInv, Reading, BackquoteEscape
  PROVE  Reading'
<1>1. At("backquote.escape", "none") /\ Quiet
  BY DEF BackquoteEscape
<1>2. /\ ~IsAhead("backquote.escape", "none") /\ "backquote" \in PlainPlace
      /\ StaysRaw("backquote.escape", "backquote")
  BY <1>1 DEF IsAhead, AheadPlace, PlainPlace, RawPlace, StaysRaw, Quiet
<1>3. PICK u : (Consume \/ Peek) /\ Go(Resumed("backquote", u))
  BY DEF BackquoteEscape, ConsumeIf, NoneOf
<1>4. Resumed("backquote", u).at = "backquote"
  BY <1>1, AtFacts, PlainFrames
<1>5. QED
  BY <1>1, <1>2, <1>3, <1>4, GoReading

LEMMA NameReading ==
  ASSUME LexerInv, Reading, Name
  PROVE  Reading'
<1>1. At("name", "none") /\ Quiet
  BY DEF Name
<1>2. /\ ~IsAhead("name", "none") /\ "name" \in PlainPlace /\ "name" \in UnitPlace
      /\ \A m : StaysRaw("name", m)
      /\ Top.at = "name"
  BY <1>1, SeenChar DEF IsAhead, AheadPlace, PlainPlace, RawPlace, StaysRaw, Quiet, UnitPlace
<1>3. CASE Consume /\ Go(Named(Top.at))
  <2>1. Named(Top.at).at = "name"
    BY <1>1, <1>2, AtFacts, PlainFrames
  <2>2. QED
    BY <1>1, <1>2, <1>3, <2>1, GoReading
<1>4. CASE Peek /\ ReturnUnit(RawParam(Top.name))
  BY <1>1, <1>2, <1>4, UnitReading
<1>5. QED
  BY <1>3, <1>4 DEF Name, ConsumeIf, NoneOf

-----------------------------------------------------------------------------
(* Operators and words                                                     *)

KeyChar == {Newline, "(", ")", "&", ";", "|", "<", ">", "-"}
LEMMA ShortSequences ==
  ASSUME NEW S, NEW a \in S, NEW b \in S, NEW c \in S
  PROVE  /\ <<a>> \in Seq(S) /\ Len(<<a>>) = 1 /\ <<a>>[1] = a
         /\ <<a, b>> \in Seq(S) /\ Len(<<a, b>>) = 2 /\ <<a, b>>[1] = a
         /\ <<a, b, c>> \in Seq(S) /\ Len(<<a, b, c>>) = 3 /\ <<a, b, c>>[1] = a
OBVIOUS

LEMMA OperatorsOfOne ==
  \A op \in Operators : /\ op \in Seq(KeyChar) /\ Len(op) \in 1 .. 3
                        /\ op[1] \in {Newline, ")"} => op = <<op[1]>>
<1> DEFINE Others == {"(", "&", ";", "|", "<", ">", "-"}
<1>1. KeyChar = {Newline, ")"} \cup Others
  BY DEF KeyChar
<1>2. Others \cap {Newline, ")"} = {}
  BY DEF Newline
<1>3. \A op \in Operators : \/ \E a \in KeyChar : op = <<a>>
                            \/ \E a \in Others : \E b \in Others : op = <<a, b>>
                            \/ \E a \in Others : \E b \in Others : \E c \in Others : op = <<a, b, c>>
  BY DEF Operators, KeyChar
<1> HIDE DEF Others
<1> SUFFICES ASSUME NEW op \in Operators
             PROVE  /\ op \in Seq(KeyChar) /\ Len(op) \in 1 .. 3
                    /\ op[1] \in {Newline, ")"} => op = <<op[1]>>
  OBVIOUS
<1>4. ASSUME NEW a \in KeyChar, op = <<a>>
      PROVE  /\ op \in Seq(KeyChar) /\ Len(op) = 1 /\ op = <<op[1]>>
  BY <1>4, ShortSequences
<1>5. ASSUME NEW a \in Others, NEW b \in Others, op = <<a, b>>
      PROVE  /\ op \in Seq(KeyChar) /\ Len(op) = 2 /\ op[1] = a
  BY <1>1, <1>5, ShortSequences
<1>6. ASSUME NEW a \in Others, NEW b \in Others, NEW c \in Others, op = <<a, b, c>>
      PROVE  /\ op \in Seq(KeyChar) /\ Len(op) = 3 /\ op[1] = a
  BY <1>1, <1>6, ShortSequences
<1>7. QED
  BY <1>2, <1>3, <1>4, <1>5, <1>6

LEMMA PrefixOfOne ==
  ASSUME NEW c, NEW S, NEW t \in Seq(S), IsPrefix(<<c>>, t)
  PROVE  t[1] = c
<1>1. Len(<<c>>) = 1 /\ <<c>> \in Seq({c}) /\ <<c>>[1] = c
  OBVIOUS
<1>2. 1 <= Len(t) /\ SubSeq(<<c>>, 1, 1) = SubSeq(t, 1, 1)
  BY <1>1 DEF IsPrefix
<1>3. SubSeq(<<c>>, 1, 1)[1] = c
  BY <1>1, SubSeqProperties
<1>4. SubSeq(t, 1, 1)[1] = t[1]
  BY <1>2, SubSeqProperties, ElementOfSeq
<1>5. QED
  BY <1>2, <1>3, <1>4

(* After a newline and a parenthesis no operator goes on.                  *)
LEMMA LeafKeys ==
  IsLeaf(<<Newline>>) /\ IsLeaf(<<")">>) /\ IsKey(<<")">>)
<1>1. ASSUME NEW c \in {Newline, ")"}
      PROVE  IsLeaf(<<c>>)
  <2> SUFFICES ASSUME NEW op \in Operators, IsPrefix(<<c>>, op)
               PROVE  op = <<c>>
    BY DEF IsLeaf
  <2>1. op[1] = c
    BY OperatorsOfOne, PrefixOfOne
  <2>2. QED
    BY <2>1, OperatorsOfOne
<1>2. <<")">> \in Operators
  BY DEF Operators
<1>3. IsPrefix(<<")">>, <<")">>)
  BY DEF IsPrefix
<1>4. QED
  BY <1>1, <1>2, <1>3 DEF IsKey

LEMMA AppendToEmpty ==
  ASSUME NEW c
  PROVE  Append(<<>>, c) = <<c>>
OBVIOUS

LEMMA LongerKey ==
  ASSUME NEW key, IsSeq(key), NEW c
  PROVE  /\ IsSeq(Append(key, c)) /\ Append(key, c) # <<>>
         /\ Append(key, c) = <<Newline>> => c = Newline
<1>1. /\ IsSeq(Append(key, c)) /\ Append(key, c) # <<>> /\ Last(Append(key, c)) = c
  BY LastOfAppend
<1>2. Len(<<Newline>>) = 1 /\ <<Newline>>[1] = Newline
  OBVIOUS
<1>3. Last(<<Newline>>) = Newline
  BY <1>2 DEF Last
<1>4. QED
  BY <1>1, <1>3

(* The caller of a token's function                                        *)
LEMMA TokenCaller ==
  ASSUME LexerInv, Reading, Top.at \in TokenPlace
  PROVE  /\ Caller.at \in {"tokens", "from_str", "list"}
         /\ input.start = "operator" => Caller.at = "from_str"
<1>1. Top.at \notin {"tokens", "from_str"} /\ Top.at \notin TextPlace \cup UnitPlace \cup {"heredoc", "list", "line"}
  BY DEF TokenPlace, TextPlace, UnitPlace
<1>2. Top.at \in Callees(Caller.at)
  BY <1>1, TopIsCalled DEF IsCallee
<1>3. Caller.at \in {"tokens", "from_str", "list"}
  BY <1>1, <1>2 DEF Callees
<1>4. ASSUME input.start = "operator"
      PROVE  Caller.at = "from_str"
  <2>1. IsSeq(stack) /\ stack # <<>> /\ \A i \in 1 .. Len(stack) : OnlyOperator(stack, i)
    BY <1>4 DEF LexerInv, WellStacked
  <2>2. /\ Len(stack) \in Nat \ {0} /\ IsSeq(Front(stack)) /\ Len(Front(stack)) = Len(stack) - 1
        /\ \A i \in 1 .. Len(stack) - 1 : Front(stack)[i] = stack[i]
    BY <2>1, FrontElements
  <2>3. Front(stack) # <<>>
    BY <1>1, FramesLinked
  <2>4. Len(stack) - 1 # 0 /\ Caller = Front(stack)[Len(stack) - 1]
    BY <2>2, <2>3, EmptyStack, FrontElements DEF Caller
  <2>5. Len(stack) - 1 \in 1 .. Len(stack) - 1 /\ Len(stack) - 1 \in 1 .. Len(stack)
    BY <2>2, <2>4
  <2>6. Caller.at \in {"from_str", "operator"}
    BY <2>1, <2>2, <2>4, <2>5 DEF OnlyOperator
  <2>7. QED
    BY <1>3, <2>6
<1>5. QED
  BY <1>3, <1>4

LEMMA TokenReading ==
  ASSUME LexerInv, Reading, NEW l \in {"operator", "word"}, NEW v, At(l, v), Consume \/ Peek, Quiet,
         NEW t, Return(t), t.kind \notin {"none", "here-doc", "not found"},
         input.start # "operator" =>
           HasChar(source, t.begin) /\ (source[t.begin + 1] = ")" => Near(source, t.begin + 1)),
         t.kind = "operator" /\ t.key = <<Newline>> => index' = Len(source)
  PROVE  Reading'
<1>1. ~IsAhead(l, v) /\ l \notin RawPlace /\ l \in TokenPlace /\ l \notin {"tokens", "from_str"}
  BY DEF IsAhead, AheadPlace, RawPlace, TokenPlace
<1>2. UNCHANGED <<input, source>> /\ Top.at = l /\ continuing
  BY <1>1, SeenChar
<1>3. NowAt(Caller, t)
  BY <1>1, <1>2, ReturnLinked
<1>4. /\ Caller.at \in {"tokens", "from_str", "list"}
      /\ Caller.at # "from_str" => input.start # "operator"
  BY <1>1, <1>2, TokenCaller
<1>5. Near(source, index') /\ continuing'
  BY <1>1, <1>2, MovesOn DEF Quiet
<1>6. ReadAhead(Caller, t, source, index')
  BY <1>4, <1>5 DEF ReadAhead
<1>7. SinceMark(Caller, input.start, source, index')
  BY <1>4 DEF SinceMark
<1>8. t # NoValue
  BY NoValueIsNothing
<1>9. Told(Caller, t, tokens', source, index')
  BY <1>4, <1>8 DEF Told
<1>10. QED
  BY <1>3, <1>5, <1>6, <1>7, <1>9 DEF NowAt, Reading, Looks

LEMMA OperatorReading ==
  ASSUME LexerInv, Reading, Operator
  PROVE  Reading'
<1> DEFINE key == Append(Top.key, NextChar)
           start == input.start
<1>1. At("operator", "none") /\ Quiet
  BY DEF Operator
<1>2. ~IsAhead("operator", "none") /\ "operator" \notin RawPlace
  BY DEF IsAhead, AheadPlace, RawPlace
<1>3. /\ index \in Nat /\ Len(source) \in Nat /\ index < Len(source)
      /\ continuing /\ HasChar(source, index) /\ UNCHANGED <<input, source>>
      /\ Top.at = "operator" /\ NextChar = source[index + 1] /\ continuing'
  BY <1>1, <1>2, SeenChar DEF NextChar, Quiet
<1>4. Fresh(source, index)
  BY <1>1, <1>2, SeenFresh
<1>5. IsFrame(Top) /\ "at" \in DOMAIN Top /\ "mark" \in DOMAIN Top /\ Top.mark \in Nat
  BY <1>1, <1>3, AtFacts DEF IsFrame, Marked, MarkedPlace
<1>6. /\ "key" \in DOMAIN Top /\ IsSeq(Top.key) /\ Top.key # <<Newline>>
      /\ Top.key # <<>> /\ start # "operator" =>
           HasChar(source, Top.mark) /\ source[Top.mark + 1] # ")"
  BY <1>3, FramesLinked DEF BegunToken
<1>7. Top.key = <<>> /\ start # "operator" => Top.mark = index
  BY <1>3 DEF Reading, Looks, SinceMark
<1>8. start # "operator" /\ (Top.key # <<>> \/ NextChar # ")") =>
        HasChar(source, Top.mark) /\ source[Top.mark + 1] # ")"
  BY <1>3, <1>6, <1>7
<1>9. IsSeq(key) /\ key # <<>> /\ (key = <<Newline>> => NextChar = Newline)
  BY <1>6, LongerKey
<1>10. Top.key = <<>> => key = <<NextChar>>
  BY AppendToEmpty
<1> HIDE DEF key, start
<1>11. ASSUME Consume \/ Peek
       PROVE  Near(source, index')
  BY <1>1, <1>2, <1>11, MovesOn
<1>12. CASE IsKey(key) /\ ~IsLeaf(key) /\ Consume /\ Go([Top EXCEPT !.key = key])
  <2> DEFINE f == [Top EXCEPT !.key = key]
  <2>1. f.at = "operator" /\ f.key = key /\ f.mark = Top.mark /\ "key" \in DOMAIN f
    BY <1>3, <1>5, <1>6
  <2> HIDE DEF f
  <2>2. key # <<Newline>> /\ (Top.key = <<>> => NextChar # ")")
    BY <1>10, <1>12, LeafKeys
  <2>3. BegunToken(f, input.start, source)
    BY <1>8, <1>9, <2>1, <2>2 DEF BegunToken, start
  <2>4. Go(f)
    BY <1>12 DEF f
  <2>5. NowAt(f, NoValue)
    BY <1>3, <2>1, <2>3, <2>4, GoLinked
  <2>6. ReadAhead(f, NoValue, source, index')
    BY <1>11, <1>12, <2>1 DEF ReadAhead
  <2>7. SinceMark(f, input.start, source, index') /\ Told(f, NoValue, tokens', source, index')
    BY <1>9, <2>1 DEF SinceMark, Told
  <2>8. QED
    BY <1>3, <2>5, <2>6, <2>7 DEF NowAt, Reading, Looks
<1>13. CASE /\ IsKey(key) /\ IsLeaf(key) /\ Consume
            /\ Return(Token("operator", key, Literals(key)))
  <2> DEFINE t == Token("operator", key, Literals(key))
  <2>1. t.kind = "operator" /\ t.key = key /\ t.begin = Top.mark
    BY DEF Token
  <2> HIDE DEF t
  <2>2. start # "operator" =>
          HasChar(source, Top.mark) /\ (source[Top.mark + 1] = ")" => Near(source, Top.mark + 1))
    <3>1. index' = index + 1 /\ Near(source, index')
      BY <1>11, <1>13 DEF Consume
    <3>2. QED
      BY <1>3, <1>7, <1>8, <3>1
  <2>3. key = <<Newline>> => index' = Len(source)
    <3>1. index' = index + 1
      BY <1>13 DEF Consume
    <3>2. index + 1 \in index + 1 .. Len(source)
      BY <1>3
    <3>3. NextChar = Newline => index + 1 = Len(source)
      BY <1>3, <1>4, <3>2 DEF Fresh
    <3>4. QED
      BY <1>9, <3>1, <3>3
  <2>4. Return(t)
    BY <1>13 DEF t
  <2>5. QED
    BY <1>1, <1>13, <2>1, <2>2, <2>3, <2>4, TokenReading DEF start
<1>14. CASE ~IsKey(key) /\ Top.key # <<>> /\ Peek /\ Return(Token("operator", Top.key, Literals(Top.key)))
  <2> DEFINE t == Token("operator", Top.key, Literals(Top.key))
  <2>1. t.kind = "operator" /\ t.key = Top.key /\ t.begin = Top.mark
    BY DEF Token
  <2> HIDE DEF t
  <2>2. start # "operator" =>
          HasChar(source, Top.mark) /\ (source[Top.mark + 1] = ")" => Near(source, Top.mark + 1))
    BY <1>8, <1>14
  <2>3. Return(t)
    BY <1>14 DEF t
  <2>4. QED
    BY <1>1, <1>6, <1>14, <2>1, <2>2, <2>3, TokenReading DEF start
<1>15. CASE ~IsKey(key) /\ Top.key = <<>> /\ Peek /\ start = "operator" /\ Return(NotFound)
  <2>1. NowAt(Caller, NotFound)
    BY <1>3, <1>15, ReturnLinked
  <2>2. Caller.at = "from_str"
    BY <1>3, <1>15, TokenCaller DEF TokenPlace, start
  <2>3. NotFound # NoValue
    BY DEF NotFound, NoValue
  <2>4. ReadAhead(Caller, NotFound, source, index')
    BY <1>11, <1>15, <2>2 DEF ReadAhead
  <2>5. SinceMark(Caller, input.start, source, index') /\ Told(Caller, NotFound, tokens', source, index')
    BY <2>2, <2>3 DEF SinceMark, Told
  <2>6. QED
    BY <1>3, <2>1, <2>4, <2>5 DEF NowAt, Reading, Looks
<1>16. CASE /\ ~IsKey(key) /\ Top.key = <<>> /\ Peek /\ start # "operator"
            /\ Call(To("word"), <<WordFrame("Word", TokenDelimiter)>>)
  <2> DEFINE f == To("word")
             g == WordFrame("Word", TokenDelimiter)
  <2>1. f.at = "word" /\ f.mark = Top.mark /\ g.at = "units"
    BY <1>3, <1>5, TopEdited, PlainFrames DEF Marked, MarkedPlace
  <2> HIDE DEF f, g
  <2>2. NextChar # ")"
    BY <1>10, <1>16, LeafKeys
  <2>3. BegunToken(f, input.start, source) /\ BegunToken(g, input.start, source) /\ ListCalled(f, g)
    BY <1>8, <1>16, <2>1, <2>2 DEF BegunToken, ListCalled
  <2>4. Call(f, <<g>>)
    BY <1>16 DEF f, g
  <2>5. NowAt(g, NoValue)
    BY <1>3, <2>1, <2>3, <2>4, CallLinked
  <2>6. g.at \in PlainPlace
    BY <2>1 DEF PlainPlace
  <2>7. QED
    BY <1>3, <1>11, <1>16, <2>5, <2>6, NoValueIsNothing, PlainReading
<1>17. QED
  BY <1>12, <1>13, <1>14, <1>15, <1>16 DEF Operator, key, start

LEMMA WordTokenReading ==
  ASSUME LexerInv, Reading, WordToken
  PROVE  Reading'
<1> DEFINE word == ParseTildeFront(value.units)
           t == Token(TokenId(word), <<>>, word)
<1>1. At("word", "text") /\ Peek /\ Quiet /\ Return(t)
  BY DEF WordToken
<1>2. t.begin = Top.mark /\ t.kind = TokenId(word)
  BY DEF Token
<1>3. TokenId(word) \in {"end", "keyword", "io", "word"}
  BY DEF TokenId
<1>4. HasChar(source, Top.mark) /\ source[Top.mark + 1] # ")"
  <2>1. Top.at = "word"
    BY <1>1, SeenChar
  <2>2. QED
    BY <2>1, FramesLinked DEF BegunToken
<1> HIDE DEF t
<1>5. QED
  BY <1>1, <1>2, <1>3, <1>4, TokenReading

-----------------------------------------------------------------------------
(* Units and dollars                                                       *)

LEMMA UnitsReading ==
  ASSUME LexerInv, Reading, Units
  PROVE  Reading'
<1>1. At("units", "none")
  BY DEF Units
<1>2. /\ ~IsAhead("units", "none") /\ "units" \notin RawPlace
      /\ {"units", "units.escape", "single", "double", "backquote"} \subseteq PlainPlace
      /\ "single" \in RawPlace
  BY DEF IsAhead, AheadPlace, PlainPlace, RawPlace
<1>3. Top.at = "units" /\ IsFrame(Top) /\ continuing /\ UNCHANGED <<input, source>>
      /\ index \in Nat /\ NextChar = source[index + 1]
  BY <1>1, <1>2, AtFacts, SeenChar DEF NextChar
<1>4. CASE /\ Consume /\ Call(Top, <<[at |-> "single", content |-> <<>>]>>)
  <2> DEFINE g == [at |-> "single", content |-> <<>>]
  <2>1. g.at = "single" /\ Call(Top, <<g>>)
    BY <1>4
  <2> HIDE DEF g
  <2>2. StaysRaw("units", "single")
    BY <1>2 DEF StaysRaw
  <2>3. QED
    BY <1>1, <1>2, <1>3, <1>4, <2>1, <2>2, CallReading
<1>5. CASE /\ Consume
           /\ Call(Top, <<[at |-> "double"], TextFrame({"\""}, DoubleQuoteEscapable)>>)
           /\ UNCHANGED continuing
  <2> DEFINE g == [at |-> "double"]
             h == TextFrame({"\""}, DoubleQuoteEscapable)
  <2>1. g.at = "double" /\ h.at = "units"
    BY <1>3, PlainFrames
  <2>2. Call(Top, <<g, h>>)
    BY <1>5
  <2> HIDE DEF g, h
  <2>3. QED
    BY <1>1, <1>2, <1>3, <1>5, <2>1, <2>2, CallTwoReading DEF StaysRaw
<1>6. CASE TextUnit /\ UNCHANGED continuing
  <2>1. StaysRaw("units", "units") /\ StaysRaw("units", "units.escape") /\ StaysRaw("units", "backquote")
    BY <1>2, <1>6 DEF StaysRaw
  <2>2. CASE Consume /\ Go(To("units.escape"))
    <3>1. To("units.escape").at = "units.escape"
      BY <1>3, PlainFrames
    <3>2. QED
      BY <1>1, <1>2, <2>1, <2>2, <3>1, GoReading
  <2>3. CASE Consume /\ Call(Top, <<BackquoteFrame>>)
    <3>1. BackquoteFrame.at = "backquote"
      BY <1>3, PlainFrames
    <3>2. QED
      BY <1>1, <1>2, <1>3, <2>1, <2>3, <3>1, CallReading
  <2>4. CASE Consume /\ Go(With(Literal(NextChar)))
    <3>1. With(Literal(NextChar)).at = "units"
      BY <1>3, PlainFrames
    <3>2. QED
      BY <1>1, <1>2, <2>1, <2>4, <3>1, GoReading
  <2>5. CASE NextChar = "$" /\ Consume /\ Call(Top, <<DollarFrame("dollar", index)>>)
    <3> DEFINE g == DollarFrame("dollar", index)
    <3>1. g.at = "dollar" /\ g.mark = index
      BY DEF DollarFrame
    <3> HIDE DEF g
    <3>2. BegunToken(Top, input.start, source) /\ BegunToken(g, input.start, source) /\ ListCalled(Top, g)
      BY <1>3, <3>1 DEF BegunToken, ListCalled
    <3>3. NowAt(g, NoValue)
      BY <1>3, <2>5, <3>2, CallLinked DEF g
    <3>4. index' = index + 1 /\ Near(source, index')
      BY <1>1, <1>2, <2>5, MovesOn DEF Consume
    <3>5. ReadAhead(g, NoValue, source, index')
      BY <3>1, <3>4 DEF ReadAhead
    <3>6. SinceMark(g, input.start, source, index')
      <4>1. Continuations(source, index + 1, index + 1) /\ index < index + 1
        BY <1>3, NoContinuation
      <4>2. QED
        BY <1>3, <2>5, <3>1, <3>4, <4>1 DEF SinceMark
    <3>7. Told(g, NoValue, tokens', source, index')
      BY <3>1 DEF Told
    <3>8. QED
      BY <1>3, <1>6, <3>3, <3>5, <3>6, <3>7 DEF NowAt, Reading, Looks
  <2>6. QED
    BY <1>6, <2>2, <2>3, <2>4, <2>5 DEF TextUnit, SpecialChar
<1>7. CASE Peek /\ Return(Text(Top.units)) /\ UNCHANGED continuing
  BY <1>1, <1>2, <1>3, <1>7, TextReading
<1>8. QED
  BY <1>4, <1>5, <1>6, <1>7 DEF Units, DisableLineContinuation

(* Going on where more may have been read ahead                            *)
LEMMA AheadReading ==
  ASSUME LexerInv, Reading, NEW l, NEW v, At(l, v), l \notin RawPlace, Quiet,
         NEW f, Go(f), f.at \in PlainPlace, Near(source, index')
  PROVE  Reading'
<1>1. /\ UNCHANGED <<input, source>> /\ continuing' /\ f.at \notin {"word", "operator", "list"}
  BY SeenChar DEF Quiet, PlainPlace
<1>2. NowAt(f, NoValue)
  BY <1>1, BegunElsewhere, GoLinked
<1>3. QED
  BY <1>1, <1>2, NoValueIsNothing, PlainReading

LEMMA LiteralDollarReading ==
  ASSUME LexerInv, Reading, LiteralDollar
  PROVE  Reading'
<1>1. At("units", "not found") /\ Consume /\ Go(With(Literal("$"))) /\ Quiet
  BY DEF LiteralDollar
<1>2. "units" \notin RawPlace /\ "units" \in PlainPlace
  BY DEF RawPlace, PlainPlace
<1>3. Near(source, index')
  <2>1. ReadAhead(Top, value, source, index) /\ Top.at = "units" /\ value.kind = "not found"
    BY <1>1, SeenChar
  <2>2. index' = index + 1
    BY <1>1 DEF Consume
  <2>3. Near(source, index + 1)
    BY <2>1 DEF ReadAhead
  <2>4. QED
    BY <2>2, <2>3
<1>4. With(Literal("$")).at = "units"
  BY <1>1, AtFacts, SeenChar, PlainFrames
<1>5. QED
  BY <1>1, <1>2, <1>3, <1>4, AheadReading

LEMMA DollarReading ==
  ASSUME LexerInv, Reading, Dollar
  PROVE  Reading'
<1>1. At("dollar", "none") /\ Quiet
  BY DEF Dollar
<1>2. /\ ~IsAhead("dollar", "none") /\ "dollar" \notin RawPlace /\ "dollar" \in UnitPlace
      /\ "name" \in PlainPlace
      /\ \A m : StaysRaw("dollar", m)
  BY <1>1 DEF IsAhead, AheadPlace, PlainPlace, RawPlace, UnitPlace, StaysRaw, Quiet
<1>3. /\ Top.at = "dollar" /\ continuing /\ continuing' /\ UNCHANGED <<input, source>>
      /\ index \in Nat /\ Len(source) \in Nat /\ index < Len(source) /\ NextChar = source[index + 1]
  BY <1>1, <1>2, SeenChar DEF NextChar, Quiet
<1>4. CASE \E u : Consume /\ ReturnUnit(u)
  BY <1>1, <1>2, <1>4, UnitReading
<1>5. CASE Consume /\ Go([at |-> "name", name |-> <<NextChar>>])
  BY <1>1, <1>2, <1>5, GoReading
<1>6. ASSUME NEW f, Consume, Go(f),
             \/ f.at = "prefix" /\ f.mark = index + 1
             \/ f.at = "arith.open" /\ f.mark = index /\ NextChar = "("
      PROVE  Reading'
  <2>1. NowAt(f, NoValue)
    BY <1>3, <1>6, BegunElsewhere, GoLinked
  <2>2. index' = index + 1 /\ Near(source, index')
    BY <1>1, <1>2, <1>6, MovesOn DEF Consume
  <2>3. ReadAhead(f, NoValue, source, index')
    BY <1>6, <2>2 DEF ReadAhead
  <2>4. Continuations(source, index + 1, index + 1)
    BY <1>3, NoContinuation
  <2>5. SinceMark(f, input.start, source, index')
    BY <1>3, <1>6, <2>2, <2>4 DEF SinceMark
  <2>6. Told(f, NoValue, tokens', source, index')
    BY <1>6 DEF Told
  <2>7. QED
    BY <1>3, <2>1, <2>3, <2>5, <2>6 DEF NowAt, Reading, Looks
<1>7. CASE Rewind(Top.mark) /\ Return(NotFound)
  <2>1. NowAt(Caller, NotFound) /\ Caller.at = "units"
    BY <1>2, <1>3, <1>7, ReturnLinked, UnitsCalled
  <2>2. /\ Top.mark < index /\ source[Top.mark + 1] = "$"
        /\ Continuations(source, Top.mark + 1, index)
    BY <1>3 DEF Reading, Looks, SinceMark
  <2>3. Top.mark \in Nat
    BY <1>3, TopFrame DEF IsFrame, Marked, MarkedPlace
  <2>4. Near(source, Top.mark + 1)
    BY <1>1, <1>2, <1>3, <2>2, <2>3, SeenFresh, ContinuationsThenFresh
  <2>5. NotFound.kind = "not found" /\ index' = Top.mark
    BY <1>7 DEF NotFound, Rewind
  <2>6. ReadAhead(Caller, NotFound, source, index')
    <3>1. Top.mark < Len(source)
      BY <1>3, <2>2, <2>3
    <3>2. QED
      BY <2>1, <2>2, <2>4, <2>5, <3>1 DEF ReadAhead
  <2>7. SinceMark(Caller, input.start, source, index') /\ Told(Caller, NotFound, tokens', source, index')
    BY <2>1 DEF SinceMark, Told
  <2>8. QED
    BY <1>3, <2>1, <2>6, <2>7 DEF NowAt, Reading, Looks
<1>8. CASE Consume /\ Go(DollarFrame("prefix", index + 1))
  <2>1. DollarFrame("prefix", index + 1).at = "prefix" /\ DollarFrame("prefix", index + 1).mark = index + 1
    BY DEF DollarFrame
  <2>2. QED
    BY <1>6, <1>8, <2>1
<1>9. CASE NextChar = "(" /\ Consume /\ Go(DollarFrame("arith.open", index))
  <2>1. DollarFrame("arith.open", index).at = "arith.open" /\ DollarFrame("arith.open", index).mark = index
    BY DEF DollarFrame
  <2>2. QED
    BY <1>6, <1>9, <2>1
<1>10. QED
  BY <1>4, <1>5, <1>7, <1>8, <1>9 DEF Dollar, ConsumeIf

LEMMA LengthPrefixReading ==
  ASSUME LexerInv, Reading, LengthPrefix
  PROVE  Reading'
<1>1. PICK l \in {"prefix", "prefix.first", "prefix.second", "prefix.consume"} : At(l, "none")
  BY DEF LengthPrefix
<1>2. Quiet /\ l \notin RawPlace
  BY DEF LengthPrefix, RawPlace
<1>3. /\ Top.at = l /\ continuing /\ continuing' /\ UNCHANGED <<input, source>>
      /\ index \in Nat /\ Len(source) \in Nat /\ index < Len(source) /\ NextChar = source[index + 1]
      /\ HasChar(source, index)
  BY <1>1, <1>2, SeenChar DEF NextChar, Quiet
<1>4. IsFrame(Top) /\ (l # "prefix.consume" => "at" \in DOMAIN Top /\ "mark" \in DOMAIN Top /\ Top.mark \in Nat)
  BY <1>3, TopFrame DEF IsFrame, Marked, MarkedPlace
<1>5. l # "prefix.consume" => Top.mark <= index
  BY <1>3, <1>4, GoesBack DEF Marked, MarkedPlace
<1>6. ASSUME l # "prefix.consume"
      PROVE  Fresh(source, index) /\ Near(source, index)
  <2>1. ~IsAhead(l, "none")
    BY <1>1, <1>6 DEF IsAhead, AheadPlace
  <2>2. Fresh(source, index)
    BY <1>1, <2>1, SeenFresh
  <2>3. QED
    BY <1>3, <2>2, FreshIsNear
<1>7. SinceMark(Top, input.start, source, index)
  BY DEF Reading, Looks
<1>8. ASSUME l # "prefix.consume"
      PROVE  Near(source, Top.mark) \/ NearNext(source, Top.mark) \/ NearSecond(source, Top.mark)
  <2>1. CASE l = "prefix"
    <3>1. Continuations(source, Top.mark, index)
      BY <1>3, <1>7, <2>1 DEF SinceMark
    <3>2. QED
      BY <1>3, <1>4, <1>5, <1>6, <1>8, <3>1, ContinuationsThenFresh
  <2>2. CASE l = "prefix.first"
    <3>1. PICK j \in Top.mark .. index - 1 :
            /\ Continuations(source, Top.mark, j) /\ source[j + 1] \in LengthChar
            /\ Continuations(source, j + 1, index)
      BY <1>3, <1>7, <2>2 DEF SinceMark
    <3>2. j \in Nat /\ j + 1 \in Nat /\ j + 1 <= index /\ j \in Top.mark .. Len(source) - 1
      BY <1>3, <1>4, <1>8
    <3>3. Near(source, j + 1)
      BY <1>3, <1>6, <1>8, <3>1, <3>2, ContinuationsThenFresh
    <3>4. QED
      BY <3>1, <3>2, <3>3 DEF NearNext
  <2>3. CASE l = "prefix.second"
    <3>1. PICK j \in Top.mark .. index - 1 :
            /\ Continuations(source, Top.mark, j) /\ source[j + 1] \in LengthChar
            /\ \E k \in j + 1 .. index - 1 : /\ Continuations(source, j + 1, k)
                                             /\ source[k + 1] \in LengthChar
                                             /\ Continuations(source, k + 1, index)
      BY <1>3, <1>7, <2>3 DEF SinceMark
    <3>2. PICK k \in j + 1 .. index - 1 : /\ Continuations(source, j + 1, k)
                                          /\ source[k + 1] \in LengthChar
                                          /\ Continuations(source, k + 1, index)
      BY <3>1
    <3>3. /\ j \in Nat /\ j \in Top.mark .. Len(source) - 1
          /\ k \in Nat /\ k + 1 \in Nat /\ k + 1 <= index /\ k \in j + 1 .. Len(source) - 1
      BY <1>3, <1>4, <1>8
    <3>4. Near(source, k + 1)
      BY <1>3, <1>6, <1>8, <3>2, <3>3, ContinuationsThenFresh
    <3>5. NearNext(source, j + 1)
      BY <3>2, <3>3, <3>4 DEF NearNext
    <3>6. QED
      BY <3>1, <3>3, <3>5 DEF NearSecond
  <2>4. QED
    BY <1>1, <1>8, <2>1, <2>2, <2>3
(* What has been looked at is to be read again.                            *)
<1>9. ASSUME NEW f, Go(f), f.at \in {"param", "prefix.consume"},
             Near(source, index') \/ NearNext(source, index') \/ NearSecond(source, index')
      PROVE  Reading'
  <2>1. NowAt(f, NoValue)
    BY <1>3, <1>9, BegunElsewhere, GoLinked
  <2>2. ReadAhead(f, NoValue, source, index')
    BY <1>9 DEF ReadAhead
  <2>3. SinceMark(f, input.start, source, index') /\ Told(f, NoValue, tokens', source, index')
    BY <1>9 DEF SinceMark, Told
  <2>4. QED
    BY <1>3, <2>1, <2>2, <2>3 DEF NowAt, Reading, Looks
<1>10. CASE l # "prefix.consume" /\ (Prefix \/ NoPrefix)
  <2>1. PICK f : /\ index' = Top.mark /\ Go(f) /\ f.at \in {"param", "prefix.consume"}
    BY <1>10 DEF Prefix, NoPrefix, Rewind, ParamFrame
  <2>2. QED
    BY <1>8, <1>9, <1>10, <2>1
(* A character is looked at.                                               *)
<1>11. ASSUME NEW f, Consume, Go(f), f.mark = Top.mark, NextChar \in LengthChar,
              \/ l = "prefix" /\ f.at = "prefix.first"
              \/ l = "prefix.first" /\ f.at = "prefix.second"
       PROVE  Reading'
  <2>1. NowAt(f, NoValue)
    BY <1>3, <1>11, BegunElsewhere, GoLinked
  <2>2. index' = index + 1 /\ Near(source, index')
    <3>1. Fresh(source, index + 1)
      BY <1>3, <1>6, <1>11, FreshOn
    <3>2. QED
      BY <1>3, <1>11, <3>1, FreshIsNear DEF Consume
  <2>3. ReadAhead(f, NoValue, source, index')
    BY <1>11, <2>2 DEF ReadAhead
  <2>4. Continuations(source, index + 1, index + 1) /\ index + 1 - 1 = index
        /\ Top.mark \in Nat /\ Top.mark <= index
    BY <1>3, <1>4, <1>5, <1>11, NoContinuation
  <2>5. SinceMark(f, input.start, source, index')
    <3>1. CASE l = "prefix"
      <4>1. Continuations(source, Top.mark, index)
        BY <1>3, <1>7, <3>1 DEF SinceMark
      <4>2. index \in f.mark .. index' - 1
        BY <1>3, <1>11, <2>2, <2>4
      <4>3. QED
        BY <1>3, <1>11, <2>2, <2>4, <3>1, <4>1, <4>2 DEF SinceMark
    <3>2. CASE l = "prefix.first"
      <4>1. PICK j \in Top.mark .. index - 1 :
              /\ Continuations(source, Top.mark, j) /\ source[j + 1] \in LengthChar
              /\ Continuations(source, j + 1, index)
        BY <1>3, <1>7, <3>2 DEF SinceMark
      <4>2. j \in f.mark .. index' - 1 /\ index \in j + 1 .. index' - 1
        BY <1>3, <1>11, <2>2, <2>4
      <4>3. QED
        BY <1>3, <1>11, <2>2, <2>4, <3>2, <4>1, <4>2 DEF SinceMark
    <3>3. QED
      BY <1>11, <3>1, <3>2
  <2>6. Told(f, NoValue, tokens', source, index')
    BY <1>11 DEF Told
  <2>7. QED
    BY <1>3, <2>1, <2>3, <2>5, <2>6 DEF NowAt, Reading, Looks
<1>12. \A m : To(m).at = m /\ (l # "prefix.consume" => To(m).mark = Top.mark)
  BY <1>1, <1>3, <1>4, TopEdited DEF Marked, MarkedPlace
<1>13. CASE At("prefix.consume", "none") /\ Consume /\ Go(To("param"))
  <2>1. l = "prefix.consume" /\ index' = index + 1
    BY <1>3, <1>13, SeenChar DEF Consume
  <2>2. ReadAhead(Top, value, source, index)
    BY <1>1, SeenChar
  <2>3. Near(source, index) \/ NearNext(source, index) \/ NearSecond(source, index)
    BY <1>3, <2>1, <2>2 DEF ReadAhead
  <2>4. Near(source, index + 1) \/ NearNext(source, index + 1)
    <3>1. CASE Near(source, index)
      <4>1. Fresh(source, index + 1)
        BY <1>3, <3>1, NearAtChar, FreshOn
      <4>2. QED
        BY <1>3, <4>1, FreshIsNear
    <3>2. QED
      BY <1>3, <2>3, <3>1, NearAtChar
  <2>5. QED
    BY <1>9, <1>12, <1>13, <2>1, <2>4
<1>14. CASE /\ At("prefix", "none")
            /\ NextChar = "#" /\ Consume /\ Go(To("prefix.first"))
  <2>1. l = "prefix"
    BY <1>3, <1>14, SeenChar
  <2>2. "#" \in LengthChar
    BY DEF LengthChar
  <2>3. QED
    BY <1>11, <1>12, <1>14, <2>1, <2>2
<1>15. CASE /\ At("prefix.first", "none")
            /\ NextChar \in {"-", "?", "#"} /\ Consume /\ Go(To("prefix.second"))
  <2>1. l = "prefix.first"
    BY <1>3, <1>15, SeenChar
  <2>2. QED
    BY <1>11, <1>12, <1>15, <2>1 DEF LengthChar
<1>16. CASE (\E m \in {"prefix", "prefix.first", "prefix.second"} : At(m, "none")) /\ (Prefix \/ NoPrefix)
  <2>1. l # "prefix.consume"
    BY <1>3, <1>16, SeenChar
  <2>2. QED
    BY <1>10, <1>16, <2>1
<1>17. QED
  BY <1>13, <1>14, <1>15, <1>16 DEF LengthPrefix

-----------------------------------------------------------------------------
(* Braces                                                                  *)

LEMMA AheadCallReading ==
  ASSUME LexerInv, Reading, NEW l, NEW v, At(l, v), l \notin RawPlace, Quiet,
         NEW f, NEW g, Call(f, <<g>>), f.at \in PlainPlace, g.at \in PlainPlace,
         Near(source, index')
  PROVE  Reading'
<1>1. /\ UNCHANGED <<input, source>> /\ continuing'
      /\ f.at \notin {"word", "operator", "list"} /\ g.at \notin {"word", "operator", "list"}
  BY SeenChar DEF Quiet, PlainPlace
<1>2. ListCalled(f, g)
  BY <1>1 DEF ListCalled
<1>3. NowAt(g, NoValue)
  BY <1>1, <1>2, BegunElsewhere, CallLinked
<1>4. QED
  BY <1>1, <1>3, NoValueIsNothing, PlainReading

(* A character that length_prefix has not looked at for more               *)
LEMMA NearAfterChar ==
  ASSUME LexerInv, Reading, NEW l \in {"param", "suffix"}, NEW v, At(l, v)
  PROVE  /\ NextChar \notin LengthChar => Near(source, index)
         /\ NextChar \notin LengthChar => Near(source, index + 1)
         /\ Near(source, index + 1) \/ (l = "param" /\ NearNext(source, index + 1))
<1>1. /\ Top.at = l /\ HasChar(source, index) /\ NextChar = source[index + 1]
      /\ index \in Nat /\ Len(source) \in Nat /\ index < Len(source)
      /\ ReadAhead(Top, value, source, index)
  <2>1. l \notin RawPlace
    BY DEF RawPlace
  <2>2. QED
    BY <2>1, SeenChar DEF NextChar
<1>2. \/ Near(source, index) \/ NearNext(source, index)
      \/ l = "param" /\ NearSecond(source, index)
  BY <1>1 DEF ReadAhead
<1>3. Near(source, index) => Near(source, index + 1)
  <2> SUFFICES ASSUME Near(source, index)
               PROVE  Near(source, index + 1)
    OBVIOUS
  <2>1. Fresh(source, index + 1)
    BY <1>1, NearAtChar, FreshOn
  <2>2. QED
    BY <1>1, <2>1, FreshIsNear
<1>4. QED
  BY <1>1, <1>2, <1>3, NearAtChar

LEMMA BracedParamReading ==
  ASSUME LexerInv, Reading, BracedParam
  PROVE  Reading'
<1>1. {"param.name", "suffix"} \subseteq PlainPlace /\ "param" \notin RawPlace
      /\ ~IsAhead("param.name", "none") /\ "param.name" \notin RawPlace
  BY DEF PlainPlace, RawPlace, IsAhead, AheadPlace
<1>2. CASE At("param", "none") /\ Consume /\ Go(Named("suffix")) /\ Quiet
  <2> DEFINE f == Named("suffix")
  <2>1. f.at = "suffix"
    BY <1>2, AtFacts, PlainFrames
  <2> HIDE DEF f
  <2>2. UNCHANGED <<input, source>> /\ continuing'
    BY <1>1, <1>2, SeenChar DEF Quiet
  <2>3. NowAt(f, NoValue)
    BY <1>2, <2>1, <2>2, BegunElsewhere, GoLinked DEF f
  <2>4. index' = index + 1
    BY <1>2 DEF Consume
  <2>5. ReadAhead(f, NoValue, source, index')
    BY <1>2, <2>1, <2>4, NearAfterChar DEF ReadAhead
  <2>6. SinceMark(f, input.start, source, index') /\ Told(f, NoValue, tokens', source, index')
    BY <2>1 DEF SinceMark, Told
  <2>7. QED
    BY <2>2, <2>3, <2>5, <2>6 DEF NowAt, Reading, Looks
<1>3. CASE /\ At("param", "none") /\ NextChar \in NameChar \ SpecialParam
           /\ Consume /\ Go(Named("param.name")) /\ Quiet
  <2>1. Named("param.name").at = "param.name"
    BY <1>3, AtFacts, PlainFrames
  <2>2. NextChar \notin LengthChar
    BY <1>3 DEF LengthChar, SpecialParam
  <2>3. Near(source, index')
    BY <1>3, <2>2, NearAfterChar DEF Consume
  <2>4. QED
    BY <1>1, <1>3, <2>1, <2>3, AheadReading
<1>4. CASE At("param", "none") /\ Fail
  BY <1>4, FailReading
<1>5. CASE At("param", "none") /\ Peek /\ End("panic") /\ Quiet
  BY <1>5, SeenChar, SameReading DEF Peek, End, Quiet
<1>6. ASSUME NEW l \in {"param.name", "suffix"}, At("param.name", "none"), Consume \/ Peek, Quiet,
             NEW f, Go(f), f.at = l
      PROVE  Reading'
  BY <1>1, <1>6, GoReading DEF StaysRaw, Quiet
<1>7. CASE At("param.name", "none") /\ Quiet /\ Consume /\ Go(Named("param.name"))
  <2>1. Named("param.name").at = "param.name"
    BY <1>7, AtFacts, PlainFrames
  <2>2. QED
    BY <1>6, <1>7, <2>1
<1>8. CASE At("param.name", "none") /\ Quiet /\ Peek /\ Go(To("suffix"))
  <2>1. To("suffix").at = "suffix"
    BY <1>8, AtFacts, PlainFrames
  <2>2. QED
    BY <1>6, <1>8, <2>1
<1>9. QED
  BY <1>2, <1>3, <1>4, <1>5, <1>7, <1>8 DEF BracedParam, ConsumeIf, NoneOf

LEMMA SuffixReading ==
  ASSUME LexerInv, Reading, Suffix
  PROVE  Reading'
<1>1. PICK l \in {"suffix", "suffix.colon"} : At(l, "none")
  BY DEF Suffix, SuffixNotFound
<1>2. {"suffix.colon", "switch", "trim.length", "brace.close", "units"} \subseteq PlainPlace
      /\ l \notin RawPlace
  BY DEF PlainPlace, RawPlace
<1>3. IsFrame(Top) /\ Top.at = l
  BY <1>1, AtFacts
<1>4. ASSUME Consume
      PROVE  Near(source, index')
  <2>1. CASE l = "suffix"
    BY <1>1, <1>4, <2>1, NearAfterChar DEF Consume
  <2>2. CASE l = "suffix.colon"
    BY <1>1, <1>4, <2>2, MovesOn DEF IsAhead, AheadPlace
  <2>3. QED
    BY <2>1, <2>2
<1>5. CASE Consume /\ Go(Operated("suffix.colon")) /\ Quiet
  <2>1. Operated("suffix.colon").at = "suffix.colon"
    BY <1>3, PlainFrames
  <2>2. QED
    BY <1>1, <1>2, <1>4, <1>5, <2>1, AheadReading
<1>6. CASE Consume /\ Call(Operated("switch"), <<WordFrame(Top.context, {"}"})>>) /\ Quiet
  <2>1. Operated("switch").at = "switch"
    BY <1>3, PlainFrames
  <2>2. WordFrame(Top.context, {"}"}).at = "units"
    BY DEF WordFrame, UnitsFrame
  <2>3. QED
    BY <1>1, <1>2, <1>4, <1>6, <2>1, <2>2, AheadCallReading
<1>7. CASE Consume /\ Go(Operated("trim.length")) /\ Quiet
  <2>1. Operated("trim.length").at = "trim.length"
    BY <1>3, PlainFrames
  <2>2. QED
    BY <1>1, <1>2, <1>4, <1>7, <2>1, AheadReading
<1>8. CASE /\ At("suffix", "none") /\ NextChar \notin {":"} \cup SwitchChar \cup TrimChar
           /\ Peek /\ Go(To("brace.close")) /\ Quiet
  <2>1. To("brace.close").at = "brace.close"
    BY <1>3, PlainFrames
  <2>2. NextChar \notin LengthChar
    BY <1>8 DEF LengthChar, SwitchChar, TrimChar
  <2>3. Near(source, index')
    BY <1>8, <2>2, NearAfterChar DEF Peek
  <2>4. QED
    BY <1>1, <1>2, <1>8, <2>1, <2>3, AheadReading
<1>9. CASE Fail
  BY <1>1, <1>9, FailReading
<1>10. QED
  BY <1>5, <1>6, <1>7, <1>8, <1>9 DEF Suffix, SuffixNotFound, ConsumeIf, NoneOf

LEMMA TrimReading ==
  ASSUME LexerInv, Reading, Trim
  PROVE  Reading'
<1>1. At("trim.length", "none") /\ Quiet /\ (Consume \/ Peek)
  BY DEF Trim
<1>2. ~IsAhead("trim.length", "none") /\ {"trim", "units"} \subseteq PlainPlace
      /\ StaysRaw("trim.length", "units")
  BY <1>1 DEF IsAhead, AheadPlace, PlainPlace, StaysRaw, Quiet, RawPlace
<1>3. To("trim").at = "trim" /\ Operated("trim").at = "trim"
  BY <1>1, AtFacts, PlainFrames
<1>4. ASSUME NEW f, f.at = "trim", Call(f, <<WordFrame("Word", {"}"})>>)
      PROVE  Reading'
  <2>1. WordFrame("Word", {"}"}).at = "units"
    BY DEF WordFrame, UnitsFrame
  <2>2. QED
    BY <1>1, <1>2, <1>4, <2>1, CallReading
<1>5. QED
  BY <1>3, <1>4 DEF Trim

LEMMA BraceCloseReading ==
  ASSUME LexerInv, Reading, BraceClose
  PROVE  Reading'
<1>1. PICK l \in {"brace.close", "switch", "trim"} : \E v \in {"none", "text"} : At(l, v)
  BY DEF BraceClose
<1>2. PICK v \in {"none", "text"} : At(l, v)
  BY <1>1
<1>3. ~IsAhead(l, v) /\ l \in UnitPlace /\ l \notin RawPlace
  BY DEF IsAhead, AheadPlace, UnitPlace, RawPlace
<1>4. CASE \E u : Consume /\ ReturnUnit(u) /\ Quiet
  BY <1>2, <1>3, <1>4, UnitReading DEF StaysRaw, Quiet
<1>5. CASE Fail
  BY <1>2, <1>5, FailReading
<1>6. QED
  BY <1>4, <1>5 DEF BraceClose

-----------------------------------------------------------------------------
(* Arithmetic expansions and command substitutions                         *)

LEMMA ArithOpenReading ==
  ASSUME LexerInv, Reading, ArithOpen
  PROVE  Reading'
<1>1. At("arith.open", "none") /\ Quiet
  BY DEF ArithOpen
<1>2. ~IsAhead("arith.open", "none") /\ {"arith", "units"} \subseteq PlainPlace
      /\ StaysRaw("arith.open", "units") /\ "arith.open" \notin RawPlace
  BY <1>1 DEF IsAhead, AheadPlace, PlainPlace, StaysRaw, Quiet, RawPlace
<1>3. /\ Top.at = "arith.open" /\ IsFrame(Top) /\ continuing' /\ UNCHANGED <<input, source>>
      /\ index \in Nat /\ Len(source) \in Nat /\ index < Len(source)
  BY <1>1, <1>2, AtFacts, SeenChar DEF Quiet
<1>4. CASE Consume /\ Call(ArithFrame(0, <<>>), <<ArithText>>)
  <2>1. ArithFrame(0, <<>>).at = "arith" /\ ArithText.at = "units"
    BY <1>3, PlainFrames DEF ArithFrame
  <2>2. QED
    BY <1>1, <1>2, <1>4, <2>1, CallReading
<1>5. CASE Rewind(Top.mark) /\ Go(Fallback)
  <2>1. Fallback.at = "command"
    BY DEF Fallback, DollarFrame
  <2>2. /\ Top.mark < index /\ source[Top.mark + 1] = "("
        /\ Continuations(source, Top.mark + 1, index)
    BY <1>3 DEF Reading, Looks, SinceMark
  <2>3. Top.mark \in Nat
    BY <1>3 DEF IsFrame, Marked, MarkedPlace
  <2>4. Near(source, Top.mark + 1)
    BY <1>1, <1>2, <1>3, <2>2, <2>3, SeenFresh, ContinuationsThenFresh
  <2>5. index' = Top.mark /\ Top.mark < Len(source)
    BY <1>3, <1>5, <2>2, <2>3 DEF Rewind
  <2>6. NowAt(Fallback, NoValue)
    BY <1>3, <1>5, <2>1, BegunElsewhere, GoLinked
  <2>7. ReadAhead(Fallback, NoValue, source, index')
    BY <2>1, <2>2, <2>4, <2>5 DEF ReadAhead
  <2>8. SinceMark(Fallback, input.start, source, index') /\ Told(Fallback, NoValue, tokens', source, index')
    BY <2>1 DEF SinceMark, Told
  <2>9. QED
    BY <1>3, <2>6, <2>7, <2>8 DEF NowAt, Reading, Looks
<1>6. QED
  BY <1>4, <1>5 DEF ArithOpen

LEMMA ArithContentReading ==
  ASSUME LexerInv, Reading, ArithContent
  PROVE  Reading'
<1>1. At("arith", "text")
  BY DEF ArithContent
<1>2. ~IsAhead("arith", "text") /\ {"arith", "arith.close", "units"} \subseteq PlainPlace
      /\ "arith" \notin RawPlace
  BY DEF IsAhead, AheadPlace, PlainPlace, RawPlace
<1>3. Top.at = "arith" /\ IsFrame(Top) /\ UNCHANGED <<input, source>>
  BY <1>1, AtFacts
<1>4. ASSUME NEW depth, NEW units, Consume, Call(ArithFrame(depth, units), <<ArithText>>), Quiet
      PROVE  Reading'
  <2>1. ArithFrame(depth, units).at = "arith" /\ ArithText.at = "units"
    BY <1>3, PlainFrames DEF ArithFrame
  <2>2. QED
    BY <1>1, <1>2, <1>4, <2>1, CallReading DEF StaysRaw, Quiet
<1>5. ASSUME NEW units, Consume, Go([Top EXCEPT !.at = "arith.close", !.units = units]), Quiet
      PROVE  Reading'
  <2>1. [Top EXCEPT !.at = "arith.close", !.units = units].at = "arith.close"
    BY <1>3 DEF IsFrame
  <2>2. QED
    BY <1>1, <1>2, <1>5, <2>1, GoReading DEF StaysRaw, Quiet
<1>6. CASE Fail
  BY <1>1, <1>6, FailReading
<1>7. CASE Peek /\ End("unreachable") /\ Quiet
  BY <1>3, <1>7, SameReading DEF Peek, End, Quiet
<1>8. QED
  BY <1>4, <1>5, <1>6, <1>7 DEF ArithContent

(* What was read as an arithmetic expansion is read again.                 *)
LEMMA ArithCloseReading ==
  ASSUME LexerInv, Reading, ArithClose
  PROVE  Reading' \/ (Top.at = "arith.close" /\ Last(stack').at = "command")
<1>1. At("arith.close", "none")
  BY DEF ArithClose
<1>2. ~IsAhead("arith.close", "none") /\ "arith.close" \in UnitPlace /\ "arith.close" \notin RawPlace
  BY DEF IsAhead, AheadPlace, UnitPlace, RawPlace
<1>3. CASE Consume /\ ReturnUnit(Arith(Top.units)) /\ Quiet
  BY <1>1, <1>2, <1>3, UnitReading DEF StaysRaw, Quiet
<1>4. CASE Fail
  BY <1>1, <1>4, FailReading
<1>5. CASE Go(Fallback)
  <2>1. stack' = Append(Front(stack), Fallback) /\ Fallback.at = "command"
    BY <1>5 DEF Go, Fallback, DollarFrame
  <2>2. Last(Append(Front(stack), Fallback)) = Fallback
    BY FramesLinked, LastOfAppend
  <2>3. QED
    BY <1>1, <2>1, <2>2, AtFacts
<1>6. QED
  BY <1>3, <1>4, <1>5 DEF ArithClose

LEMMA CommandSubstitutionReading ==
  ASSUME LexerInv, Reading, CommandSubstitution
  PROVE  Reading'
<1>1. "command" \notin RawPlace /\ "command.close" \notin RawPlace /\ "command.close" \in UnitPlace
      /\ "units" \in PlainPlace
  BY DEF RawPlace, UnitPlace, PlainPlace
<1>2. CASE /\ At("command", "none") /\ Consume
           /\ Call([at |-> "command.close", mark |-> index'], <<ListFrame(FALSE)>>) /\ Quiet
  <2> DEFINE f == [at |-> "command.close", mark |-> index']
             g == ListFrame(FALSE)
  <2>1. f.at = "command.close" /\ g.at = "list" /\ g.group = FALSE /\ "group" \in DOMAIN g
    BY DEF ListFrame
  <2>2. Call(f, <<g>>)
    BY <1>2
  <2> HIDE DEF f, g
  <2>3. /\ Top.at = "command" /\ ReadAhead(Top, value, source, index)
        /\ UNCHANGED <<input, source>> /\ continuing' /\ index' = index + 1
    BY <1>1, <1>2, SeenChar DEF Consume, Quiet
  <2>4. Near(source, index')
    BY <2>3 DEF ReadAhead
  <2>5. BegunToken(f, input.start, source) /\ BegunToken(g, input.start, source) /\ ListCalled(f, g)
    BY <2>1 DEF BegunToken, ListCalled
  <2>6. NowAt(g, NoValue)
    BY <2>1, <2>2, <2>3, <2>5, CallLinked
  <2>7. QED
    BY <2>1, <2>3, <2>4, <2>6, PlainReading
<1>3. CASE At("command.close", "none") /\ NextChar = ")" /\ Quiet /\ Consume
           /\ ReturnUnit(CommandSubst(SourceString(Top.mark)))
  <2>1. /\ Top.at = "command.close" /\ ReadAhead(Top, value, source, index)
        /\ UNCHANGED <<input, source>> /\ continuing' /\ index' = index + 1
        /\ source[index + 1] = ")"
    BY <1>1, <1>3, SeenChar DEF Consume, Quiet, NextChar
  <2>2. Near(source, index')
    BY <2>1 DEF ReadAhead
  <2> DEFINE f == Top'
  <2>3. NowAt(f, NoValue) /\ f.at = "units"
    BY <1>1, <1>3, <2>1, ReturnUnitLinked
  <2> HIDE DEF f
  <2>4. QED
    BY <1>1, <2>1, <2>2, <2>3, NoValueIsNothing, PlainReading
<1>4. CASE At("command.close", "none") /\ Fail
  BY <1>4, FailReading
<1>5. QED
  BY <1>2, <1>3, <1>4 DEF CommandSubstitution

-----------------------------------------------------------------------------
(* The callers of Lexer::token, and here-documents                         *)

LEMMA CallerReads ==
  ASSUME LexerInv, Reading, Top.at \in {"tokens", "list", "from_str"}
  PROVE  continuing /\ Near(source, index)
<1>1. Top.at \notin RawPlace
  BY DEF RawPlace
<1>2. continuing /\ ReadAhead(Top, value, source, index)
  BY <1>1 DEF Reading, Looks
<1>3. QED
  BY <1>2 DEF ReadAhead

LEMMA RequireTokenReading ==
  ASSUME LexerInv, Reading, RequireToken
  PROVE  Reading'
<1>1. /\ Top.at \in {"tokens", "list"} /\ UNCHANGED <<input, source, continuing, index>>
      /\ Call(Top, <<BlanksFrame>>)
  BY DEF RequireToken, Calls, Peek
<1>2. BlanksFrame.at = "blanks" /\ "blanks" \in PlainPlace
  BY DEF BlanksFrame, PlainPlace
<1>3. BegunToken(Top, input.start, source) /\ BegunToken(BlanksFrame, input.start, source)
  BY <1>2, FramesLinked DEF BegunToken
<1>4. ListCalled(Top, BlanksFrame)
  BY <1>2 DEF ListCalled
<1>5. NowAt(BlanksFrame, NoValue)
  BY <1>1, <1>3, <1>4, CallLinked
<1>6. QED
  BY <1>1, <1>2, <1>5, CallerReads, NoValueIsNothing, PlainReading

LEMMA TakeTokenReading ==
  ASSUME LexerInv, Reading, TakeToken
  PROVE  Reading'
<1>1. /\ Top.at = "tokens" /\ UNCHANGED <<input, source, continuing, index>>
      /\ value # NoValue /\ tokens' = Append(tokens, value)
  BY DEF TakeToken, Calls, Peek
<1>2. CASE \E o : End(o)
  BY <1>1, <1>2, SameReading DEF End
<1>3. ASSUME NEW f, Go(f), f.at = "tokens"
      PROVE  Reading'
  <2>1. NowAt(f, NoValue)
    BY <1>1, <1>3, BegunElsewhere, GoLinked
  <2>2. Last(Append(tokens, value)) = value
    BY LastOfAppend DEF LexerInv, TokensHavePlace
  <2>3. /\ value.kind # "here-doc"
        /\ value.kind = "operator" /\ value.key = <<Newline>> => index = Len(source)
    BY <1>1 DEF Reading, Looks, Told
  <2>4. LineIsTaken(tokens') => index = Len(source)
    BY <1>1, <2>2, <2>3 DEF LineIsTaken
  <2>5. Told(f, NoValue, tokens', source, index')
    BY <1>1, <1>3, <2>4, NoValueIsNothing DEF Told
  <2>6. ReadAhead(f, NoValue, source, index') /\ continuing'
    BY <1>1, <1>3, CallerReads DEF ReadAhead
  <2>7. SinceMark(f, input.start, source, index')
    BY <1>3 DEF SinceMark
  <2>8. QED
    BY <2>1, <2>5, <2>6, <2>7 DEF NowAt, Reading, Looks
<1>4. \A unread : [Top EXCEPT !.unread = unread].at = "tokens"
  BY <1>1, TopFrame DEF IsFrame
<1>5. QED
  BY <1>1, <1>2, <1>3, <1>4 DEF TakeToken

LEMMA LineFramePlaces ==
  ASSUME NEW delimiter
  PROVE  /\ LineFrame(delimiter).at \in PlainPlace
         /\ IsQuoted(delimiter) => LineFrame(delimiter).at \in RawPlace
BY DEF LineFrame, TextFrame, UnitsFrame, PlainPlace, RawPlace

LEMMA HereDocContentsReading ==
  ASSUME LexerInv, Reading, HereDocContents
  PROVE  Reading'
<1> DEFINE d == Head(Top.unread).delimiter
           f == [Top EXCEPT !.unread = Tail(@)]
           g == [at |-> "heredoc", begin |-> index, mark |-> index, content |-> <<>>,
                 delimiter |-> d, remove_tabs |-> Head(Top.unread).remove_tabs]
           h == LineFrame(d)
<1>1. /\ Top.at = "tokens" /\ UNCHANGED <<input, source, index, value>> /\ value = NoValue
      /\ AfterOperator(<<Newline>>) \/ After("here-doc")
      /\ stack' = Front(stack) \o <<f, g, h>>
      /\ continuing' = ~IsQuoted(d)
  BY DEF HereDocContents, AtHereDoc, Peek
<1>2. LineIsTaken(tokens)
  BY <1>1 DEF LineIsTaken, AfterOperator, After
<1>3. index = Len(source)
  BY <1>1, <1>2 DEF Reading, Looks, Told
<1>4. Fresh(source, index') /\ Near(source, index')
  <2>1. index' = Len(source) /\ Len(source) \in Nat
    BY <1>1, <1>3, TopFrame
  <2>2. Fresh(source, Len(source))
    BY <2>1 DEF Fresh
  <2>3. QED
    BY <2>1, <2>2, FreshIsNear
<1>5. f.at = "tokens" /\ g.at = "heredoc" /\ h.at \in PlainPlace /\ (IsQuoted(d) => h.at \in RawPlace)
  BY <1>1, TopFrame, LineFramePlaces DEF IsFrame
<1> HIDE DEF d, f, g, h
<1>6. h.at \notin {"word", "operator", "list"}
  BY <1>5 DEF PlainPlace
<1>7. NowAt(h, value')
  BY <1>1, <1>5, <1>6, BegunElsewhere, CallTwoLinked
<1>8. continuing' \/ h.at \in RawPlace
  BY <1>1, <1>5
<1>9. QED
  BY <1>1, <1>4, <1>5, <1>7, <1>8, NoValueIsNothing, PlainReading

LEMMA LineReading ==
  ASSUME LexerInv, Reading, Line
  PROVE  Reading'
<1>1. At("line", "none")
  BY DEF Line
<1>2. ~IsAhead("line", "none") /\ "line" \in PlainPlace /\ "line" \in RawPlace
  BY DEF IsAhead, AheadPlace, PlainPlace, RawPlace
<1>3. CASE Consume /\ Go([Top EXCEPT !.content = Append(@, NextChar)])
  <2>1. [Top EXCEPT !.content = Append(@, NextChar)].at = "line"
    BY <1>1, AtFacts DEF IsFrame
  <2>2. QED
    BY <1>1, <1>2, <1>3, <2>1, GoReading DEF StaysRaw
<1>4. CASE Peek /\ Return(Text(Literals(Top.content))) /\ EnableLineContinuation
  BY <1>1, <1>2, <1>4, TextReading DEF EnableLineContinuation
<1>5. QED
  BY <1>3, <1>4 DEF Line

LEMMA HereDocLineReading ==
  ASSUME LexerInv, Reading, HereDocLine
  PROVE  Reading'
<1>1. At("heredoc", "text")
  BY DEF HereDocLine
<1>2. ~IsAhead("heredoc", "text") /\ "heredoc" \in PlainPlace /\ "heredoc" \notin RawPlace
  BY DEF IsAhead, AheadPlace, PlainPlace, RawPlace
<1>3. /\ Top.at = "heredoc" /\ IsFrame(Top) /\ UNCHANGED <<input, source>> /\ continuing
      /\ index \in Nat /\ Len(source) \in Nat /\ index < Len(source) /\ NextChar = source[index + 1]
  BY <1>1, <1>2, AtFacts, SeenChar DEF NextChar
<1>4. ASSUME NextChar = Newline, Consume
      PROVE  index' = Len(source) /\ Fresh(source, index') /\ Near(source, index')
  <2>1. Fresh(source, index) /\ index + 1 \in index + 1 .. Len(source)
    BY <1>1, <1>2, <1>3, SeenFresh
  <2>2. index + 1 = Len(source)
    BY <1>3, <1>4, <2>1 DEF Fresh
  <2>3. QED
    BY <1>1, <1>2, <1>4, <2>2, MovesOn DEF Consume
<1>5. CASE Fail
  BY <1>1, <1>5, FailReading
<1>6. CASE NextChar = Newline /\ Consume /\ Return(NoValue) /\ UNCHANGED continuing
  <2>1. NowAt(Caller, NoValue) /\ "heredoc" \in Callees(Caller.at)
    BY <1>3, <1>6, ReturnLinked
  <2>2. Caller.at = "tokens"
    <3>1. "heredoc" \notin TokenPlace \cup TextPlace \cup UnitPlace
      BY DEF TokenPlace, TextPlace, UnitPlace
    <3>2. QED
      BY <2>1, <3>1 DEF Callees
  <2>3. ReadAhead(Caller, NoValue, source, index')
    BY <1>4, <1>6, <2>2 DEF ReadAhead
  <2>4. SinceMark(Caller, input.start, source, index')
    BY <2>2 DEF SinceMark
  <2>5. Told(Caller, NoValue, tokens', source, index')
    BY <1>4, <1>6, <2>2, NoValueIsNothing DEF Told
  <2>6. QED
    BY <1>3, <1>6, <2>1, <2>3, <2>4, <2>5 DEF NowAt, Reading, Looks
<1>7. ASSUME NEW f, f.at = "heredoc", NextChar = Newline, Consume, ReadLine(f)
      PROVE  Reading'
  <2> DEFINE g == LineFrame(f.delimiter)
  <2>1. Call(f, <<g>>) /\ continuing' = ~IsQuoted(f.delimiter)
    BY <1>7 DEF ReadLine
  <2>2. g.at \in PlainPlace /\ (IsQuoted(f.delimiter) => g.at \in RawPlace)
    BY LineFramePlaces
  <2> HIDE DEF g
  <2>3. StaysRaw("heredoc", g.at)
    BY <2>1, <2>2 DEF StaysRaw
  <2>4. QED
    BY <1>1, <1>2, <1>7, <2>1, <2>2, <2>3, CallReading
<1> DEFINE skip_count == IF Top.remove_tabs THEN LeadingTabs(value.units) ELSE 0
           units == SubSeq(value.units, skip_count + 1, Len(value.units))
           f == [Top EXCEPT !.mark = index', !.content = @ \o units \o <<Literal(Newline)>>]
<1>8. f.at = "heredoc"
  BY <1>3 DEF IsFrame
<1>9. \/ Fail
      \/ NextChar = Newline /\ Consume /\ Return(NoValue) /\ UNCHANGED continuing
      \/ NextChar = Newline /\ Consume /\ ReadLine(f)
  BY DEF HereDocLine
<1> HIDE DEF f
<1>10. QED
  BY <1>5, <1>6, <1>7, <1>8, <1>9

LEMMA ListTokenReading ==
  ASSUME LexerInv, Reading, ListToken
  PROVE  Reading'
<1> DEFINE next == [Top EXCEPT !.place = NextPlace, !.some = @ \/ NextPlace \in {"word", "done"}]
<1>1. Top.at = "list" /\ UNCHANGED <<input, source, continuing, tokens>> /\ value # NoValue
  BY DEF ListToken, Calls
<1>2. continuing' /\ Near(source, index)
  BY <1>1, CallerReads
<1>3. IsFrame(Top) /\ "group" \in DOMAIN Top
  BY <1>1, TopFrame, FramesLinked DEF BegunToken
<1>4. next.at = "list" /\ next.group = Top.group /\ "group" \in DOMAIN next
  BY <1>1, <1>3 DEF IsFrame
<1> HIDE DEF next
<1>5. ASSUME NEW o, Peek, End(o)
      PROVE  Reading'
  BY <1>1, <1>5, SameReading DEF Peek, End
<1>6. BegunToken(next, input.start, source)
  BY <1>4 DEF BegunToken
<1>7. CASE Peek /\ Call(next, <<ListFrame(TRUE)>>)
  <2> DEFINE g == ListFrame(TRUE)
  <2>1. g.at = "list" /\ g.group = TRUE /\ "group" \in DOMAIN g
    BY DEF ListFrame
  <2>2. Call(next, <<g>>)
    BY <1>7
  <2> HIDE DEF g
  <2>3. BegunToken(g, input.start, source) /\ ListCalled(next, g)
    BY <1>4, <2>1 DEF BegunToken, ListCalled
  <2>4. NowAt(g, NoValue)
    BY <1>1, <1>4, <1>6, <2>2, <2>3, CallLinked
  <2>5. index' = index
    BY <1>7 DEF Peek
  <2>6. QED
    BY <1>2, <2>1, <2>4, <2>5, PlainReading
<1>8. CASE Peek /\ Go(next)
  <2>1. NowAt(next, NoValue)
    BY <1>1, <1>4, <1>6, <1>8, GoLinked
  <2>2. index' = index
    BY <1>8 DEF Peek
  <2>3. QED
    BY <1>2, <1>4, <2>1, <2>2, PlainReading
<1>9. ASSUME Return(NoValue)
      PROVE  /\ NowAt(Caller, NoValue) /\ Caller.at \in {"list", "command.close"}
             /\ Top.group <=> Caller.at = "list"
  <2>1. /\ NowAt(Caller, NoValue) /\ "list" \in Callees(Caller.at)
        /\ Top.group <=> Caller.at = "list"
    BY <1>1, <1>9, ReturnLinked DEF ListCalled
  <2>2. "list" \notin TokenPlace \cup TextPlace \cup UnitPlace
    BY DEF TokenPlace, TextPlace, UnitPlace
  <2>3. QED
    BY <2>1, <2>2 DEF Callees
<1>10. CASE Top.group /\ Peek /\ Return(NoValue)
  <2>1. NowAt(Caller, NoValue) /\ Caller.at = "list" /\ index' = index
    BY <1>9, <1>10 DEF Peek
  <2> DEFINE f == Caller
  <2>2. NowAt(f, NoValue) /\ f.at = "list"
    BY <2>1
  <2> HIDE DEF f
  <2>3. QED
    BY <1>2, <2>1, <2>2, PlainReading
<1>11. CASE ~Top.group /\ Rewind(value.begin) /\ Return(NoValue)
  <2>1. NowAt(Caller, NoValue) /\ Caller.at = "command.close" /\ index' = value.begin
    BY <1>9, <1>11 DEF Rewind
  <2>2. HasChar(source, value.begin) /\ (source[value.begin + 1] = ")" => Near(source, value.begin + 1))
    BY <1>1 DEF Reading, Looks, Told
  <2>3. ReadAhead(Caller, NoValue, source, index')
    BY <2>1, <2>2 DEF ReadAhead
  <2>4. SinceMark(Caller, input.start, source, index') /\ Told(Caller, NoValue, tokens', source, index')
    BY <2>1 DEF SinceMark, Told
  <2>5. QED
    BY <1>2, <2>1, <2>3, <2>4 DEF NowAt, Reading, Looks
<1>12. CASE EndOfList
  BY <1>5, <1>10, <1>11, <1>12 DEF EndOfList
<1>13. QED
  BY <1>5, <1>7, <1>8, <1>12 DEF ListToken, next

LEMMA StringReading ==
  ASSUME LexerInv, Reading, FromStr \/ UnitFromStr \/ OperatorFromStr
  PROVE  Reading'
<1>1. UNCHANGED <<input, source, index, continuing, stack, value>>
  BY DEF FromStr, UnitFromStr, OperatorFromStr, Calls, Peek, End
<1>2. Top.at # "tokens"
  BY DEF FromStr, UnitFromStr, OperatorFromStr, Calls, HasUnit
<1>3. QED
  BY <1>1, <1>2, SameReading

-----------------------------------------------------------------------------
(* Reading a line, and line continuations                                  *)

LEMMA LineEndsWithNewline ==
  ASSUME LexerInv, NEW unit \in Offer
  PROVE  /\ unit \in Seq(Char \cup {EndOfInput})
         /\ \A i \in 1 .. Len(unit) : unit[i] = Newline => i = Len(unit)
<1>1. CASE unit = <<EndOfInput>>
  <2>1. EndOfInput \in Char \cup {EndOfInput}
    OBVIOUS
  <2> DEFINE C == Char \cup {EndOfInput}
  <2> HIDE DEF C
  <2>2. <<EndOfInput>> \in Seq(C)
    BY <2>1 DEF C
  <2>3. Len(<<EndOfInput>>) = 1
    OBVIOUS
  <2>4. QED
    BY <1>1, <2>2, <2>3 DEF C
<1>2. CASE unit \in input.starts \cup input.units
  <2>1. input \in Source
    BY DEF LexerInv, Types
  <2>2. unit \in Seq(Char \cup {EndOfInput})
    BY <1>2, <2>1, SourceAssumption
  <2>3. DOMAIN unit = 1 .. Len(unit)
    BY <2>2
  <2>4. \A i \in DOMAIN unit : unit[i] = Newline => i = Len(unit)
    BY <1>2, <2>1, LineAssumption
  <2>5. QED
    BY <2>2, <2>3, <2>4
<1>3. QED
  BY <1>1, <1>2 DEF Offer

LEMMA ReadMoreReading ==
  ASSUME LexerInv, Reading, ReadMore
  PROVE  Reading'
<1> DEFINE C == Char \cup {EndOfInput}
           src == source
           more == source'
<1>1. PICK unit \in Offer : source' = source \o unit
  BY DEF ReadMore
<1>2. /\ UNCHANGED <<input, index, continuing, tokens, stack, value, outcome>>
      /\ NeedsInput /\ Top.at \notin {"tokens", "list", "from_str"}
  BY DEF ReadMore, Peeks
<1>3. index \in Nat /\ Len(src) \in Nat /\ index <= Len(src)
  BY TopFrame
<1>4. index = Len(src) \/ (index + 1 = Len(src) /\ src[index + 1] = "\\")
  BY <1>2, <1>3 DEF NeedsInput, AtBackslash, NextChar
<1>5. /\ unit \in Seq(C) /\ src \in Seq(C)
      /\ \A i \in 1 .. Len(unit) : unit[i] = Newline => i = Len(unit)
  BY LineEndsWithNewline DEF LexerInv, Types
<1> HIDE DEF C
<1>6. /\ Len(unit) \in Nat
      /\ Len(more) = Len(src) + Len(unit)
      /\ \A p \in 1 .. Len(src) + Len(unit) :
           more[p] = IF p <= Len(src) THEN src[p] ELSE unit[p - Len(src)]
  BY <1>1, <1>5, ConcatProperties, LenProperties
<1> DEFINE n == index
<1> HIDE DEF src, more
<1>7. Extends(src, more)
  BY <1>3, <1>6 DEF Extends
<1>8. Fresh(more, n)
  <2> SUFFICES ASSUME NEW p \in n + 1 .. Len(more), more[p] = Newline
               PROVE  p = Len(more)
    BY DEF Fresh
  <2>1. p \in 1 .. Len(src) + Len(unit)
    BY <1>3, <1>6
  <2>2. CASE p <= Len(src)
    <3>1. p = n + 1 /\ src[p] = "\\" /\ more[p] = src[p]
      BY <1>3, <1>4, <1>6, <2>1, <2>2
    <3>2. QED
      BY <3>1 DEF Newline
  <2>3. CASE p > Len(src)
    <3>1. p - Len(src) \in 1 .. Len(unit) /\ unit[p - Len(src)] = Newline
      BY <1>3, <1>6, <2>1, <2>3
    <3>2. p - Len(src) = Len(unit)
      BY <1>5, <3>1
    <3>3. QED
      BY <1>3, <1>6, <3>2
  <2>4. QED
    BY <1>3, <2>2, <2>3
<1>9. Near(more, n)
  BY <1>3, <1>6, <1>8, FreshIsNear
<1>10. ~HasChar(src, n) /\ (n < Len(src) => src[n + 1] = "\\")
  BY <1>3, <1>4 DEF HasChar
<1>11. \A i \in Nat : /\ HasChar(src, i) => HasChar(more, i) /\ more[i + 1] = src[i + 1]
                      /\ \A j \in i .. Len(src) : Continuations(src, i, j) => Continuations(more, i, j)
  BY <1>3, <1>7, StaysSoWithMore
<1>12. \A i \in 1 .. Len(src) : more[i] = src[i]
  BY <1>7 DEF Extends
<1>13. Top' = Top
  BY <1>2 DEF Top
<1>14. /\ ReadAhead(Top, value, src, n) /\ SinceMark(Top, input.start, src, n)
       /\ ~continuing => Top.at \in RawPlace
       /\ Linked(stack, input.start, src)
  BY DEF Reading, Looks, src
<1>15. ReadAhead(Top, value, more, n)
  <2>1. /\ ~ (Top.at = "units" /\ value.kind = "not found")
        /\ Top.at \notin {"command", "command.close"}
    BY <1>10, <1>14 DEF ReadAhead
  <2>2. QED
    BY <1>9, <2>1 DEF ReadAhead
<1>16. SinceMark(Top, input.start, more, n)
  <2>1. Top.at \in MarkedPlace => Top.mark \in Nat /\ Top.mark <= n
    BY GoesBack DEF Marked
  <2>2. ~ (Top.at = "operator" /\ Top.key = <<>> /\ input.start # "operator")
    BY <1>10, <1>14 DEF SinceMark
  <2>3. CASE Top.at \in {"dollar", "arith.open"}
    <3>1. Top.mark \in Nat /\ Top.mark < n
      BY <1>14, <2>1, <2>3 DEF SinceMark, MarkedPlace
    <3>2. /\ Top.mark + 1 \in 1 .. Len(src) /\ Top.mark + 1 \in Nat
          /\ n \in Top.mark + 1 .. Len(src)
      BY <1>3, <3>1
    <3>3. more[Top.mark + 1] = src[Top.mark + 1]
      BY <1>12, <3>2
    <3>4. Continuations(src, Top.mark + 1, n) => Continuations(more, Top.mark + 1, n)
      BY <1>11, <3>2
    <3>5. QED
      BY <1>14, <2>3, <3>3, <3>4 DEF SinceMark
  <2>4. CASE Top.at = "prefix"
    <3>1. Top.mark \in Nat /\ n \in Top.mark .. Len(src)
      BY <1>3, <2>1, <2>4 DEF MarkedPlace
    <3>2. Continuations(more, Top.mark, n)
      BY <1>11, <1>14, <2>4, <3>1 DEF SinceMark
    <3>3. QED
      BY <2>4, <3>2 DEF SinceMark
  <2>5. CASE Top.at = "prefix.first"
    <3>1. Top.mark \in Nat
      BY <2>1, <2>5 DEF MarkedPlace
    <3>2. PICK j \in Top.mark .. n - 1 :
            Continuations(src, Top.mark, j) /\ src[j + 1] \in LengthChar /\ Continuations(src, j + 1, n)
      BY <1>14, <2>5 DEF SinceMark
    <3>3. j \in Top.mark .. Len(src) /\ j + 1 \in 1 .. Len(src) /\ j + 1 \in Nat /\ n \in j + 1 .. Len(src)
      BY <1>3, <3>1
    <3>4. Continuations(more, Top.mark, j) /\ more[j + 1] = src[j + 1] /\ Continuations(more, j + 1, n)
      BY <1>11, <1>12, <3>1, <3>2, <3>3
    <3>5. QED
      BY <2>5, <3>2, <3>4 DEF SinceMark
  <2>6. CASE Top.at = "prefix.second"
    <3>1. Top.mark \in Nat
      BY <2>1, <2>6 DEF MarkedPlace
    <3>2. PICK j \in Top.mark .. n - 1 :
            /\ Continuations(src, Top.mark, j) /\ src[j + 1] \in LengthChar
            /\ \E k \in j + 1 .. n - 1 : /\ Continuations(src, j + 1, k) /\ src[k + 1] \in LengthChar
                                         /\ Continuations(src, k + 1, n)
      BY <1>14, <2>6 DEF SinceMark
    <3>3. PICK k \in j + 1 .. n - 1 : /\ Continuations(src, j + 1, k) /\ src[k + 1] \in LengthChar
                                      /\ Continuations(src, k + 1, n)
      BY <3>2
    <3>4. /\ j \in Top.mark .. Len(src) /\ j + 1 \in 1 .. Len(src) /\ j + 1 \in Nat
          /\ k \in j + 1 .. Len(src) /\ k + 1 \in 1 .. Len(src) /\ k + 1 \in Nat
          /\ n \in k + 1 .. Len(src)
      BY <1>3, <3>1
    <3>5. /\ Continuations(more, Top.mark, j) /\ more[j + 1] = src[j + 1]
          /\ Continuations(more, j + 1, k) /\ more[k + 1] = src[k + 1]
          /\ Continuations(more, k + 1, n)
      BY <1>11, <1>12, <3>1, <3>2, <3>3, <3>4
    <3>6. QED
      BY <2>6, <3>2, <3>3, <3>5 DEF SinceMark
  <2>7. QED
    BY <2>2, <2>3, <2>4, <2>5, <2>6 DEF SinceMark
<1>17. Told(Top, value, tokens, more, n)
  BY <1>2 DEF Told
<1>18. Linked(stack, input.start, more)
  <2>1. \A i \in 1 .. Len(stack) : stack[i].at \in {"word", "operator"} => stack[i].mark \in Nat
    BY DEF LexerInv, WellStacked, IsFrame, Marked, MarkedPlace
  <2>2. \A i \in 1 .. Len(stack) : BegunToken(stack[i], input.start, src)
    BY <1>14 DEF Linked
  <2>3. ASSUME NEW i \in 1 .. Len(stack)
        PROVE  BegunToken(stack[i], input.start, more)
    BY <1>11, <2>1, <2>2 DEF BegunToken
  <2>4. QED
    BY <1>14, <2>3 DEF Linked
<1>19. QED
  BY <1>2, <1>8, <1>13, <1>14, <1>15, <1>16, <1>17, <1>18 DEF Reading, Looks, more

LEMMA LineContinuationReading ==
  ASSUME LexerInv, Reading, LineContinuation
  PROVE  Reading'
<1> DEFINE n == index
<1>1. /\ UNCHANGED <<input, source, continuing, tokens, stack, value, outcome>>
      /\ ~NeedsInput /\ AtLineContinuation /\ index' = index + 2
      /\ Top.at \notin {"tokens", "list", "from_str"}
  BY DEF LineContinuation, Peeks
<1>2. n \in Nat /\ Len(source) \in Nat /\ n + 1 < Len(source) /\ continuing
      /\ source[n + 1] = "\\" /\ source[n + 2] = Newline
  BY <1>1, TopFrame DEF NeedsInput, AtLineContinuation, AtBackslash, NextChar
<1>3. Top' = Top
  BY <1>1 DEF Top
<1>4. /\ ReadAhead(Top, value, source, n) /\ SinceMark(Top, input.start, source, n)
      /\ Linked(stack, input.start, source)
  BY DEF Reading, Looks
<1>5. ~HasChar(source, n)
  BY <1>2 DEF HasChar
<1> HIDE DEF n
<1>6. /\ Near(source, n) => Near(source, n + 2)
      /\ NearNext(source, n) => NearNext(source, n + 2)
      /\ NearSecond(source, n) => NearSecond(source, n + 2)
  BY <1>2, NearAfterContinuation
<1>7. ReadAhead(Top, value, source, n + 2)
  <2>1. /\ ~ (Top.at = "units" /\ value.kind = "not found")
        /\ Top.at \notin {"command", "command.close"}
    BY <1>2, <1>4, <1>5 DEF ReadAhead
  <2>2. QED
    BY <1>4, <1>6, <2>1 DEF ReadAhead
<1> DEFINE m == n + 2
<1> HIDE DEF m
<1>8. SinceMark(Top, input.start, source, m)
  <2>0. m = n + 2 /\ m \in Nat /\ n \in Nat
    BY <1>2 DEF m
  <2>1. Top.at \in MarkedPlace => Top.mark \in Nat /\ Top.mark <= n
    BY GoesBack DEF Marked, n
  <2>2. ~ (Top.at = "operator" /\ Top.key = <<>> /\ input.start # "operator")
    BY <1>4, <1>5 DEF SinceMark
  <2>3. ASSUME NEW i \in Nat, i <= n, Continuations(source, i, n)
        PROVE  Continuations(source, i, m)
    BY <2>0, <1>2, <2>3, MoreContinuations
  <2>4. CASE Top.at \in {"dollar", "arith.open"}
    <3>1. Top.mark \in Nat /\ Top.mark < n /\ Top.mark < m /\ Top.mark + 1 \in Nat /\ Top.mark + 1 <= n
      BY <2>0, <1>2, <1>4, <2>1, <2>4 DEF SinceMark, MarkedPlace
    <3>2. QED
      BY <1>4, <2>3, <2>4, <3>1 DEF SinceMark
  <2>5. CASE Top.at = "prefix"
    BY <1>4, <2>1, <2>3, <2>5 DEF SinceMark, MarkedPlace
  <2>6. CASE Top.at = "prefix.first"
    <3>1. Top.mark \in Nat
      BY <2>1, <2>6 DEF MarkedPlace
    <3>2. PICK j \in Top.mark .. n - 1 :
            /\ Continuations(source, Top.mark, j) /\ source[j + 1] \in LengthChar
            /\ Continuations(source, j + 1, n)
      BY <1>4, <2>6 DEF SinceMark
    <3>3. j + 1 \in Nat /\ j + 1 <= n /\ j \in Top.mark .. m - 1
      BY <2>0, <1>2, <3>1
    <3>4. Continuations(source, j + 1, m)
      BY <2>3, <3>2, <3>3
    <3>5. \E i \in Top.mark .. m - 1 :
            /\ Continuations(source, Top.mark, i) /\ source[i + 1] \in LengthChar
            /\ Continuations(source, i + 1, m)
      BY <3>2, <3>3, <3>4
    <3>6. QED
      BY <2>0, <2>6, <3>5 DEF SinceMark
  <2>7. CASE Top.at = "prefix.second"
    <3>1. Top.mark \in Nat
      BY <2>1, <2>7 DEF MarkedPlace
    <3>2. PICK j \in Top.mark .. n - 1 :
            /\ Continuations(source, Top.mark, j) /\ source[j + 1] \in LengthChar
            /\ \E k \in j + 1 .. n - 1 : /\ Continuations(source, j + 1, k)
                                         /\ source[k + 1] \in LengthChar
                                         /\ Continuations(source, k + 1, n)
      BY <1>4, <2>7 DEF SinceMark
    <3>3. PICK k \in j + 1 .. n - 1 : /\ Continuations(source, j + 1, k)
                                      /\ source[k + 1] \in LengthChar
                                      /\ Continuations(source, k + 1, n)
      BY <3>2
    <3>4. /\ k + 1 \in Nat /\ k + 1 <= n
          /\ j \in Top.mark .. m - 1 /\ k \in j + 1 .. m - 1
      BY <2>0, <1>2, <3>1
    <3>5. Continuations(source, k + 1, m)
      BY <2>3, <3>3, <3>4
    <3>6. \E l \in j + 1 .. m - 1 : /\ Continuations(source, j + 1, l)
                                    /\ source[l + 1] \in LengthChar
                                    /\ Continuations(source, l + 1, m)
      BY <3>3, <3>4, <3>5
    <3>7. \E i \in Top.mark .. m - 1 :
            /\ Continuations(source, Top.mark, i) /\ source[i + 1] \in LengthChar
            /\ \E l \in i + 1 .. m - 1 : /\ Continuations(source, i + 1, l)
                                         /\ source[l + 1] \in LengthChar
                                         /\ Continuations(source, l + 1, m)
      BY <3>2, <3>4, <3>6
    <3>8. QED
      BY <2>0, <2>7, <3>7 DEF SinceMark
  <2>8. QED
    BY <2>2, <2>4, <2>5, <2>6, <2>7 DEF SinceMark
<1>9. Told(Top, value, tokens, source, n + 2)
  BY <1>1 DEF Told
<1>10. QED
  BY <1>1, <1>2, <1>3, <1>4, <1>7, <1>8, <1>9 DEF Reading, Looks, n, m

-----------------------------------------------------------------------------
(* The invariant of what has been read ahead                               *)

LEMMA ReadingInit ==
  ASSUME Init
  PROVE  Reading
<1>1. /\ input \in Source /\ source = <<>> /\ index = 0 /\ continuing = TRUE
      /\ stack = StartFrames(input.start) /\ value = NoValue
  BY DEF Init
<1>2. ASSUME NEW f, NEW g, stack = <<f, g>>,
             f.at \in {"tokens", "from_str"}, g.at \in {"blanks", "units", "operator"},
             g.at = "operator" => input.start = "operator" /\ g = OperatorFrame
      PROVE  Reading
  <2>1. Len(stack) = 2 /\ stack[1] = f /\ stack[2] = g /\ Top = g
    BY <1>2 DEF Top, Last
  <2>2. BegunToken(f, input.start, source) /\ BegunToken(g, input.start, source) /\ ListCalled(f, g)
    BY <1>2, EmptyKey DEF BegunToken, ListCalled
  <2>3. \A i \in 1 .. 2 : i = 1 \/ i = 2
    OBVIOUS
  <2>4. Linked(stack, input.start, source)
    BY <2>1, <2>2, <2>3 DEF Linked
  <2>5. Near(source, index)
    <3>1. Len(source) = 0
      BY <1>1, EmptySeq
    <3>2. Fresh(source, 0)
      BY <3>1 DEF Fresh
    <3>3. QED
      BY <1>1, <3>1, <3>2, FreshIsNear
  <2>6. value.kind = "none"
    BY <1>1, NoValueIsNothing
  <2>7. ReadAhead(g, value, source, index) /\ SinceMark(g, input.start, source, index)
        /\ Told(g, value, tokens, source, index)
    BY <1>2, <2>5, <2>6 DEF ReadAhead, SinceMark, Told
  <2>8. QED
    BY <1>1, <2>1, <2>4, <2>7 DEF Reading, Looks
<1> DEFINE string == [at |-> "from_str"]
<1>3. string.at = "from_str" /\ TokensFrame.at = "tokens" /\ BlanksFrame.at = "blanks"
      /\ OperatorFrame.at = "operator"
  BY DEF TokensFrame, BlanksFrame, OperatorFrame
<1>4. \A context, word, delimiters, escapable :
        UnitsFrame(context, word, delimiters, escapable).at = "units"
  BY DEF UnitsFrame
<1> HIDE DEF string
<1>5. CASE input.start = "tokens"
  <2>1. stack = <<TokensFrame, BlanksFrame>>
    BY <1>1, <1>5 DEF StartFrames
  <2>2. QED
    BY <1>2, <1>3, <2>1
<1>6. CASE input.start = "operator"
  <2>1. stack = <<string, OperatorFrame>>
    BY <1>1, <1>6 DEF StartFrames, string
  <2>2. QED
    BY <1>2, <1>3, <1>6, <2>1
<1>7. CASE input.start \in {"word", "text", "word unit", "text unit"}
  <2>1. PICK context, word, delimiters, escapable :
             stack = <<string, UnitsFrame(context, word, delimiters, escapable)>>
    BY <1>1, <1>7 DEF StartFrames, string, WordFrame, TextFrame
  <2> DEFINE g == UnitsFrame(context, word, delimiters, escapable)
  <2>2. g.at = "units"
    BY <1>4
  <2> HIDE DEF g
  <2>3. QED
    BY <1>2, <1>3, <2>1, <2>2 DEF g
<1>8. QED
  BY <1>1, <1>5, <1>6, <1>7, SourceAssumption DEF Start, SingleUnit

LEMMA ReadInvStep ==
  ASSUME LexerInv, ReadInv, [Next]_vars
  PROVE  ReadInv'
<1>1. CASE UNCHANGED vars
  BY <1>1 DEF vars, ReadInv, Reading, Looks, Top
<1>2. CASE again /\ Next
  BY <1>2 DEF ReadInv, Next
<1>3. ASSUME Reading, ReadMore \/ LineContinuation \/ (Step /\ ~ArithClose)
      PROVE  Reading'
  BY <1>3, ReadMoreReading, LineContinuationReading, BlanksReading, CommentReading, OperatorReading,
     WordTokenReading, UnitsReading, LiteralDollarReading, EscapeReading, SingleQuoteReading,
     DoubleQuoteReading, BackquoteReading, BackquoteEscapeReading, DollarReading, NameReading,
     LengthPrefixReading, BracedParamReading, SuffixReading, TrimReading, BraceCloseReading,
     ArithOpenReading, ArithContentReading, CommandSubstitutionReading, RequireTokenReading,
     TakeTokenReading, HereDocContentsReading, LineReading, HereDocLineReading, ListTokenReading,
     StringReading
     DEF Step
<1>4. CASE Reading /\ Next /\ ArithClose
  BY <1>4, ArithCloseReading DEF ReadInv, Next
<1>5. CASE Reading /\ Next /\ ~ArithClose
  BY <1>3, <1>5 DEF ReadInv, Next
<1>6. QED
  BY <1>1, <1>2, <1>4, <1>5 DEF ReadInv

LEMMA ReadInvImplies ==
  ASSUME LexerInv, ReadInv
  PROVE  NewlineEndsReading
<1> SUFFICES ASSUME Len(stack) = 1, value = NoValue,
                    AfterOperator(<<Newline>>) \/ After("here-doc"), ~again
             PROVE  index = Len(source)
  BY DEF NewlineEndsReading
<1>1. Reading
  BY DEF ReadInv
<1>2. Top.at \in {"tokens", "from_str"}
  BY TopFrame DEF LexerInv, WellStacked
<1>3. Told(Top, value, tokens, source, index)
  BY <1>1 DEF Reading, Looks
<1>4. LineIsTaken(tokens)
  BY DEF LineIsTaken, AfterOperator, After
<1>5. QED
  BY <1>2, <1>3, <1>4 DEF Told

-----------------------------------------------------------------------------
(* The theorems                                                            *)

(* Whatever the input is, the lexer stays within what it has read, and     *)
(* every function is called by one that calls it (WellStacked).  The places*)
(* that functions on the stack go back to are in the order of their calls, *)
(* none is beyond the one the lexer is at, and none is before the end of a *)
(* token that has been taken or of a content that has been read            *)
(* (MarksInOrder): neither is ever read again (core.rs, rewind).           *)
THEOREM TokenLexerTypeCorrect == Spec => [](TypeOK /\ LexerInv)
<1>1. Init => LexerInv
  BY LexerInvInit
<1>2. LexerInv /\ [Next]_vars => LexerInv'
  BY LexerInvStep
<1>3. LexerInv => TypeOK
  BY LexerInvImplies
<1>4. QED
  BY <1>1, <1>2, <1>3, PTL DEF Spec

(* arithmetic_expansion never gets to `unreachable!`: the text that it     *)
(* reads ends at a parenthesis or the end of the input, and the text is    *)
(* the one that it has asked for, however deep the expansions within it    *)
(* are (arith.rs).                                                         *)
THEOREM UnreachableIsNotReached == Spec => []ContentEndsAtParenthesis
<1>1. Init => LexerInv
  BY LexerInvInit
<1>2. LexerInv /\ [Next]_vars => LexerInv'
  BY LexerInvStep
<1>3. LexerInv => ContentEndsAtParenthesis
  BY LexerInvImplies
<1>4. QED
  BY <1>1, <1>2, <1>3, PTL DEF Spec

(* In an interactive shell, a line is executed before the next one is read *)
(* (op.rs, operator_tail, and heredoc.rs): however the lexer looks ahead,  *)
(* goes back and skips line continuations, it has read nothing after the   *)
(* newline that ends a command or a here-document, unless an arithmetic    *)
(* expansion has been read again as a command substitution.                *)
THEOREM LineIsExecutedFirst == Spec => []NewlineEndsReading
<1>1. Init => LexerInv /\ ReadInv
  BY LexerInvInit, ReadingInit DEF ReadInv
<1>2. LexerInv /\ [Next]_vars => LexerInv'
  BY LexerInvStep
<1>3. LexerInv /\ ReadInv /\ [Next]_vars => ReadInv'
  BY ReadInvStep
<1>4. LexerInv /\ ReadInv => NewlineEndsReading
  BY ReadInvImplies
<1>5. QED
  BY <1>1, <1>2, <1>3, <1>4, PTL DEF Spec
=============================================================================
