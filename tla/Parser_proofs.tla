---------------------------- MODULE Parser_proofs ----------------------------
(***************************************************************************)
(* Proofs about the parser.                                                *)
(*                                                                         *)
(* A stack of frames is followed by the here-documents of their parts: the *)
(* sequence of all of them, from the first frame to the value that is      *)
(* being returned, only grows at its end, when the parser memorizes one.   *)
(* What the last frame is at says which tokens have been taken last, where *)
(* a newline can be taken that the contents are not read after.            *)
(***************************************************************************)
EXTENDS Parser, SyntaxTree_proofs

-----------------------------------------------------------------------------
(* The trees, frames and values that the parser makes                      *)

(* A set of trees with their parts: a list and a simple command, whose     *)
(* parts the parser takes out again, have the here-documents of these.     *)
Trees(T) ==
  /\ T \subseteq [node : NodeName, parts : Seq(T), docs : Seq(Nat)]
  /\ \A t \in T : t.node \in {"list", "simple"} => t.docs = DocsOf(t.parts)
  /\ \A name \in NodeName : Leaf(name) \in T

LinePlace == {"command_line", "command_line.end"}
ListPlace == {"list", "list.next", "list.separator"}
RedirPlace == {"redir", "redir.body", "redir.operand", "redir.delimiter"}
ArrayPlace == {"array.open", "array"}
CommandPlace == {"compound_list", "compound_list.end", "and_or", "and_or.operator",
                 "and_or.newlines", "and_or.operand", "pipeline", "pipeline.bang",
                 "pipeline.bar", "pipeline.newlines", "pipeline.operand", "command",
                 "function", "function.close", "function.body", "simple", "arguments",
                 "compound_command", "full", "redirections", "grouping", "subshell", "do",
                 "while", "while.do", "while.body"}
ClausePlace == {"if.condition", "if.then", "if.body", "if.rest", "if.else", "if.fi",
                "for.name", "for.in", "for.in.next", "for.values", "for.body", "for.done",
                "case.subject", "case.in", "case.in.auto", "case.items", "case.item",
                "case.end", "case.close", "case.pattern", "case.separator", "case.next",
                "case.body"}
Place == LinePlace \cup ListPlace \cup RedirPlace \cup ArrayPlace \cup CommandPlace \cup ClausePlace

FrameOf(T) == [at : Place, parts : Seq(T), open : Nat, clause : Nat]
ValueOf(T) == [tag : {"Some"}, tree : T] \cup {NoValue, AliasSubstituted, None}
Typed(T, s, v) == s \in Seq(FrameOf(T)) /\ s # <<>> /\ v \in ValueOf(T)

(* A larger set has them, too.                                             *)
LEMMA TypedGrows ==
  ASSUME NEW T, NEW U, T \subseteq U
  PROVE  Seq(T) \subseteq Seq(U) /\ FrameOf(T) \subseteq FrameOf(U) /\ ValueOf(T) \subseteq ValueOf(U)
<1>1. Seq(T) \subseteq Seq(U)
  BY SeqMonotonic
<1>2. FrameOf(T) \subseteq FrameOf(U)
  BY <1>1 DEF FrameOf
<1>3. ValueOf(T) \subseteq ValueOf(U)
  BY DEF ValueOf
<1>4. QED
  BY <1>1, <1>2, <1>3

LEMMA LeafDocs ==
  ASSUME NEW name
  PROVE  Leaf(name) = [node |-> name, parts |-> <<>>, docs |-> <<>>]
BY DocsOfNone DEF Leaf, Node, FillOrder

LEMMA NoTreeDocs == NoTree.docs = <<>> /\ NoValue.tree = NoTree /\ None.tree = NoTree /\ AliasSubstituted.tree = NoTree
BY LeafDocs DEF NoTree, NoValue, None, AliasSubstituted

LEMMA LeavesAreTrees == Trees({Leaf(name) : name \in NodeName})
<1> DEFINE T == {Leaf(name) : name \in NodeName}
<1>1. \A name \in NodeName : Leaf(name) = [node |-> name, parts |-> <<>>, docs |-> <<>>]
  BY LeafDocs
<1>2. <<>> \in Seq(T) /\ <<>> \in Seq(Nat)
  BY EmptySeq
<1> DEFINE R == [node : NodeName, parts : Seq(T), docs : Seq(Nat)]
<1>3. T \subseteq R
  <2> SUFFICES ASSUME NEW name \in NodeName PROVE Leaf(name) \in R
    OBVIOUS
  <2> DEFINE e == <<>>
  <2>1. e \in Seq(T) /\ e \in Seq(Nat)
    BY <1>2
  <2>2. Leaf(name) = [node |-> name, parts |-> e, docs |-> e]
    BY <1>1
  <2> HIDE DEF T, e
  <2>3. [node |-> name, parts |-> e, docs |-> e] \in R
    BY <2>1
  <2>4. QED
    BY <2>2, <2>3
<1>4. \A t \in T : t.docs = DocsOf(t.parts)
  <2> SUFFICES ASSUME NEW name \in NodeName PROVE Leaf(name).docs = DocsOf(Leaf(name).parts)
    OBVIOUS
  <2>1. QED
    BY <1>1, DocsOfNone
<1>5. QED
  BY <1>3, <1>4 DEF Trees

LEMMA TreesHaveDocs ==
  ASSUME NEW T, Trees(T)
  PROVE  HaveDocs(T)
BY DEF Trees, HaveDocs

(* The tree is one of these.                                               *)
LEMMA TreeFields ==
  ASSUME NEW T, Trees(T), NEW t \in T
  PROVE  /\ t = [node |-> t.node, parts |-> t.parts, docs |-> t.docs]
         /\ t.node \in NodeName /\ t.parts \in Seq(T) /\ t.docs \in Seq(Nat)
         /\ t.node \in {"list", "simple"} => t.docs = DocsOf(t.parts)
BY DEF Trees

(* Another tree that is made of them                                       *)
LEMMA OneMoreTree ==
  ASSUME NEW T, Trees(T), NEW name \in NodeName, NEW parts \in Seq(T), NEW docs \in Seq(Nat),
         name \in {"list", "simple"} => docs = DocsOf(parts)
  PROVE  Trees(T \cup {[node |-> name, parts |-> parts, docs |-> docs]})
<1> DEFINE t == [node |-> name, parts |-> parts, docs |-> docs]
           U == T \cup {t}
<1>1. Seq(T) \subseteq Seq(U)
  BY SeqMonotonic
<1>2. t \in [node : NodeName, parts : Seq(U), docs : Seq(Nat)]
  BY <1>1
<1>3. T \subseteq [node : NodeName, parts : Seq(U), docs : Seq(Nat)]
  <2> HIDE DEF U
  <2>1. QED
    BY <1>1 DEF Trees
<1>4. t.node = name /\ t.parts = parts /\ t.docs = docs
  OBVIOUS
<1> HIDE DEF t
<1>5. QED
  BY <1>2, <1>3, <1>4 DEF Trees, t

LEMMA NodeFields ==
  ASSUME NEW name, NEW parts
  PROVE  Node(name, parts) = [node |-> name, parts |-> parts, docs |-> DocsOf(parts)]
BY DEF Node, FillOrder

LEMMA OneMoreNode ==
  ASSUME NEW T, Trees(T), NEW name \in NodeName, NEW parts \in Seq(T)
  PROVE  /\ Trees(T \cup {Node(name, parts)})
         /\ T \subseteq T \cup {Node(name, parts)}
         /\ Node(name, parts) \in T \cup {Node(name, parts)}
         /\ Node(name, parts).docs = DocsOf(parts)
         /\ Node(name, parts).node = name
<1>1. HaveDocs(T)
  BY TreesHaveDocs
<1>2. DocsOf(parts) \in Seq(Nat)
  BY <1>1, DocsType
<1>3. Trees(T \cup {Node(name, parts)})
  BY <1>2, NodeFields, OneMoreTree
<1>4. QED
  BY <1>3, NodeFields

-----------------------------------------------------------------------------
(* What the parts of a frame are at a place                                *)

NoDocsPlace == {"list", "and_or", "pipeline", "compound_command", "full", "case.item"}
               \cup RedirPlace \cup ArrayPlace
Good(l, parts) ==
  /\ l \in NoDocsPlace => DocsOf(parts) = <<>>
  /\ l \in {"command_line", "command"} => parts = <<>>
  /\ l \in {"command_line.end", "function"} => Len(parts) = 1
  /\ l \in SimplePlace => \A i \in 1 .. Len(parts) : IsRedir(parts[i]) \/ parts[i].docs = <<>>
  /\ l = "list.separator" => parts # <<>>

(* A function that awaits another one, and one that is to go on            *)
Waiting(f) == f.at = "do" => f.parts = <<>>
Active(f) == f.at = "do" => Len(f.parts) = 1

(* What a place is to the functions that call                              *)
Role(l) == CASE l \in LinePlace -> "line"
             [] l \in ListPlace -> "list"
             [] l \in RedirPlace -> "redirection"
             [] l \in ArrayPlace -> "array"
             [] OTHER -> "other"

(* The parts of a simple command end with the assignment whose values are  *)
(* being parsed.                                                           *)
EndsInAssignment(parts) == parts # <<>> /\ parts[Len(parts)].docs = <<>>

(* Words that have no commands in them: the functions call no other there, *)
(* and a newline is no more than a blank.  (A newline before `in` is more, *)
(* unless an alias has been substituted there.)                            *)
InnerPlace == {"for.values", "array.open", "array", "case.subject", "case.in", "case.in.auto"}

(* A frame c may call a function of this role.                             *)
Calls(c, role) ==
  /\ c.at \notin InnerPlace
  /\ role # "line"
  /\ c.at = "compound_list" => role = "list"
  /\ c.at \in SimplePlace => role \in {"redirection", "array"}
  /\ role = "array" => c.at \in SimplePlace /\ EndsInAssignment(c.parts)

(* It may be given this value.                                             *)
Delivers(c, v) ==
  v.tag = "Some" =>
    /\ c.at = "compound_list" => v.tree.node = "list"
    /\ c.at \in SimplePlace =>
         \/ IsRedir(v.tree)
         \/ IsAssign(v.tree) /\ v.tree.docs = <<>> /\ EndsInAssignment(c.parts)

StackOK(s, v) ==
  /\ \A i \in 1 .. Len(s) : Good(s[i].at, s[i].parts)
  /\ \A i \in 1 .. Len(s) - 1 : Waiting(s[i]) /\ Calls(s[i], Role(s[i + 1].at))
  /\ Role(s[1].at) = "line"
  /\ v = NoValue => Active(s[Len(s)])
  /\ v # NoValue => Waiting(s[Len(s)]) /\ Delivers(s[Len(s)], v)

(* The here-documents of the parts of the frames                           *)
DocsOfFrame(f) == [docs |-> DocsOf(f.parts)]
StackDocs(s) == DocsOf([i \in 1 .. Len(s) |-> DocsOfFrame(s[i])])
AllDocs(s, v) == StackDocs(s) \o v.tree.docs

-----------------------------------------------------------------------------
(* Frames on frames                                                        *)

LEMMA StackDocsOne ==
  ASSUME NEW T, Trees(T), NEW f \in FrameOf(T)
  PROVE  StackDocs(<<f>>) = DocsOf(f.parts) /\ DocsOf(f.parts) \in Seq(Nat)
<1>1. f.parts \in Seq(T) /\ HaveDocs(T)
  BY TreesHaveDocs DEF FrameOf
<1>2. DocsOf(f.parts) \in Seq(Nat)
  BY <1>1, DocsType
<1> DEFINE t == DocsOfFrame(f)
<1>3. t.docs = DocsOf(f.parts)
  BY DEF DocsOfFrame
<1>4. StackDocs(<<f>>) = DocsOf(<<t>>)
  <2>1. [i \in 1 .. Len(<<f>>) |-> DocsOfFrame(<<f>>[i])] = <<t>>
    <3>1. [i \in 1 .. Len(<<f>>) |-> DocsOfFrame(<<f>>[i])] = [i \in 1 .. 1 |-> t]
      OBVIOUS
    <3> HIDE DEF t
    <3>2. QED
      BY <3>1
  <2>2. QED
    BY <2>1 DEF StackDocs
<1> HIDE DEF t
<1>5. DocsOf(<<t>>) = t.docs
  BY <1>2, <1>3, DocsOfOne
<1>6. QED
  BY <1>2, <1>3, <1>4, <1>5

LEMMA StackDocsConcat ==
  ASSUME NEW T, Trees(T), NEW s \in Seq(FrameOf(T)), NEW r \in Seq(FrameOf(T))
  PROVE  /\ StackDocs(s \o r) = StackDocs(s) \o StackDocs(r)
         /\ StackDocs(s) \in Seq(Nat)
<1> DEFINE F == FrameOf(T)
           D == {DocsOfFrame(f) : f \in F}
           M(q) == [i \in 1 .. Len(q) |-> DocsOfFrame(q[i])]
           m == M(s)
           n == M(r)
           o == M(s \o r)
<1>1. HaveDocs(D)
  <2> SUFFICES ASSUME NEW f \in F PROVE DocsOfFrame(f).docs \in Seq(Nat)
    BY DEF HaveDocs
  <2>1. QED
    BY StackDocsOne DEF DocsOfFrame
<1> HIDE DEF F
<1>2. /\ Len(s) \in Nat /\ Len(r) \in Nat /\ s \o r \in Seq(F)
      /\ Len(s \o r) = Len(s) + Len(r)
      /\ \A i \in 1 .. Len(s) + Len(r) : (s \o r)[i] = IF i <= Len(s) THEN s[i] ELSE r[i - Len(s)]
  BY LenProperties, ConcatProperties DEF F
<1>3. \A q \in Seq(F) : M(q) \in Seq(D) /\ Len(M(q)) = Len(q)
  <2> SUFFICES ASSUME NEW q \in Seq(F) PROVE M(q) \in Seq(D) /\ Len(M(q)) = Len(q)
    OBVIOUS
  <2>1. Len(q) \in Nat /\ \A i \in 1 .. Len(q) : q[i] \in F
    BY LenProperties, ElementOfSeq
  <2>2. \A i \in 1 .. Len(q) : DocsOfFrame(q[i]) \in D
    BY <2>1
  <2> HIDE DEF D
  <2>3. QED
    BY <2>1, <2>2
<1> HIDE DEF D
<1>4. m \in Seq(D) /\ n \in Seq(D) /\ o \in Seq(D) /\ Len(m) = Len(s) /\ Len(n) = Len(r)
      /\ Len(o) = Len(s) + Len(r)
  BY <1>2, <1>3 DEF F
<1>5. o = m \o n
  <2>1. /\ m \o n \in Seq(D) /\ Len(m \o n) = Len(s) + Len(r)
        /\ \A i \in 1 .. Len(s) + Len(r) : (m \o n)[i] = IF i <= Len(s) THEN m[i] ELSE n[i - Len(s)]
    <3> HIDE DEF m, n, o
    <3>1. m \in Seq(D) /\ n \in Seq(D)
      BY <1>4
    <3>2. m \o n \in Seq(D) /\ Len(m \o n) = Len(m) + Len(n)
      BY <3>1, ConcatProperties
    <3>3. \A i \in 1 .. Len(m) + Len(n) : (m \o n)[i] = IF i <= Len(m) THEN m[i] ELSE n[i - Len(m)]
      BY <3>1, ConcatProperties
    <3>4. QED
      BY <1>4, <3>2, <3>3
  <2>2. \A i \in 1 .. Len(s) + Len(r) : o[i] = (m \o n)[i]
    <3> SUFFICES ASSUME NEW i \in 1 .. Len(s) + Len(r) PROVE o[i] = (m \o n)[i]
      OBVIOUS
    <3>1. o[i] = DocsOfFrame((s \o r)[i])
      BY <1>2
    <3>2. CASE i <= Len(s)
      <4>1. (s \o r)[i] = s[i] /\ (m \o n)[i] = m[i] /\ i \in 1 .. Len(s)
        BY <1>2, <2>1, <3>2
      <4>2. QED
        BY <3>1, <4>1
    <3>3. CASE ~(i <= Len(s))
      <4> DEFINE j == i - Len(s)
      <4>1. (s \o r)[i] = r[j] /\ (m \o n)[i] = n[j] /\ j \in 1 .. Len(r)
        BY <1>2, <2>1, <3>3
      <4> HIDE DEF j
      <4>2. QED
        BY <3>1, <4>1
    <3>4. QED
      BY <3>2, <3>3
  <2> HIDE DEF m, n, o
  <2>3. QED
    BY <1>4, <2>1, <2>2, SeqEqual
<1>6. StackDocs(s) = DocsOf(m) /\ StackDocs(r) = DocsOf(n) /\ StackDocs(s \o r) = DocsOf(o)
  BY DEF StackDocs
<1> HIDE DEF m, n, o
<1>7. DocsOf(m \o n) = DocsOf(m) \o DocsOf(n)
  BY <1>1, <1>4, DocsOfConcat
<1>8. DocsOf(m) \in Seq(Nat)
  BY <1>1, <1>4, DocsType
<1>9. QED
  BY <1>5, <1>6, <1>7, <1>8

LEMMA FrontAndLast ==
  ASSUME NEW S, NEW s \in Seq(S), s # <<>>
  PROVE  /\ Len(s) \in Nat \ {0}
         /\ Front(s) \in Seq(S) /\ Len(Front(s)) = Len(s) - 1
         /\ \A i \in 1 .. Len(s) - 1 : Front(s)[i] = s[i]
         /\ Last(s) = s[Len(s)] /\ Last(s) \in S
         /\ s = Front(s) \o <<Last(s)>>
<1> DEFINE l == Len(s)
           k == l - 1
           f == Front(s)
           e == s[l]
<1>1. l \in Nat /\ l # 0 /\ \A i \in 1 .. l : s[i] \in S
  BY EmptySeq, LenProperties, ElementOfSeq
<1>2. f = SubSeq(s, 1, k) /\ Last(s) = e
  BY DEF Front, Last
<1>3. k \in Nat /\ k <= l /\ \A i \in 1 .. k : s[i] \in S
  BY <1>1
<1>4. e \in S
  BY <1>1
<1> HIDE DEF l, k, f, e
<1>5. f \in Seq(S) /\ Len(f) = k /\ \A i \in 1 .. k : f[i] = s[i]
  BY <1>2, <1>3, SubSeqProperties
<1>6. s = f \o <<e>>
  <2> DEFINE t == <<e>>
  <2>1. t \in Seq(S) /\ Len(t) = 1 /\ t[1] = e
    BY <1>4
  <2> HIDE DEF t
  <2>2. f \o t \in Seq(S) /\ Len(f \o t) = Len(f) + Len(t)
    BY <1>5, <2>1, ConcatProperties
  <2>3. \A i \in 1 .. Len(f) + Len(t) : (f \o t)[i] = IF i <= Len(f) THEN f[i] ELSE t[i - Len(f)]
    BY <1>5, <2>1, ConcatProperties
  <2>4. Len(f) + Len(t) = l
    BY <1>1, <1>5, <2>1 DEF k
  <2>5. \A i \in 1 .. l : (f \o t)[i] = s[i]
    <3> SUFFICES ASSUME NEW i \in 1 .. l PROVE (f \o t)[i] = s[i]
      OBVIOUS
    <3>1. (f \o t)[i] = IF i <= k THEN f[i] ELSE t[i - k]
      BY <1>5, <2>3, <2>4
    <3>2. CASE i <= k
      BY <1>3, <1>5, <3>1, <3>2
    <3>3. CASE ~(i <= k)
      <4>1. i = l /\ i - k = 1
        BY <1>1, <3>3 DEF k
      <4>2. QED
        BY <2>1, <3>1, <3>3, <4>1 DEF e
    <3>4. QED
      BY <3>2, <3>3
  <2> DEFINE g == f \o t
  <2>6. g \in Seq(S) /\ Len(g) = Len(s) /\ \A i \in 1 .. Len(s) : s[i] = g[i]
    BY <2>2, <2>4, <2>5 DEF l
  <2> HIDE DEF g
  <2>7. s = g
    BY <2>6, SeqEqual
  <2>8. QED
    BY <2>7 DEF g, t
<1>7. QED
  BY <1>1, <1>2, <1>3, <1>4, <1>5, <1>6 DEF l, k, f, e

(* Frames that may replace others of this role: the functions wait for     *)
(* each other, the last one goes on, and these are their here-documents.   *)
Segment(T, s, role, docs) ==
  /\ s \in Seq(FrameOf(T)) /\ s # <<>>
  /\ \A i \in 1 .. Len(s) : Good(s[i].at, s[i].parts)
  /\ \A i \in 1 .. Len(s) - 1 : Waiting(s[i]) /\ Calls(s[i], Role(s[i + 1].at))
  /\ Active(s[Len(s)])
  /\ Role(s[1].at) = role
  /\ StackDocs(s) = docs

LEMMA SegmentOfOne ==
  ASSUME NEW T, Trees(T), NEW f \in FrameOf(T), Good(f.at, f.parts), Active(f)
  PROVE  Segment(T, <<f>>, Role(f.at), DocsOf(f.parts))
<1> DEFINE s == <<f>>
<1>1. s \in Seq(FrameOf(T)) /\ s # <<>> /\ Len(s) = 1 /\ s[1] = f
  OBVIOUS
<1>2. StackDocs(s) = DocsOf(f.parts)
  BY StackDocsOne
<1> HIDE DEF s
<1>3. Segment(T, s, Role(f.at), DocsOf(f.parts))
  BY <1>1, <1>2 DEF Segment
<1>4. QED
  BY <1>3 DEF s

(* f calls the others.                                                     *)
LEMMA SegmentOfCall ==
  ASSUME NEW T, Trees(T), NEW f \in FrameOf(T), Good(f.at, f.parts), Waiting(f),
         NEW s, NEW role, Segment(T, s, role, <<>>), Calls(f, role)
  PROVE  Segment(T, <<f>> \o s, Role(f.at), DocsOf(f.parts))
<1> DEFINE g == <<f>>
           r == g \o s
           l == Len(s)
           d == DocsOf(f.parts)
           F == FrameOf(T)
<1>1. g \in Seq(F) /\ Len(g) = 1 /\ g[1] = f /\ s \in Seq(F) /\ s # <<>>
  BY DEF Segment
<1>2. StackDocs(g) = d /\ d \in Seq(Nat)
  BY StackDocsOne
<1>3. l \in Nat /\ l # 0
  BY <1>1, EmptySeq
<1> HIDE DEF g
<1>4. StackDocs(r) = StackDocs(g) \o StackDocs(s)
  BY <1>1, StackDocsConcat
<1>5. r \in Seq(F) /\ Len(r) = Len(g) + Len(s)
  BY <1>1, ConcatProperties
<1>6. \A i \in 1 .. Len(g) + Len(s) : r[i] = IF i <= Len(g) THEN g[i] ELSE s[i - Len(g)]
  BY <1>1, ConcatProperties
<1>7. Len(r) = l + 1 /\ r[1] = f /\ \A i \in 1 .. l : r[i + 1] = s[i]
  <2>1. Len(r) = l + 1
    BY <1>1, <1>3, <1>5
  <2>2. 1 \in 1 .. Len(g) + Len(s)
    BY <1>1, <1>3
  <2>3. r[1] = f
    BY <1>1, <1>6, <2>2
  <2>4. ASSUME NEW i \in 1 .. l PROVE r[i + 1] = s[i]
    <3> DEFINE j == i + 1
    <3>1. j \in 1 .. Len(g) + Len(s) /\ ~(j <= Len(g)) /\ j - Len(g) = i
      BY <1>1, <1>3
    <3> HIDE DEF j
    <3>2. r[j] = s[i]
      BY <1>6, <3>1
    <3>3. QED
      BY <3>2 DEF j
  <2>5. QED
    BY <2>1, <2>3, <2>4
<1>8. StackDocs(r) = d
  <2>1. StackDocs(s) = <<>>
    BY DEF Segment
  <2> HIDE DEF d, r
  <2>2. d \o <<>> = d
    BY <1>2, ConcatEmptySeq
  <2>3. QED
    BY <1>2, <1>4, <2>1, <2>2
<1>9. /\ \A i \in 1 .. l : Good(s[i].at, s[i].parts)
      /\ \A i \in 1 .. l - 1 : Waiting(s[i]) /\ Calls(s[i], Role(s[i + 1].at))
      /\ Active(s[l]) /\ Role(s[1].at) = role
  BY DEF Segment
<1> HIDE DEF r, l, d, F
<1>10. r # <<>>
  BY <1>3, <1>5, <1>7, EmptySeq
<1>11. ASSUME NEW i \in 1 .. l + 1 PROVE Good(r[i].at, r[i].parts)
  <2>1. CASE i = 1
    BY <1>7, <2>1
  <2>2. CASE i # 1
    <3> DEFINE j == i - 1
    <3>1. j \in 1 .. l /\ j + 1 = i
      BY <1>3, <2>2
    <3> HIDE DEF j
    <3>2. r[i] = s[j]
      BY <1>7, <3>1
    <3>3. QED
      BY <1>9, <3>1, <3>2
  <2>3. QED
    BY <2>1, <2>2
<1>12. ASSUME NEW i \in 1 .. l PROVE Waiting(r[i]) /\ Calls(r[i], Role(r[i + 1].at))
  <2>1. r[i + 1] = s[i]
    BY <1>7
  <2>2. CASE i = 1
    <3>1. r[i] = f /\ Role(r[i + 1].at) = role
      BY <1>7, <1>9, <2>1, <2>2
    <3>2. QED
      BY <3>1
  <2>3. CASE i # 1
    <3> DEFINE j == i - 1
    <3>1. j \in 1 .. l - 1 /\ j \in 1 .. l /\ j + 1 = i
      BY <1>3, <2>3
    <3> HIDE DEF j
    <3>2. r[i] = s[j]
      BY <1>7, <3>1
    <3>3. Waiting(s[j]) /\ Calls(s[j], Role(s[j + 1].at))
      BY <1>9, <3>1
    <3>4. QED
      BY <2>1, <3>1, <3>2, <3>3
  <2>4. QED
    BY <2>2, <2>3
<1>13. Active(r[l + 1])
  <2>1. l \in 1 .. l
    BY <1>3
  <2>2. r[l + 1] = s[l]
    BY <1>7, <2>1
  <2>3. QED
    BY <1>9, <2>2
<1>14. Segment(T, r, Role(f.at), d)
  <2>1. Len(r) = l + 1 /\ Len(r) - 1 = l
    BY <1>3, <1>7
  <2>2. \A i \in 1 .. Len(r) : Good(r[i].at, r[i].parts)
    BY <1>11, <2>1
  <2>3. \A i \in 1 .. Len(r) - 1 : Waiting(r[i]) /\ Calls(r[i], Role(r[i + 1].at))
    BY <1>12, <2>1
  <2>4. Active(r[Len(r)]) /\ Role(r[1].at) = Role(f.at)
    BY <1>7, <1>13, <2>1
  <2>5. QED
    BY <1>5, <1>8, <1>10, <2>2, <2>3, <2>4 DEF Segment, F
<1>15. QED
  BY <1>14 DEF r, g, d

(* What a step of a frame makes of the stack and the value                 *)
Kept(T, s, v, s2, v2, docs) ==
  Typed(T, s2, v2) /\ StackOK(s2, v2) /\ AllDocs(s2, v2) = AllDocs(s, v) \o docs

LEMMA AllDocsSplit ==
  ASSUME NEW T, Trees(T), NEW s, NEW v, Typed(T, s, v)
  PROVE  /\ StackDocs(s) = StackDocs(Front(s)) \o DocsOf(Last(s).parts)
         /\ StackDocs(Front(s)) \in Seq(Nat) /\ DocsOf(Last(s).parts) \in Seq(Nat)
         /\ v.tree.docs \in Seq(Nat)
<1> DEFINE F == FrameOf(T)
           f == Front(s)
           e == Last(s)
           g == <<e>>
<1>1. s \in Seq(F) /\ s # <<>> /\ v \in ValueOf(T)
  BY DEF Typed
<1>2. f \in Seq(F) /\ e \in F /\ s = f \o g /\ g \in Seq(F)
  <2> HIDE DEF F
  <2>1. Front(s) \in Seq(F) /\ Last(s) \in F /\ s = Front(s) \o <<Last(s)>>
    BY <1>1, FrontAndLast
  <2>2. QED
    BY <2>1
<1>3. StackDocs(g) = DocsOf(e.parts) /\ DocsOf(e.parts) \in Seq(Nat)
  BY <1>2, StackDocsOne
<1>4. StackDocs(f \o g) = StackDocs(f) \o StackDocs(g) /\ StackDocs(f) \in Seq(Nat)
  <2> HIDE DEF f, g
  <2>1. QED
    BY <1>2, StackDocsConcat
<1>5. v.tree.docs \in Seq(Nat)
  <2>1. CASE v \in {NoValue, AliasSubstituted, None}
    BY <2>1, NoTreeDocs, EmptySeq
  <2>2. CASE v \in [tag : {"Some"}, tree : T]
    BY <2>2, TreeFields
  <2>3. QED
    BY <1>1, <2>1, <2>2 DEF ValueOf
<1>6. QED
  BY <1>2, <1>3, <1>4, <1>5

(* Become                                                                  *)
LEMMA BecomeKeeps ==
  ASSUME NEW T, Trees(T), NEW U, Trees(U), T \subseteq U,
         NEW s, NEW v, Typed(T, s, v), StackOK(s, v),
         NEW r, Segment(U, r, Role(Last(s).at), DocsOf(Last(s).parts) \o v.tree.docs)
  PROVE  Kept(U, s, v, Front(s) \o r, NoValue, <<>>)
<1> DEFINE F == FrameOf(U)
           f == Front(s)
           q == f \o r
           n == Len(s)
           k == n - 1
           l == Len(r)
           a == StackDocs(f)
           b == DocsOf(Last(s).parts)
           c == v.tree.docs
<1>1. s \in Seq(F) /\ s # <<>> /\ r \in Seq(F) /\ r # <<>>
  BY TypedGrows DEF Typed, Segment
<1>2. /\ n \in Nat \ {0} /\ f \in Seq(F) /\ Len(f) = k
      /\ \A i \in 1 .. k : f[i] = s[i]
      /\ Last(s) = s[n]
  <2> HIDE DEF F
  <2>1. QED
    BY <1>1, FrontAndLast
<1>3. l \in Nat \ {0} /\ k \in Nat
  BY <1>1, <1>2, EmptySeq
<1>4. /\ StackDocs(s) = a \o b /\ a \in Seq(Nat) /\ b \in Seq(Nat) /\ c \in Seq(Nat)
  BY AllDocsSplit
<1> HIDE DEF f, n, k, l, F
<1>5. q \in Seq(F) /\ Len(q) = Len(f) + Len(r)
  BY <1>1, <1>2, ConcatProperties
<1>6. \A i \in 1 .. Len(f) + Len(r) : q[i] = IF i <= Len(f) THEN f[i] ELSE r[i - Len(f)]
  BY <1>1, <1>2, ConcatProperties
<1> HIDE DEF q
<1>7. Len(q) = k + l
  BY <1>2, <1>5 DEF l
<1>8. \A i \in 1 .. k : q[i] = s[i]
  <2> SUFFICES ASSUME NEW i \in 1 .. k PROVE q[i] = s[i]
    OBVIOUS
  <2>1. i \in 1 .. Len(f) + Len(r) /\ i <= Len(f)
    BY <1>2, <1>3 DEF l
  <2>2. q[i] = f[i]
    BY <1>6, <2>1
  <2>3. QED
    BY <1>2, <2>2
<1>9. \A i \in 1 .. l : q[k + i] = r[i]
  <2> SUFFICES ASSUME NEW i \in 1 .. l PROVE q[k + i] = r[i]
    OBVIOUS
  <2> DEFINE j == k + i
  <2>1. j \in 1 .. Len(f) + Len(r) /\ ~(j <= Len(f)) /\ j - Len(f) = i
    BY <1>2, <1>3 DEF l
  <2> HIDE DEF j
  <2>2. q[j] = r[i]
    BY <1>6, <2>1
  <2>3. QED
    BY <2>2 DEF j
<1>10. /\ \A i \in 1 .. l : Good(r[i].at, r[i].parts)
       /\ \A i \in 1 .. l - 1 : Waiting(r[i]) /\ Calls(r[i], Role(r[i + 1].at))
       /\ Active(r[l]) /\ Role(r[1].at) = Role(s[n].at)
       /\ StackDocs(r) = b \o c
  BY <1>2 DEF Segment, l
<1>11. /\ \A i \in 1 .. n : Good(s[i].at, s[i].parts)
       /\ \A i \in 1 .. n - 1 : Waiting(s[i]) /\ Calls(s[i], Role(s[i + 1].at))
       /\ Role(s[1].at) = "line"
  BY DEF StackOK, n
<1>12. n = k + 1
  BY <1>2 DEF k
<1>13. ASSUME NEW i \in 1 .. k + l PROVE Good(q[i].at, q[i].parts)
  <2>1. CASE i <= k
    <3>1. i \in 1 .. k /\ i \in 1 .. n
      BY <1>2, <1>3, <1>12, <2>1
    <3>2. QED
      BY <1>8, <1>11, <3>1
  <2>2. CASE ~(i <= k)
    <3> DEFINE j == i - k
    <3>1. j \in 1 .. l /\ k + j = i
      BY <1>3, <2>2
    <3> HIDE DEF j
    <3>2. q[i] = r[j]
      BY <1>9, <3>1
    <3>3. QED
      BY <1>10, <3>1, <3>2
  <2>3. QED
    BY <2>1, <2>2
<1>14. ASSUME NEW i \in 1 .. k + l - 1
       PROVE  Waiting(q[i]) /\ Calls(q[i], Role(q[i + 1].at))
  <2>1. CASE i < k
    <3> DEFINE j == i + 1
    <3>1. i \in 1 .. k /\ j \in 1 .. k /\ i \in 1 .. n - 1
      BY <1>3, <1>12, <2>1
    <3>2. Waiting(s[i]) /\ Calls(s[i], Role(s[j].at))
      BY <1>11, <3>1
    <3> HIDE DEF j
    <3>3. q[i] = s[i] /\ q[j] = s[j]
      BY <1>8, <3>1
    <3>4. QED
      BY <3>2, <3>3 DEF j
  <2>2. CASE i = k
    <3>1. i \in 1 .. k /\ i \in 1 .. n - 1 /\ 1 \in 1 .. l /\ i + 1 = n /\ i + 1 = k + 1
      BY <1>3, <1>12, <2>2
    <3>2. q[i] = s[i] /\ q[i + 1] = r[1]
      BY <1>8, <1>9, <3>1
    <3>3. Waiting(s[i]) /\ Calls(s[i], Role(s[n].at))
      BY <1>11, <3>1
    <3>4. QED
      BY <1>10, <3>2, <3>3
  <2>3. CASE i > k
    <3> DEFINE j == i - k
               m == j + 1
    <3>1. j \in 1 .. l - 1 /\ j \in 1 .. l /\ k + j = i /\ m \in 1 .. l /\ k + m = i + 1
      BY <1>3, <2>3
    <3>2. Waiting(r[j]) /\ Calls(r[j], Role(r[m].at))
      BY <1>10, <3>1
    <3> HIDE DEF j, m
    <3>3. q[i] = r[j] /\ q[i + 1] = r[m]
      BY <1>9, <3>1
    <3>4. QED
      BY <3>2, <3>3
  <2>4. QED
    BY <1>3, <2>1, <2>2, <2>3
<1>15. Role(q[1].at) = "line"
  <2>1. CASE k = 0
    <3>1. 1 \in 1 .. l /\ k + 1 = 1 /\ n = 1
      BY <1>3, <1>12, <2>1
    <3>2. q[1] = r[1]
      BY <1>9, <3>1
    <3>3. QED
      BY <1>10, <1>11, <3>1, <3>2
  <2>2. CASE k # 0
    <3>1. 1 \in 1 .. k
      BY <1>3, <2>2
    <3>2. QED
      BY <1>8, <1>11, <3>1
  <2>3. QED
    BY <2>1, <2>2
<1>16. Active(q[k + l])
  <2>1. l \in 1 .. l
    BY <1>3
  <2>2. q[k + l] = r[l]
    BY <1>9, <2>1
  <2>3. QED
    BY <1>10, <2>2
<1>17. StackOK(q, NoValue)
  <2>1. \A i \in 1 .. Len(q) : Good(q[i].at, q[i].parts)
    BY <1>7, <1>13
  <2>2. \A i \in 1 .. Len(q) - 1 : Waiting(q[i]) /\ Calls(q[i], Role(q[i + 1].at))
    <3> SUFFICES ASSUME NEW i \in 1 .. Len(q) - 1
                 PROVE  Waiting(q[i]) /\ Calls(q[i], Role(q[i + 1].at))
      OBVIOUS
    <3>1. i \in 1 .. k + l - 1
      BY <1>3, <1>7
    <3>2. QED
      BY <1>14, <3>1
  <2>3. Active(q[Len(q)])
    BY <1>7, <1>16
  <2>4. QED
    BY <1>15, <2>1, <2>2, <2>3 DEF StackOK
<1>18. q # <<>>
  <2>1. k + l # 0
    BY <1>3
  <2>2. QED
    BY <1>7, <2>1, EmptySeq
<1>19. Typed(U, q, NoValue)
  BY <1>5, <1>18 DEF Typed, ValueOf, F
<1>20. AllDocs(q, NoValue) = AllDocs(s, v) \o <<>>
  <2>1. StackDocs(q) = a \o StackDocs(r)
    BY <1>1, <1>2, StackDocsConcat DEF q, F
  <2> HIDE DEF a, b, c
  <2> DEFINE x == a \o b
             y == x \o c
  <2>2. x \in Seq(Nat) /\ y \in Seq(Nat)
    <3>1. x \in Seq(Nat)
      BY <1>4, ConcatProperties
    <3> HIDE DEF x
    <3>2. QED
      BY <1>4, <3>1, ConcatProperties
  <2>3. a \o (b \o c) = y
    BY <1>4, DocsAssociative, Zenon
  <2>4. StackDocs(q) = y
    BY <1>10, <2>1, <2>3
  <2>5. AllDocs(s, v) = y
    BY <1>4 DEF AllDocs, c
  <2>6. AllDocs(q, NoValue) = y \o <<>>
    BY <2>4, NoTreeDocs DEF AllDocs
  <2> HIDE DEF y
  <2>7. QED
    BY <2>5, <2>6
<1>21. QED
  BY <1>17, <1>19, <1>20 DEF Kept, q, f

(* Return                                                                  *)
Returnable(l, v) ==
  v.tag = "Some" =>
    /\ Role(l) = "list" => v.tree.node = "list"
    /\ Role(l) = "redirection" => IsRedir(v.tree)
    /\ Role(l) = "array" => IsAssign(v.tree) /\ v.tree.docs = <<>>

LEMMA DeliversReturned ==
  ASSUME NEW c, NEW l, NEW v, Calls(c, Role(l)), Returnable(l, v)
  PROVE  Delivers(c, v)
<1> SUFFICES ASSUME v.tag = "Some" PROVE Delivers(c, v)
  BY DEF Delivers
<1>1. c.at = "compound_list" => v.tree.node = "list"
  BY DEF Calls, Returnable, InnerPlace
<1>2. ASSUME c.at \in SimplePlace
      PROVE  \/ IsRedir(v.tree)
             \/ IsAssign(v.tree) /\ v.tree.docs = <<>> /\ EndsInAssignment(c.parts)
  <2>1. CASE Role(l) = "redirection"
    BY <2>1 DEF Returnable
  <2>2. CASE Role(l) = "array"
    BY <2>2 DEF Returnable, Calls
  <2>3. QED
    BY <1>2, <2>1, <2>2 DEF Calls
<1>3. QED
  BY <1>1, <1>2 DEF Delivers

LEMMA ReturnKeeps ==
  ASSUME NEW T, Trees(T), NEW U, Trees(U), T \subseteq U,
         NEW s, NEW v, Typed(T, s, v), StackOK(s, v),
         NEW w \in ValueOf(U), w # NoValue, NEW docs \in Seq(Nat),
         Role(Last(s).at) # "line", Returnable(Last(s).at, w),
         w.tree.docs = (DocsOf(Last(s).parts) \o v.tree.docs) \o docs
  PROVE  Kept(U, s, v, Front(s), w, docs)
<1> DEFINE F == FrameOf(U)
           f == Front(s)
           n == Len(s)
           k == n - 1
           a == StackDocs(f)
           b == DocsOf(Last(s).parts)
           c == v.tree.docs
<1>1. s \in Seq(F) /\ s # <<>>
  BY TypedGrows DEF Typed
<1>2. /\ n \in Nat \ {0} /\ f \in Seq(F) /\ Len(f) = k
      /\ \A i \in 1 .. k : f[i] = s[i]
      /\ Last(s) = s[n]
  <2> HIDE DEF F
  <2>1. QED
    BY <1>1, FrontAndLast
<1>3. /\ StackDocs(s) = a \o b /\ a \in Seq(Nat) /\ b \in Seq(Nat) /\ c \in Seq(Nat)
  BY AllDocsSplit
<1> HIDE DEF f, n, F
<1>4. /\ \A i \in 1 .. n : Good(s[i].at, s[i].parts)
      /\ \A i \in 1 .. n - 1 : Waiting(s[i]) /\ Calls(s[i], Role(s[i + 1].at))
      /\ Role(s[1].at) = "line"
  BY DEF StackOK, n
<1>5. k \in Nat \ {0} /\ k + 1 = n
  <2>1. n # 1
    BY <1>2, <1>4
  <2>2. QED
    BY <1>2, <2>1
<1> HIDE DEF k
<1>6. n - 1 = k /\ k \in 1 .. n - 1 /\ 1 \in 1 .. k
  BY <1>2, <1>5
<1>7. \A i \in 1 .. k : Good(f[i].at, f[i].parts)
  <2> SUFFICES ASSUME NEW i \in 1 .. k PROVE Good(f[i].at, f[i].parts)
    OBVIOUS
  <2>1. i \in 1 .. n
    BY <1>2, <1>5
  <2>2. QED
    BY <1>2, <1>4, <2>1
<1>8. ASSUME NEW i \in 1 .. k - 1 PROVE Waiting(f[i]) /\ Calls(f[i], Role(f[i + 1].at))
  <2> DEFINE j == i + 1
  <2>1. i \in 1 .. k /\ j \in 1 .. k /\ i \in 1 .. n - 1
    BY <1>2, <1>5
  <2>2. Waiting(s[i]) /\ Calls(s[i], Role(s[j].at))
    BY <1>4, <2>1
  <2> HIDE DEF j
  <2>3. f[i] = s[i] /\ f[j] = s[j]
    BY <1>2, <2>1
  <2>4. QED
    BY <2>2, <2>3 DEF j
<1>9. Role(f[1].at) = "line"
  BY <1>2, <1>4, <1>6
<1>10. Waiting(f[k]) /\ Delivers(f[k], w)
  <2>1. k \in 1 .. k
    BY <1>5
  <2>2. f[k] = s[k]
    BY <1>2, <2>1
  <2>3. Waiting(s[k]) /\ Calls(s[k], Role(s[n].at))
    BY <1>4, <1>5, <1>6
  <2>4. Delivers(s[k], w)
    BY <1>2, <2>3, DeliversReturned
  <2>5. QED
    BY <2>2, <2>3, <2>4
<1>11. StackOK(f, w)
  BY <1>2, <1>7, <1>8, <1>9, <1>10 DEF StackOK
<1>12. f # <<>>
  BY <1>2, <1>5, EmptySeq
<1>13. Typed(U, f, w)
  BY <1>2, <1>12 DEF Typed, F
<1>14. AllDocs(f, w) = AllDocs(s, v) \o docs
  <2>1. AllDocs(f, w) = a \o ((b \o c) \o docs)
    BY DEF AllDocs
  <2>2. AllDocs(s, v) = (a \o b) \o c
    BY <1>3 DEF AllDocs
  <2> HIDE DEF a, b, c
  <2> DEFINE x == b \o c
  <2>3. x \in Seq(Nat)
    BY <1>3, ConcatProperties
  <2>4. a \o x = (a \o b) \o c
    BY <1>3, <2>3, DocsAssociative, Zenon
  <2> HIDE DEF x
  <2>5. a \o (x \o docs) = (a \o x) \o docs
    <3>1. a \in Seq(Nat) /\ docs \in Seq(Nat)
      BY <1>3
    <3>2. QED
      BY <2>3, <3>1, DocsAssociative, Zenon
  <2>6. QED
    BY <2>1, <2>2, <2>4, <2>5 DEF x
<1>15. QED
  BY <1>11, <1>13, <1>14 DEF Kept, f

-----------------------------------------------------------------------------
(* Steps of the parser that keep the here-documents, but for the new ones  *)

Fitted(T) == Trees(T) /\ Typed(T, stack, value) /\ StackOK(stack, value)
KeptStep(docs) == /\ \E U : Trees(U) /\ Kept(U, stack, value, stack', value', docs)
                  /\ UNCHANGED <<printed, outcome>>

LEMMA TopFacts ==
  ASSUME NEW T, Fitted(T)
  PROVE  /\ Top \in FrameOf(T) /\ Top.parts \in Seq(T) /\ HaveDocs(T)
         /\ Good(Top.at, Top.parts)
         /\ DocsOf(Top.parts) \in Seq(Nat)
         /\ value.tree.docs \in Seq(Nat)
         /\ value = NoValue => Active(Top)
         /\ value # NoValue => Waiting(Top) /\ Delivers(Top, value)
         /\ value.tag = "Some" => value.tree \in T
         /\ value.tag # "Some" => value.tree = NoTree
<1>1. stack \in Seq(FrameOf(T)) /\ stack # <<>> /\ value \in ValueOf(T) /\ Trees(T) /\ StackOK(stack, value)
  BY DEF Fitted, Typed
<1>2. Top \in FrameOf(T) /\ Top = stack[Len(stack)] /\ Len(stack) \in 1 .. Len(stack)
  <2> DEFINE F == FrameOf(T)
  <2>1. stack \in Seq(F) /\ stack # <<>>
    BY <1>1
  <2> HIDE DEF F
  <2>2. Len(stack) \in Nat \ {0} /\ Last(stack) = stack[Len(stack)] /\ Last(stack) \in F
    BY <2>1, FrontAndLast
  <2>3. QED
    BY <2>2 DEF Top, F
<1>3. Good(Top.at, Top.parts)
  BY <1>1, <1>2 DEF StackOK
<1>4. /\ value = NoValue => Active(Top)
      /\ value # NoValue => Waiting(Top) /\ Delivers(Top, value)
  BY <1>1, <1>2 DEF StackOK
<1>5. value.tag = "Some" => value.tree \in T
  BY <1>1 DEF ValueOf, NoValue, None, AliasSubstituted
<1>6. value.tag # "Some" => value.tree = NoTree
  BY <1>1 DEF ValueOf, NoValue, None, AliasSubstituted
<1>7. DocsOf(Top.parts) \in Seq(Nat) /\ value.tree.docs \in Seq(Nat)
  BY <1>1, AllDocsSplit DEF Fitted, Top
<1>8. Top.parts \in Seq(T) /\ HaveDocs(T)
  BY <1>1, <1>2, TreesHaveDocs DEF FrameOf
<1>9. QED
  BY <1>2, <1>3, <1>4, <1>5, <1>6, <1>7, <1>8

LEMMA BecomeStep ==
  ASSUME NEW T, Fitted(T), NEW U, Trees(U), T \subseteq U,
         NEW r, Segment(U, r, Role(Top.at), DocsOf(Top.parts) \o value.tree.docs), Become(r)
  PROVE  KeptStep(<<>>)
<1>1. Kept(U, stack, value, Front(stack) \o r, NoValue, <<>>)
  BY BecomeKeeps DEF Fitted, Top
<1>2. QED
  BY <1>1 DEF KeptStep, Become

LEMMA GoStep ==
  ASSUME NEW T, Fitted(T), NEW U, Trees(U), T \subseteq U,
         NEW f \in FrameOf(U), Role(f.at) = Role(Top.at), Good(f.at, f.parts), Active(f),
         DocsOf(f.parts) = DocsOf(Top.parts) \o value.tree.docs, Go(f)
  PROVE  KeptStep(<<>>)
<1>1. Segment(U, <<f>>, Role(f.at), DocsOf(f.parts))
  BY SegmentOfOne
<1>2. QED
  BY <1>1, BecomeStep DEF Go

LEMMA CallStep ==
  ASSUME NEW T, Fitted(T), NEW U, Trees(U), T \subseteq U,
         NEW f \in FrameOf(U), Role(f.at) = Role(Top.at), Good(f.at, f.parts), Waiting(f),
         NEW s, NEW role, Segment(U, s, role, <<>>), Calls(f, role),
         DocsOf(f.parts) = DocsOf(Top.parts) \o value.tree.docs, Call(f, s)
  PROVE  KeptStep(<<>>)
<1>1. Segment(U, <<f>> \o s, Role(f.at), DocsOf(f.parts))
  BY SegmentOfCall
<1>2. QED
  BY <1>1, BecomeStep DEF Call

LEMMA ReturnStep ==
  ASSUME NEW T, Fitted(T), NEW U, Trees(U), T \subseteq U,
         NEW w \in ValueOf(U), w # NoValue, NEW docs \in Seq(Nat),
         Role(Top.at) # "line", Returnable(Top.at, w),
         w.tree.docs = (DocsOf(Top.parts) \o value.tree.docs) \o docs, Return(w)
  PROVE  KeptStep(docs)
<1>1. Kept(U, stack, value, Front(stack), w, docs)
  BY ReturnKeeps DEF Fitted, Top
<1>2. QED
  BY <1>1 DEF KeptStep, Return

(* Nothing is added to the parts, or the value is, or something without    *)
(* here-documents.                                                         *)
LEMMA DocsUnchanged ==
  ASSUME NEW T, Fitted(T), value.tree = NoTree
  PROVE  DocsOf(Top.parts) \o value.tree.docs = DocsOf(Top.parts)
<1>1. value.tree.docs = <<>>
  BY NoTreeDocs
<1>2. QED
  BY <1>1, TopFacts, ConcatEmptySeq

LEMMA DocsExtended ==
  ASSUME NEW T, Fitted(T), NEW U, Trees(U), T \subseteq U, NEW t \in U, t.docs = value.tree.docs
  PROVE  /\ Append(Top.parts, t) \in Seq(U)
         /\ DocsOf(Append(Top.parts, t)) = DocsOf(Top.parts) \o value.tree.docs
<1>1. Top.parts \in Seq(U) /\ HaveDocs(U)
  BY TopFacts, TypedGrows, TreesHaveDocs
<1> DEFINE parts == Top.parts
<1>2. parts \in Seq(U)
  BY <1>1
<1> HIDE DEF parts
<1>3. DocsOf(Append(parts, t)) = DocsOf(parts) \o t.docs
  BY <1>1, <1>2, DocsOfAppend
<1>4. Append(parts, t) \in Seq(U)
  BY <1>2, AppendProperties
<1>5. QED
  BY <1>3, <1>4 DEF parts

-----------------------------------------------------------------------------
(* Most places ask for nothing of their frames.                            *)

PlainPlace ==
  {"compound_list.end", "and_or.operator", "and_or.newlines", "and_or.operand", "pipeline.bang",
   "pipeline.bar", "pipeline.newlines", "pipeline.operand", "function.close", "function.body",
   "redirections", "grouping", "subshell", "while", "while.do", "while.body"}
  \cup (ClausePlace \ {"case.item"})

LEMMA PlainPlaces ==
  ASSUME NEW l \in PlainPlace
  PROVE  /\ l \in Place /\ Role(l) = "other"
         /\ l \notin SimplePlace \cup {"do", "compound_list"}
         /\ \A parts : Good(l, parts)
<1>1. l \in Place /\ l \notin LinePlace \cup ListPlace \cup RedirPlace \cup ArrayPlace \cup SimplePlace
  BY DEF PlainPlace, ClausePlace, Place, CommandPlace, LinePlace, ListPlace, RedirPlace, ArrayPlace, SimplePlace
<1>2. l \notin NoDocsPlace \cup {"command_line", "command", "function", "do", "compound_list"}
  BY <1>1 DEF PlainPlace, ClausePlace, NoDocsPlace
<1>3. l # "command_line.end" /\ l # "list.separator"
  BY <1>1 DEF LinePlace, ListPlace
<1>4. Role(l) = "other"
  BY <1>1 DEF Role
<1>5. \A parts : Good(l, parts)
  BY <1>1, <1>2, <1>3 DEF Good
<1>6. QED
  BY <1>1, <1>2, <1>4, <1>5

LEMMA PlainFrames ==
  ASSUME NEW f, f.at \in PlainPlace
  PROVE  /\ Good(f.at, f.parts) /\ Waiting(f) /\ Active(f)
         /\ f.at \notin InnerPlace =>
              \A role \in {"list", "redirection", "other"} : Calls(f, role)
<1>1. Good(f.at, f.parts) /\ Waiting(f) /\ Active(f)
  BY PlainPlaces DEF Waiting, Active
<1>2. f.at \notin InnerPlace => \A role \in {"list", "redirection", "other"} : Calls(f, role)
  BY PlainPlaces DEF Calls
<1>3. QED
  BY <1>1, <1>2

-----------------------------------------------------------------------------
(* Frames that are changed                                                 *)

(* A frame of a function at another place, with other parts                *)
IsAt(f, l, parts) == \E n, m \in Nat : f = [at |-> l, parts |-> parts, open |-> n, clause |-> m]

LEMMA IsAtAgain ==
  ASSUME NEW f, NEW l, NEW parts, IsAt(f, l, parts), NEW n \in Nat, NEW k, NEW q
  PROVE  /\ f.at = l /\ f.parts = parts
         /\ IsAt([f EXCEPT !.open = n], l, parts)
         /\ IsAt([f EXCEPT !.at = k], k, parts)
         /\ IsAt([f EXCEPT !.parts = q], l, q)
         /\ IsAt([f EXCEPT !.at = k, !.parts = q], k, q)
         /\ IsAt([f EXCEPT !.at = k, !.clause = n], k, parts)
         /\ IsAt([f EXCEPT !.open = n, !.clause = n], l, parts)
<1>1. PICK i, j \in Nat : f = [at |-> l, parts |-> parts, open |-> i, clause |-> j]
  BY DEF IsAt
<1> DEFINE g == [f EXCEPT !.at = k]
           h == [f EXCEPT !.open = n]
           e == [f EXCEPT !.parts = q]
<1>2. g = [at |-> k, parts |-> parts, open |-> i, clause |-> j]
  BY <1>1
<1>3. h = [at |-> l, parts |-> parts, open |-> n, clause |-> j]
  BY <1>1
<1>4. e = [at |-> l, parts |-> q, open |-> i, clause |-> j]
  BY <1>1
<1>5. [f EXCEPT !.at = k, !.parts = q] = [g EXCEPT !.parts = q]
  BY <1>1
<1>6. [f EXCEPT !.at = k, !.clause = n] = [g EXCEPT !.clause = n]
  BY <1>1
<1>7. [f EXCEPT !.open = n, !.clause = n] = [h EXCEPT !.clause = n]
  BY <1>1
<1> HIDE DEF g, h, e
<1>8. IsAt([g EXCEPT !.parts = q], k, q)
  <2>1. [g EXCEPT !.parts = q] = [at |-> k, parts |-> q, open |-> i, clause |-> j]
    BY <1>2
  <2>2. QED
    BY <2>1 DEF IsAt
<1>9. IsAt([g EXCEPT !.clause = n], k, parts)
  <2>1. [g EXCEPT !.clause = n] = [at |-> k, parts |-> parts, open |-> i, clause |-> n]
    BY <1>2
  <2>2. QED
    BY <2>1 DEF IsAt
<1>10. IsAt([h EXCEPT !.clause = n], l, parts)
  <2>1. [h EXCEPT !.clause = n] = [at |-> l, parts |-> parts, open |-> n, clause |-> n]
    BY <1>3
  <2>2. QED
    BY <2>1 DEF IsAt
<1>11. IsAt(g, k, parts) /\ IsAt(h, l, parts) /\ IsAt(e, l, q)
  BY <1>2, <1>3, <1>4 DEF IsAt
<1>12. f.at = l /\ f.parts = parts
  BY <1>1
<1>13. QED
  BY <1>5, <1>6, <1>7, <1>8, <1>9, <1>10, <1>11, <1>12 DEF g, h, e

LEMMA IsAtFields ==
  ASSUME NEW T, NEW l \in Place, NEW parts \in Seq(T), NEW f, IsAt(f, l, parts)
  PROVE  f \in FrameOf(T) /\ f.at = l /\ f.parts = parts
BY DEF IsAt, FrameOf

LEMMA PlainGo ==
  ASSUME NEW T, Fitted(T), Role(Top.at) = "other", value.tree = NoTree,
         NEW f, NEW l \in PlainPlace, IsAt(f, l, Top.parts), Go(f)
  PROVE  KeptStep(<<>>)
<1>1. Top.parts \in Seq(T)
  BY TopFacts
<1>2. l \in Place /\ Role(l) = "other"
  BY PlainPlaces
<1>3. f \in FrameOf(T) /\ f.at = l /\ f.parts = Top.parts
  BY <1>1, <1>2, IsAtFields
<1>4. Good(f.at, f.parts) /\ Active(f)
  BY <1>3, PlainFrames
<1>5. DocsOf(f.parts) = DocsOf(Top.parts) \o value.tree.docs
  BY <1>3, DocsUnchanged
<1>6. QED
  BY <1>2, <1>3, <1>4, <1>5, GoStep DEF Fitted

LEMMA PlainCall ==
  ASSUME NEW T, Fitted(T), Role(Top.at) = "other", value.tree = NoTree,
         NEW f, NEW l \in PlainPlace, l \notin InnerPlace, IsAt(f, l, Top.parts),
         NEW s, NEW role \in {"list", "redirection", "other"}, Segment(T, s, role, <<>>), Call(f, s)
  PROVE  KeptStep(<<>>)
<1>1. Top.parts \in Seq(T)
  BY TopFacts
<1>2. l \in Place /\ Role(l) = "other"
  BY PlainPlaces
<1>3. f \in FrameOf(T) /\ f.at = l /\ f.parts = Top.parts
  BY <1>1, <1>2, IsAtFields
<1>4. Good(f.at, f.parts) /\ Waiting(f) /\ Calls(f, role)
  BY <1>3, PlainFrames
<1>5. DocsOf(f.parts) = DocsOf(Top.parts) \o value.tree.docs
  BY <1>3, DocsUnchanged
<1>6. QED
  BY <1>2, <1>3, <1>4, <1>5, CallStep DEF Fitted

LEMMA PlainExtend ==
  ASSUME NEW T, Fitted(T), Role(Top.at) = "other",
         NEW t \in T, t.docs = value.tree.docs,
         NEW f, NEW l \in PlainPlace, IsAt(f, l, Append(Top.parts, t)), Go(f)
  PROVE  KeptStep(<<>>)
<1> DEFINE parts == Append(Top.parts, t)
<1>1. parts \in Seq(T) /\ DocsOf(parts) = DocsOf(Top.parts) \o value.tree.docs
  BY DocsExtended DEF Fitted
<1>2. l \in Place /\ Role(l) = "other" /\ IsAt(f, l, parts)
  BY PlainPlaces
<1> HIDE DEF parts
<1>3. f \in FrameOf(T) /\ f.at = l /\ f.parts = parts
  BY <1>1, <1>2, IsAtFields
<1>4. Good(f.at, f.parts) /\ Active(f)
  BY <1>3, PlainFrames
<1>5. QED
  BY <1>1, <1>2, <1>3, <1>4, GoStep DEF Fitted

(* A function returns nothing if it has no here-documents, ...             *)
LEMMA ReturnNothing ==
  ASSUME NEW T, Fitted(T), Role(Top.at) # "line", value.tree = NoTree, DocsOf(Top.parts) = <<>>,
         NEW w \in {None, AliasSubstituted}, Return(w)
  PROVE  KeptStep(<<>>)
<1>1. w \in ValueOf(T) /\ w # NoValue /\ w.tag # "Some" /\ w.tree.docs = <<>>
  BY NoTreeDocs DEF ValueOf, None, AliasSubstituted, NoValue
<1>2. Returnable(Top.at, w)
  BY <1>1 DEF Returnable
<1>3. w.tree.docs = (DocsOf(Top.parts) \o value.tree.docs) \o <<>>
  BY <1>1, DocsUnchanged
<1>4. <<>> \in Seq(Nat)
  BY EmptySeq
<1>5. QED
  BY <1>1, <1>2, <1>3, <1>4, ReturnStep DEF Fitted

(* or the tree that it has made,                                           *)
LEMMA ReturnTree ==
  ASSUME NEW T, Fitted(T), Role(Top.at) # "line", NEW U, Trees(U), T \subseteq U,
         NEW t \in U, t.docs = DocsOf(Top.parts) \o value.tree.docs,
         Returnable(Top.at, Some(t)), Return(Some(t))
  PROVE  KeptStep(<<>>)
<1> DEFINE d == t.docs
           w == Some(t)
<1>1. w \in ValueOf(U) /\ w # NoValue /\ w.tree = t
  BY DEF ValueOf, Some, NoValue
<1>2. d \in Seq(Nat)
  BY TreeFields
<1>3. <<>> \in Seq(Nat)
  BY EmptySeq
<1> HIDE DEF d
<1>4. d \o <<>> = d
  BY <1>2, ConcatEmptySeq
<1>5. w.tree.docs = (DocsOf(Top.parts) \o value.tree.docs) \o <<>>
  BY <1>1, <1>4 DEF d
<1> HIDE DEF w
<1>6. QED
  BY <1>1, <1>3, <1>5, ReturnStep DEF w

LEMMA ReturnNode ==
  ASSUME NEW T, Fitted(T), Role(Top.at) # "line", NEW parts \in Seq(T), NEW name \in NodeName,
         DocsOf(parts) = DocsOf(Top.parts) \o value.tree.docs,
         Role(Top.at) = "list" => name = "list",
         Role(Top.at) = "redirection" => name \in RedirOp,
         Role(Top.at) = "array" => name \in {"scalar", "values"} /\ DocsOf(parts) = <<>>,
         Return(Some(Node(name, parts)))
  PROVE  KeptStep(<<>>)
<1> DEFINE t == Node(name, parts)
           U == T \cup {t}
<1>1. Trees(U) /\ T \subseteq U /\ t \in U /\ t.docs = DocsOf(parts) /\ t.node = name
  BY OneMoreNode DEF Fitted
<1>2. Returnable(Top.at, Some(t))
  BY <1>1 DEF Returnable, Some, IsRedir, IsAssign
<1> HIDE DEF t, U
<1>3. QED
  BY <1>1, <1>2, ReturnTree DEF t

LEMMA ReturnMade ==
  ASSUME NEW T, Fitted(T), Role(Top.at) \in {"list", "other"}, NEW name \in NodeName,
         Role(Top.at) = "list" => name = "list", value.tree = NoTree, Return(Made(name))
  PROVE  KeptStep(<<>>)
BY TopFacts, DocsUnchanged, ReturnNode DEF Made

LEMMA ReturnExtended ==
  ASSUME NEW T, Fitted(T), Role(Top.at) = "other", NEW name \in NodeName, value.tag = "Some",
         Return(Some(Node(name, Append(Top.parts, value.tree))))
  PROVE  KeptStep(<<>>)
<1> DEFINE parts == Append(Top.parts, value.tree)
<1>1. value.tree \in T
  BY TopFacts
<1>2. parts \in Seq(T) /\ DocsOf(parts) = DocsOf(Top.parts) \o value.tree.docs
  BY <1>1, DocsExtended DEF Fitted
<1> HIDE DEF parts
<1>3. QED
  BY <1>2, ReturnNode DEF parts

-----------------------------------------------------------------------------
(* The functions that are called                                           *)

FreshPlace == {"list", "and_or", "pipeline", "command", "simple", "compound_list", "do", "full",
               "compound_command", "redir", "array.open", "case.item", "grouping", "subshell",
               "if.condition", "for.name", "case.subject"}

LEMMA FreshFrames ==
  ASSUME NEW T, NEW l \in FreshPlace
  PROVE  /\ IsAt(Frame(l), l, <<>>)
         /\ Frame(l) \in FrameOf(T) /\ Frame(l).at = l /\ DocsOf(Frame(l).parts) = <<>>
         /\ Good(Frame(l).at, Frame(l).parts) /\ Waiting(Frame(l))
         /\ l # "do" => Active(Frame(l))
<1> DEFINE e == <<>>
<1>1. l \in Place
  BY DEF FreshPlace, Place, LinePlace, ListPlace, RedirPlace, ArrayPlace, CommandPlace, ClausePlace
<1>2. e \in Seq(T) /\ DocsOf(e) = <<>> /\ e = <<>> /\ Len(e) = 0
  BY DocsOfNone
<1> HIDE DEF e
<1>3. IsAt(Frame(l), l, e)
  BY <1>2 DEF IsAt, Frame
<1>4. Frame(l) \in FrameOf(T) /\ Frame(l).at = l /\ Frame(l).parts = e
  <2> DEFINE f == Frame(l)
  <2> HIDE DEF f
  <2>1. IsAt(f, l, e)
    BY <1>3 DEF f
  <2>2. l \in Place /\ e \in Seq(T)
    BY <1>1, <1>2
  <2>4. f \in FrameOf(T) /\ f.at = l /\ f.parts = e
    BY <2>1, <2>2, IsAtFields
  <2>3. QED
    BY <2>4 DEF f
<1>5. l \notin {"command_line.end", "function", "list.separator"}
  BY DEF FreshPlace
<1>6. Good(l, e)
  BY <1>2, <1>5 DEF Good
<1>7. QED
  BY <1>2, <1>3, <1>4, <1>6 DEF Waiting, Active, e

LEMMA RolesOfFresh ==
  /\ Role("list") = "list" /\ Role("redir") = "redirection" /\ Role("array.open") = "array"
  /\ \A l \in FreshPlace \ {"list", "redir", "array.open"} : Role(l) = "other"
BY DEF Role, FreshPlace, LinePlace, ListPlace, RedirPlace, ArrayPlace

LEMMA FreshCalls ==
  ASSUME NEW T, Trees(T), NEW l \in FreshPlace, NEW s, NEW role, Segment(T, s, role, <<>>),
         Calls(Frame(l), role)
  PROVE  Segment(T, <<Frame(l)>> \o s, Role(l), <<>>)
BY FreshFrames, SegmentOfCall

LEMMA FreshOne ==
  ASSUME NEW T, Trees(T), NEW l \in FreshPlace \ {"do"}
  PROVE  Segment(T, <<Frame(l)>>, Role(l), <<>>)
BY FreshFrames, SegmentOfOne

LEMMA FreshMayCall ==
  /\ \A l \in FreshPlace \ ({"compound_list", "simple"} \cup InnerPlace) : Calls(Frame(l), "other")
  /\ \A l \in FreshPlace \ ({"simple"} \cup InnerPlace) : Calls(Frame(l), "list")
BY DEF Frame, Calls, SimplePlace, FreshPlace, InnerPlace

LEMMA CommandSegment ==
  ASSUME NEW T, Trees(T)
  PROVE  Segment(T, Command, "other", <<>>)
<1> DEFINE s == <<Frame("simple")>>
<1>1. Segment(T, s, "other", <<>>)
  BY FreshOne, RolesOfFresh DEF FreshPlace
<1>2. Calls(Frame("command"), "other")
  BY FreshMayCall DEF FreshPlace, InnerPlace
<1>3. Command = <<Frame("command")>> \o s
  BY DEF Command
<1> HIDE DEF s
<1>4. Segment(T, <<Frame("command")>> \o s, Role("command"), <<>>)
  BY <1>1, <1>2, FreshCalls DEF FreshPlace
<1>5. Role("command") = "other"
  BY RolesOfFresh DEF FreshPlace
<1>6. QED
  BY <1>3, <1>4, <1>5

LEMMA PipelineSegment ==
  ASSUME NEW T, Trees(T)
  PROVE  Segment(T, Pipeline, "other", <<>>)
<1>1. Segment(T, <<Frame("pipeline")>> \o Command, Role("pipeline"), <<>>)
  BY CommandSegment, FreshCalls, FreshMayCall DEF FreshPlace, InnerPlace
<1>2. Role("pipeline") = "other"
  BY RolesOfFresh DEF FreshPlace
<1>3. QED
  BY <1>1, <1>2 DEF Pipeline

LEMMA AndOrSegment ==
  ASSUME NEW T, Trees(T)
  PROVE  Segment(T, AndOrList, "other", <<>>)
<1>1. Segment(T, <<Frame("and_or")>> \o Pipeline, Role("and_or"), <<>>)
  BY PipelineSegment, FreshCalls, FreshMayCall DEF FreshPlace, InnerPlace
<1>2. Role("and_or") = "other"
  BY RolesOfFresh DEF FreshPlace
<1>3. QED
  BY <1>1, <1>2 DEF AndOrList

LEMMA ListSegment ==
  ASSUME NEW T, Trees(T)
  PROVE  Segment(T, List, "list", <<>>)
<1>1. Segment(T, <<Frame("list")>> \o AndOrList, Role("list"), <<>>)
  BY AndOrSegment, FreshCalls, FreshMayCall DEF FreshPlace, InnerPlace
<1>2. QED
  BY <1>1, RolesOfFresh DEF List

LEMMA CompoundListSegment ==
  ASSUME NEW T, Trees(T)
  PROVE  Segment(T, CompoundList, "other", <<>>)
<1>1. Segment(T, <<Frame("compound_list")>> \o List, Role("compound_list"), <<>>)
  BY ListSegment, FreshCalls, FreshMayCall DEF FreshPlace, InnerPlace
<1>2. Role("compound_list") = "other"
  BY RolesOfFresh DEF FreshPlace
<1>3. QED
  BY <1>1, <1>2 DEF CompoundList

LEMMA FullCompoundSegment ==
  ASSUME NEW T, Trees(T)
  PROVE  Segment(T, FullCompound, "other", <<>>)
<1> DEFINE s == <<Frame("compound_command")>>
<1>1. Segment(T, s, "other", <<>>)
  BY FreshOne, RolesOfFresh DEF FreshPlace
<1>2. Calls(Frame("full"), "other")
  BY FreshMayCall DEF FreshPlace, InnerPlace
<1>3. FullCompound = <<Frame("full")>> \o s
  BY DEF FullCompound
<1> HIDE DEF s
<1>4. Segment(T, <<Frame("full")>> \o s, Role("full"), <<>>)
  BY <1>1, <1>2, FreshCalls DEF FreshPlace
<1>5. Role("full") = "other"
  BY RolesOfFresh DEF FreshPlace
<1>6. QED
  BY <1>3, <1>4, <1>5

(* The first of them opens a construct with the token that is being taken. *)
LEMMA OpenedSegment ==
  ASSUME NEW T, Trees(T), Here \in Nat,
         NEW l \in PlainPlace \cup {"do"}, l \notin InnerPlace, NEW parts \in Seq(T), NEW f, IsAt(f, l, parts),
         l = "do" => parts = <<>>, DocsOf(parts) = <<>>,
         NEW s, NEW role \in {"list", "other"}, Segment(T, s, role, <<>>)
  PROVE  Segment(T, Opened(<<f>> \o s), "other", <<>>)
<1> DEFINE g == [f EXCEPT !.open = Here, !.clause = Here]
           F == FrameOf(T)
           q == <<f>>
<1>1. l \in Place /\ Role(l) = "other" /\ Good(l, parts) /\ l \notin SimplePlace \cup {"compound_list"}
  <2>1. "do" \in Place /\ Role("do") = "other" /\ "do" \notin SimplePlace
    BY RolesOfFresh DEF FreshPlace, Place, CommandPlace, SimplePlace
  <2>2. Good("do", parts)
    BY DEF Good, NoDocsPlace, RedirPlace, ArrayPlace, SimplePlace
  <2>3. QED
    BY <2>1, <2>2, PlainPlaces
<1>2. f \in F /\ IsAt(g, l, parts)
  <2>1. f \in F
    BY <1>1, IsAtFields
  <2>2. IsAt(g, l, parts)
    BY IsAtAgain
  <2>3. QED
    BY <2>1, <2>2
<1>3. g \in F /\ g.at = l /\ g.parts = parts
  BY <1>1, <1>2, IsAtFields
<1>4. Good(g.at, g.parts) /\ Waiting(g) /\ Calls(g, role)
  <2>1. Waiting(g)
    BY <1>3, PlainFrames DEF Waiting
  <2> HIDE DEF g
  <2>2. Calls(g, role)
    BY <1>1, <1>3 DEF Calls
  <2>3. QED
    BY <1>1, <1>3, <2>1, <2>2
<1>5. s \in Seq(F)
  BY DEF Segment
<1>6. Head(q \o s) = f /\ Tail(q \o s) = s
  <2>1. q \in Seq(F) /\ Len(q) = 1 /\ q[1] = f
    BY <1>2
  <2> HIDE DEF q, F
  <2> DEFINE r == q \o s
             n == Len(s)
  <2>2. r \in Seq(F) /\ Len(r) = Len(q) + Len(s)
    BY <1>5, <2>1, ConcatProperties
  <2>3. \A i \in 1 .. Len(q) + Len(s) : r[i] = IF i <= Len(q) THEN q[i] ELSE s[i - Len(q)]
    BY <1>5, <2>1, ConcatProperties
  <2>4. n \in Nat
    BY <1>5, LenProperties
  <2> HIDE DEF r
  <2>5. Len(r) = n + 1
    BY <2>1, <2>2, <2>4
  <2>6. r # <<>> /\ r[1] = f
    BY <2>1, <2>2, <2>3, <2>4, <2>5, EmptySeq
  <2>7. Head(r) = f
    BY <2>6
  <2>8. Tail(r) \in Seq(F) /\ Len(Tail(r)) = n /\ \A i \in 1 .. n : Tail(r)[i] = r[i + 1]
    <3>1. Tail(r) \in Seq(F) /\ Len(Tail(r)) = Len(r) - 1
      BY <2>2, <2>6, HeadTailProperties
    <3>2. \A i \in 1 .. Len(Tail(r)) : Tail(r)[i] = r[i + 1]
      BY <2>2, <2>6, HeadTailProperties
    <3>3. Len(Tail(r)) = n
      BY <2>4, <2>5, <3>1
    <3>4. QED
      BY <3>1, <3>2, <3>3
  <2>9. \A i \in 1 .. n : Tail(r)[i] = s[i]
    <3> SUFFICES ASSUME NEW i \in 1 .. n PROVE Tail(r)[i] = s[i]
      OBVIOUS
    <3> DEFINE j == i + 1
    <3>1. j \in 1 .. Len(q) + Len(s) /\ ~(j <= Len(q)) /\ j - Len(q) = i
      BY <2>1, <2>4
    <3>2. Tail(r)[i] = r[j]
      BY <2>8
    <3> HIDE DEF j
    <3>3. r[j] = s[i]
      BY <2>3, <3>1
    <3>4. QED
      BY <3>2, <3>3
  <2> DEFINE t == Tail(r)
  <2>10. t \in Seq(F) /\ Len(t) = Len(s) /\ \A i \in 1 .. Len(s) : t[i] = s[i]
    BY <2>8, <2>9
  <2> HIDE DEF t
  <2>11. t = s
    BY <1>5, <2>10, SeqEqual
  <2>12. QED
    BY <2>7, <2>11 DEF r, t
<1> HIDE DEF g
<1>7. Opened(q \o s) = <<g>> \o s
  BY <1>6 DEF Opened, g
<1>8. Segment(T, <<g>> \o s, Role(g.at), DocsOf(g.parts))
  BY <1>3, <1>4, SegmentOfCall
<1>9. QED
  BY <1>1, <1>3, <1>7, <1>8

LEMMA OpenedOne ==
  ASSUME NEW T, Trees(T), Here \in Nat, NEW l \in {"for.name", "case.subject"}
  PROVE  Segment(T, Opened(<<Frame(l)>>), "other", <<>>)
<1> DEFINE g == [Frame(l) EXCEPT !.open = Here, !.clause = Here]
           e == <<>>
<1>1. l \in PlainPlace
  BY DEF PlainPlace, ClausePlace
<1>2. e \in Seq(T) /\ DocsOf(e) = <<>>
  BY DocsOfNone
<1>3. Opened(<<Frame(l)>>) = <<g>>
  BY DEF Opened
<1>4. IsAt(g, l, e)
  <2> DEFINE f == Frame(l)
  <2>1. f = [at |-> l, parts |-> e, open |-> 0, clause |-> 0]
    BY DEF Frame
  <2> HIDE DEF f, e
  <2>2. IsAt(f, l, e)
    BY <2>1 DEF IsAt
  <2>3. IsAt([f EXCEPT !.open = Here, !.clause = Here], l, e)
    BY <2>2, IsAtAgain
  <2>4. QED
    BY <2>3 DEF f
<1> HIDE DEF g, e
<1>5. g \in FrameOf(T) /\ g.at = l /\ g.parts = e
  BY <1>1, <1>2, <1>4, PlainPlaces, IsAtFields
<1>6. Good(g.at, g.parts) /\ Active(g)
  BY <1>1, <1>5, PlainFrames
<1>7. Segment(T, <<g>>, Role(g.at), DocsOf(g.parts))
  BY <1>5, <1>6, SegmentOfOne
<1>8. QED
  BY <1>1, <1>2, <1>3, <1>5, <1>7, PlainPlaces

LEMMA DoSegment ==
  ASSUME NEW T, Trees(T), Here \in Nat
  PROVE  Segment(T, Opened(DoClause), "other", <<>>)
<1> DEFINE e == <<>>
<1>1. e \in Seq(T) /\ DocsOf(e) = <<>> /\ e = <<>>
  BY DocsOfNone
<1>2. IsAt(Frame("do"), "do", e)
  BY DEF IsAt, Frame
<1> HIDE DEF e
<1>3. Segment(T, Opened(<<Frame("do")>> \o CompoundList), "other", <<>>)
  BY <1>1, <1>2, CompoundListSegment, OpenedSegment DEF InnerPlace
<1>4. QED
  BY <1>3 DEF DoClause

LEMMA OpeningSegment ==
  ASSUME NEW T, Trees(T), Here \in Nat, NEW k \in OpeningToken
  PROVE  Segment(T, Opened(Opening(k)), "other", <<>>)
<1>1. ASSUME NEW l \in {"grouping", "subshell", "if.condition"}
      PROVE  Segment(T, Opened(<<Frame(l)>> \o CompoundList), "other", <<>>)
  <2> DEFINE e == <<>>
  <2>1. e \in Seq(T) /\ DocsOf(e) = <<>> /\ e = <<>>
    BY DocsOfNone
  <2>2. IsAt(Frame(l), l, e) /\ l \in PlainPlace
    BY DEF IsAt, Frame, PlainPlace, ClausePlace
  <2> HIDE DEF e
  <2>3. QED
    BY <2>1, <2>2, CompoundListSegment, OpenedSegment DEF InnerPlace
<1>2. ASSUME k \in {"while", "until"}
      PROVE  Segment(T, Opened(<<[Frame("while") EXCEPT !.parts = <<Leaf(k)>>]>> \o CompoundList), "other", <<>>)
  <2> DEFINE t == Leaf(k)
             parts == <<t>>
             f == [Frame("while") EXCEPT !.parts = parts]
  <2>1. t \in T /\ t.docs = <<>>
    BY <1>2, LeafDocs DEF Trees, NodeName, Token, Keyword
  <2>2. IsAt(f, "while", parts) /\ "while" \in PlainPlace
    <3> HIDE DEF parts
    <3>1. f = [at |-> "while", parts |-> parts, open |-> 0, clause |-> 0]
      BY DEF Frame
    <3> HIDE DEF f
    <3>2. QED
      BY <3>1 DEF IsAt, PlainPlace
  <2> HIDE DEF t
  <2>3. parts \in Seq(T) /\ DocsOf(parts) = <<>>
    <3>1. t.docs \in Seq(Nat)
      BY <2>1, EmptySeq
    <3>2. parts \in Seq(T)
      BY <2>1
    <3>3. DocsOf(<<t>>) = t.docs
      BY <3>1, DocsOfOne
    <3>4. QED
      BY <2>1, <3>2, <3>3
  <2> HIDE DEF parts, f
  <2>4. Segment(T, Opened(<<f>> \o CompoundList), "other", <<>>)
    BY <2>2, <2>3, CompoundListSegment, OpenedSegment DEF InnerPlace
  <2>5. QED
    BY <2>4 DEF f, parts, t
<1>3. k \in {"{", "(", "while", "until", "if", "for", "case"}
  BY DEF OpeningToken, CompoundKeyword
<1>4. CASE k = "{"
  BY <1>1, <1>4 DEF Opening
<1>5. CASE k = "("
  BY <1>1, <1>5 DEF Opening
<1>6. CASE k \in {"while", "until"}
  BY <1>2, <1>6 DEF Opening
<1>7. CASE k = "if"
  BY <1>1, <1>7 DEF Opening
<1>8. CASE k \in {"for", "case"}
  BY <1>8, OpenedOne DEF Opening
<1>9. QED
  BY <1>3, <1>4, <1>5, <1>6, <1>7, <1>8

-----------------------------------------------------------------------------
(* The frame on top goes on.                                               *)

LEMMA TopUpdates ==
  ASSUME NEW T, Fitted(T), Here \in Nat, NEW l, NEW t
  PROVE  /\ IsAt(Top, Top.at, Top.parts)
         /\ IsAt(To(l), l, Top.parts)
         /\ IsAt(Clause(l), l, Top.parts)
         /\ IsAt([To(l) EXCEPT !.open = Here], l, Top.parts)
         /\ IsAt(With(l, t), l, Append(Top.parts, t))
         /\ IsAt([With(l, t) EXCEPT !.open = Here], l, Append(Top.parts, t))
<1> DEFINE f == Top
           parts == Append(f.parts, t)
<1>1. f \in FrameOf(T)
  BY TopFacts
<1>2. f = [at |-> f.at, parts |-> f.parts, open |-> f.open, clause |-> f.clause]
      /\ f.open \in Nat /\ f.clause \in Nat
  <2> HIDE DEF f
  <2>1. QED
    BY <1>1 DEF FrameOf
<1>3. IsAt(f, f.at, f.parts)
  <2> HIDE DEF f
  <2>1. QED
    BY <1>2 DEF IsAt
<1>4. [f EXCEPT !.at = l, !.parts = Append(@, t)] = [f EXCEPT !.at = l, !.parts = Append(f.parts, t)]
  <2> HIDE DEF f
  <2>1. QED
    BY <1>2
<1> HIDE DEF f
<1>5. IsAt([f EXCEPT !.at = l], l, f.parts) /\ IsAt([f EXCEPT !.at = l, !.clause = Here], l, f.parts)
  BY <1>3, IsAtAgain
<1> HIDE DEF parts
<1>6. IsAt([f EXCEPT !.at = l, !.parts = parts], l, parts)
  BY <1>3, IsAtAgain
<1>7. With(l, t) = [f EXCEPT !.at = l, !.parts = parts]
  BY <1>4 DEF With, f, parts
<1>8. To(l) = [f EXCEPT !.at = l] /\ Clause(l) = [f EXCEPT !.at = l, !.clause = Here]
  BY DEF To, Clause, f
<1>9. IsAt(To(l), l, f.parts) /\ IsAt(With(l, t), l, parts) /\ IsAt(Clause(l), l, f.parts)
  BY <1>5, <1>6, <1>7, <1>8
<1>10. IsAt([To(l) EXCEPT !.open = Here], l, f.parts)
  BY <1>9, IsAtAgain
<1>11. IsAt([With(l, t) EXCEPT !.open = Here], l, parts)
  BY <1>9, IsAtAgain
<1>12. QED
  BY <1>3, <1>9, <1>10, <1>11 DEF f, parts

(* Steps from a place that is not special to another                       *)
LEMMA GoOn ==
  ASSUME NEW T, Fitted(T), Here \in Nat, value.tag # "Some", Role(Top.at) = "other",
         NEW m \in PlainPlace,
         Go(To(m)) \/ Go([To(m) EXCEPT !.open = Here]) \/ Go(Clause(m))
  PROVE  KeptStep(<<>>)
<1>1. PICK f \in {To(m), [To(m) EXCEPT !.open = Here], Clause(m)} : Go(f)
  OBVIOUS
<1>2. IsAt(f, m, Top.parts)
  BY TopUpdates
<1>3. QED
  BY <1>1, <1>2, TopFacts, PlainGo

LEMMA CallOn ==
  ASSUME NEW T, Fitted(T), Here \in Nat, value.tag # "Some", Role(Top.at) = "other",
         NEW m \in PlainPlace, m \notin InnerPlace, NEW s, NEW role \in {"list", "redirection", "other"},
         Segment(T, s, role, <<>>),
         Call(To(m), s) \/ Call(Clause(m), s) \/ (Top.at = m /\ Call(Top, s))
  PROVE  KeptStep(<<>>)
<1>1. PICK f : IsAt(f, m, Top.parts) /\ Call(f, s)
  BY TopUpdates
<1>2. QED
  BY <1>1, TopFacts, PlainCall

LEMMA ExtendOn ==
  ASSUME NEW T, Fitted(T), Here \in Nat, value.tag # "Some", Role(Top.at) = "other",
         NEW m \in PlainPlace, NEW t \in T, t.docs = <<>>, Go(With(m, t))
  PROVE  KeptStep(<<>>)
<1>1. IsAt(With(m, t), m, Append(Top.parts, t))
  BY TopUpdates
<1>2. t.docs = value.tree.docs
  BY TopFacts, NoTreeDocs
<1>3. QED
  BY <1>1, <1>2, PlainExtend

LEMMA JoinOn ==
  ASSUME NEW T, Fitted(T), Here \in Nat, value.tag = "Some", Role(Top.at) = "other",
         NEW m \in PlainPlace, Go(Joined(m))
  PROVE  KeptStep(<<>>)
<1> DEFINE t == value.tree
<1>1. t \in T /\ t.docs = value.tree.docs
  BY TopFacts
<1>2. IsAt(With(m, t), m, Append(Top.parts, t))
  BY TopUpdates
<1>3. Go(With(m, t))
  BY DEF Joined
<1>4. QED
  BY <1>1, <1>2, <1>3, PlainExtend

LEMMA GoAgain ==
  ASSUME NEW T, Fitted(T), value.tag # "Some", Active(Top), Go(Top)
  PROVE  KeptStep(<<>>)
BY TopFacts, DocsUnchanged, GoStep DEF Fitted

LEMMA AtFacts ==
  /\ \A l, kinds : At(l, kinds) => /\ outcome = "none" /\ value = NoValue /\ value.tag # "Some"
                                   /\ Top.at = l /\ token.kind \in kinds
  /\ \A l, tag : Returned(l, tag) => outcome = "none" /\ Top.at = l /\ value.tag = tag
BY DEF At, Running, NoValue, Returned

LEMMA TokenTrees ==
  ASSUME NEW T, Trees(T)
  PROVE  /\ \A kind \in Kind \ {EndOfInput} : Leaf(kind) \in T
         /\ \A name : Leaf(name).docs = <<>>
         /\ token.kind \in Token \cup {IoNumber} => WordTree \in T /\ WordTree.docs = <<>>
<1>1. Kind \ {EndOfInput} \subseteq NodeName /\ "word" \in Kind /\ "assign" \in Kind
      /\ "word" # EndOfInput /\ "assign" # EndOfInput
  BY DEF Kind, NodeName, Token, Word, EndOfInput
<1>2. \A kind \in Kind \ {EndOfInput} : Leaf(kind) \in T
  BY <1>1 DEF Trees
<1>3. \A name : Leaf(name).docs = <<>>
  BY LeafDocs
<1>4. token.kind \in Token \cup {IoNumber} => token.kind \in Kind \ {EndOfInput}
  BY AliasAssumption DEF Kind, Token, Word, Keyword, EndOfInput, IoNumber
<1>5. token.kind \in Token \cup {IoNumber} => \E kind \in Kind \ {EndOfInput} : WordTree = Leaf(kind)
  BY <1>1, <1>4 DEF WordTree
<1>6. QED
  BY <1>2, <1>3, <1>5

(* What the step does with the token                                       *)
Consumes == Take /\ token.kind \in Kind \ {EndOfInput}
Skips == TakeNewline /\ token.kind \in Kind \ {EndOfInput}
Substitutes == Substitute /\ token.kind \in DOMAIN Alias
Proceeds == outcome = "none" /\ KeptStep(<<>>) /\ (Peek \/ Consumes \/ Skips \/ Substitutes)

Failure == {"nothing", "error", "lexer error", "missing here-doc", "file descriptor out of range"}
Stops == /\ outcome = "none"
         /\ outcome' \in Failure
         /\ UNCHANGED <<stack, value, printed>>
         /\ Peek \/ (Take /\ token.kind \in Kind)

LEMMA ErrorStops ==
  ASSUME outcome = "none", Peek \/ (Take /\ token.kind \in Kind),
         NEW cause, NEW location, Fail(cause) \/ FailAt(cause, location) \/ FailIn(cause, location)
  PROVE  Stops
BY DEF Fail, FailAt, FailIn, EndWith, Stops, Failure

LEMMA KindFacts ==
  /\ Token \subseteq Kind \ {EndOfInput} /\ Operator \subseteq Kind \ {EndOfInput}
  /\ IoNumber \in Kind \ {EndOfInput} /\ Keyword \subseteq Token /\ EndOfInput \in Kind
  /\ Newline \in Operator
BY AliasAssumption DEF Kind, Token, Word, Keyword, EndOfInput, IoNumber, Operator, Newline, RedirOp

-----------------------------------------------------------------------------
(* And-or lists and pipelines                                              *)

LEMMA AndOrStep ==
  ASSUME NEW T, Fitted(T), Here \in Nat, AndOr
  PROVE  Proceeds \/ Stops
<1>1. {"and_or.operator", "and_or.newlines", "and_or.operand"} \subseteq PlainPlace
  BY DEF PlainPlace
<1>2. \A l \in {"and_or", "and_or.operator", "and_or.newlines", "and_or.operand"} : Role(l) = "other"
  BY RolesOfFresh, <1>1, PlainPlaces DEF FreshPlace
<1>3. "and_or" \in NoDocsPlace /\ "and_or" \in NodeName
  BY DEF NoDocsPlace, NodeName
<1>4. AndOrOperator \subseteq Kind \ {EndOfInput}
  BY KindFacts DEF AndOrOperator, Operator
<1>5. ASSUME Returned("and_or", "None"), Return(None)
      PROVE  KeptStep(<<>>)
  BY <1>2, <1>3, <1>5, AtFacts, TopFacts, ReturnNothing DEF Good
<1>6. ASSUME Returned("and_or", "Some") \/ Returned("and_or.operand", "Some"),
             Go(Joined("and_or.operator"))
      PROVE  KeptStep(<<>>)
  BY <1>1, <1>2, <1>6, AtFacts, JoinOn
<1>7. ASSUME At("and_or.operator", AndOrOperator), Go(With("and_or.newlines", Leaf(token.kind)))
      PROVE  KeptStep(<<>>)
  BY <1>1, <1>2, <1>4, <1>7, AtFacts, TokenTrees, ExtendOn DEF Fitted
<1>8. ASSUME At("and_or.operator", Kind \ AndOrOperator), Return(Made("and_or"))
      PROVE  KeptStep(<<>>)
  BY <1>2, <1>3, <1>8, AtFacts, TopFacts, ReturnMade
<1>9. ASSUME At("and_or.newlines", Kind \ {Newline}), Call(To("and_or.operand"), Pipeline)
      PROVE  KeptStep(<<>>)
  <2>1. Segment(T, Pipeline, "other", <<>>)
    BY PipelineSegment DEF Fitted
  <2>2. QED
    BY <1>1, <1>2, <1>9, <2>1, AtFacts, CallOn DEF InnerPlace
<1>10. QED
  BY <1>4, <1>5, <1>6, <1>7, <1>8, <1>9, AtFacts, ErrorStops DEF AndOr, Proceeds, Consumes

LEMMA ExtendAndCall ==
  ASSUME NEW T, Fitted(T), Here \in Nat, value.tag # "Some", Role(Top.at) = "other",
         NEW m \in PlainPlace, m \notin InnerPlace, NEW t \in T, t.docs = <<>>,
         NEW s, NEW role \in {"list", "redirection", "other"}, Segment(T, s, role, <<>>),
         Call([With(m, t) EXCEPT !.open = Here], s)
  PROVE  KeptStep(<<>>)
<1> DEFINE parts == Append(Top.parts, t)
           f == [With(m, t) EXCEPT !.open = Here]
<1>1. IsAt(f, m, parts)
  BY TopUpdates
<1>2. t.docs = value.tree.docs
  BY TopFacts, NoTreeDocs
<1>3. parts \in Seq(T) /\ DocsOf(parts) = DocsOf(Top.parts) \o value.tree.docs
  BY <1>2, DocsExtended DEF Fitted
<1>4. m \in Place /\ Role(m) = "other"
  BY PlainPlaces
<1> HIDE DEF f, parts
<1>5. f \in FrameOf(T) /\ f.at = m /\ f.parts = parts
  BY <1>1, <1>3, <1>4, IsAtFields
<1>6. Good(f.at, f.parts) /\ Waiting(f) /\ Calls(f, role)
  BY <1>5, PlainFrames
<1>7. QED
  BY <1>3, <1>4, <1>5, <1>6, CallStep DEF Fitted, f

LEMMA PipelineStep ==
  ASSUME NEW T, Fitted(T), Here \in Nat, PipelineParts
  PROVE  Proceeds \/ Stops
<1>1. {"pipeline.bang", "pipeline.bar", "pipeline.newlines", "pipeline.operand"} \subseteq PlainPlace
  BY DEF PlainPlace
<1>2. /\ Role("pipeline") = "other" /\ Role("pipeline.bang") = "other" /\ Role("pipeline.bar") = "other"
      /\ Role("pipeline.newlines") = "other" /\ Role("pipeline.operand") = "other"
  BY RolesOfFresh, <1>1, PlainPlaces DEF FreshPlace
<1>3. "pipeline" \in NoDocsPlace /\ "pipeline" \in NodeName
  BY DEF NoDocsPlace, NodeName
<1>4. {"!", "|"} \subseteq Kind \ {EndOfInput}
  BY KindFacts DEF Keyword, Operator
<1>5. Segment(T, Command, "other", <<>>)
  BY CommandSegment DEF Fitted
<1>6. ASSUME \/ Returned("pipeline", "Some")
             \/ Returned("pipeline.bang", "Some")
             \/ Returned("pipeline.operand", "Some"),
             Go(Joined("pipeline.bar"))
      PROVE  KeptStep(<<>>)
  BY <1>1, <1>2, <1>6, AtFacts, JoinOn
<1>7. ASSUME Returned("pipeline", "None"), Return(None)
      PROVE  KeptStep(<<>>)
  BY <1>2, <1>3, <1>7, AtFacts, TopFacts, ReturnNothing DEF Good
<1>8. ASSUME Returned("pipeline", "None"),
             Call([With("pipeline.bang", Leaf("!")) EXCEPT !.open = Here], Command)
      PROVE  KeptStep(<<>>)
  <2>1. Leaf("!") \in T /\ Leaf("!").docs = <<>>
    BY <1>4, TokenTrees DEF Fitted
  <2>2. value.tag # "Some" /\ Role(Top.at) = "other"
    BY <1>2, <1>8, AtFacts
  <2>3. QED
    BY <1>1, <1>5, <1>8, <2>1, <2>2, ExtendAndCall DEF InnerPlace
<1>9. ASSUME At("pipeline.bar", {"|"}), Go([To("pipeline.newlines") EXCEPT !.open = Here])
      PROVE  KeptStep(<<>>)
  BY <1>1, <1>2, <1>9, AtFacts, GoOn
<1>10. ASSUME At("pipeline.bar", Kind \ {"|"}), Return(Made("pipeline"))
       PROVE  KeptStep(<<>>)
  BY <1>2, <1>3, <1>10, AtFacts, TopFacts, ReturnMade
<1>11. ASSUME At("pipeline.newlines", Kind \ {Newline}), Call(To("pipeline.operand"), Command)
       PROVE  KeptStep(<<>>)
  BY <1>1, <1>2, <1>5, <1>11, AtFacts, CallOn DEF InnerPlace
<1>12. QED
  BY <1>4, <1>6, <1>7, <1>8, <1>9, <1>10, <1>11, AtFacts, ErrorStops
     DEF PipelineParts, Proceeds, Consumes

-----------------------------------------------------------------------------
(* Compound commands                                                       *)

LEMMA WhileStep ==
  ASSUME NEW T, Fitted(T), Here \in Nat, WhileLoop
  PROVE  Proceeds \/ Stops
<1>1. {"while", "while.do", "while.body"} \subseteq PlainPlace
  BY DEF PlainPlace
<1>2. Role("while") = "other" /\ Role("while.do") = "other" /\ Role("while.body") = "other"
  BY <1>1, PlainPlaces
<1>3. "while loop" \in NodeName /\ "do" \in Kind \ {EndOfInput}
  BY KindFacts DEF NodeName, Keyword
<1>4. ASSUME Returned("while", "Some"), Go(Joined("while.do"))
      PROVE  KeptStep(<<>>)
  BY <1>1, <1>2, <1>4, AtFacts, JoinOn
<1>5. ASSUME At("while.do", {"do"}), Call(To("while.body"), Opened(DoClause))
      PROVE  KeptStep(<<>>)
  <2>1. Segment(T, Opened(DoClause), "other", <<>>)
    BY DoSegment DEF Fitted
  <2>2. QED
    BY <1>1, <1>2, <1>5, <2>1, AtFacts, CallOn DEF InnerPlace
<1>6. ASSUME Returned("while.body", "Some"),
             Return(Some(Node("while loop", Append(Top.parts, value.tree))))
      PROVE  KeptStep(<<>>)
  BY <1>2, <1>3, <1>6, AtFacts, ReturnExtended
<1>7. QED
  BY <1>3, <1>4, <1>5, <1>6, AtFacts, ErrorStops DEF WhileLoop, Proceeds, Consumes

LEMMA IfStep ==
  ASSUME NEW T, Fitted(T), Here \in Nat, IfCommand
  PROVE  Proceeds \/ Stops
<1> DEFINE P == {"if.condition", "if.then", "if.body", "if.rest", "if.else", "if.fi"}
<1>1. P \subseteq PlainPlace /\ \A l \in IfPart : l \in P /\ AfterIfPart(l) \in P
  BY DEF PlainPlace, ClausePlace, IfPart, AfterIfPart
<1>2. \A l \in P : Role(l) = "other"
  BY <1>1, PlainPlaces
<1>3. {"then", "elif", "else", "fi"} \subseteq Kind \ {EndOfInput} /\ "if command" \in NodeName
  BY KindFacts DEF Keyword, NodeName
<1>4. Segment(T, CompoundList, "other", <<>>)
  BY CompoundListSegment DEF Fitted
<1>5. ASSUME NEW l \in IfPart, Returned(l, "Some"), Go(Joined(AfterIfPart(l)))
      PROVE  KeptStep(<<>>)
  <2>1. AfterIfPart(l) \in PlainPlace /\ Role(Top.at) = "other" /\ value.tag = "Some"
    BY <1>1, <1>2, <1>5, AtFacts
  <2>2. QED
    BY <1>5, <2>1, JoinOn
<1>6. ASSUME NEW l \in {"if.then", "if.rest"}, NEW kinds, At(l, kinds),
             NEW m \in {"if.body", "if.condition", "if.else"}, Call(Clause(m), CompoundList)
      PROVE  KeptStep(<<>>)
  <2>1. m \in PlainPlace /\ Role(Top.at) = "other" /\ value.tag # "Some"
    BY <1>1, <1>2, <1>6, AtFacts
  <2>2. QED
    BY <1>4, <1>6, <2>1, CallOn DEF InnerPlace
<1>7. ASSUME NEW l \in {"if.rest", "if.fi"}, NEW kinds, At(l, kinds), Return(Made("if command"))
      PROVE  KeptStep(<<>>)
  <2>1. Role(Top.at) = "other" /\ value.tag # "Some"
    BY <1>2, <1>7, AtFacts
  <2>2. QED
    BY <1>3, <1>7, <2>1, TopFacts, ReturnMade
<1>8. CASE \E l \in IfPart :
             /\ Returned(l, "Some")
             /\ IF value.tree.parts = <<>> THEN FailAt(EmptyPart(l), Top.clause) ELSE Go(Joined(AfterIfPart(l)))
             /\ Peek
  BY <1>5, <1>8, AtFacts, ErrorStops DEF Proceeds
<1>9. ASSUME NEW l \in {"if.rest", "if.fi"}, NEW kinds, At(l, kinds), kinds \subseteq Kind, Take,
             IF token.kind = "fi" THEN Return(Made("if command")) ELSE FailIn("UnclosedIf", Top.open)
      PROVE  Proceeds \/ Stops
  BY <1>3, <1>7, <1>9, AtFacts, ErrorStops DEF Proceeds, Consumes
<1>10. QED
  BY <1>3, <1>6, <1>8, <1>9, AtFacts, ErrorStops DEF IfCommand, Proceeds, Consumes

LEMMA ForStep ==
  ASSUME NEW T, Fitted(T), Here \in Nat, ForLoop
  PROVE  Proceeds \/ Stops
<1> DEFINE P == {"for.name", "for.in", "for.in.next", "for.values", "for.body", "for.done"}
<1>1. P \subseteq PlainPlace
  BY DEF PlainPlace, ClausePlace
<1>2. \A l \in P : Role(l) = "other"
  BY <1>1, PlainPlaces
<1>3. /\ {"do", "in", ";", Newline} \cup Token \cup {IoNumber} \subseteq Kind \ {EndOfInput}
      /\ "for loop" \in NodeName
  BY KindFacts DEF Keyword, Operator, NodeName
<1>4. ASSUME NEW l \in P, NEW kinds, At(l, kinds), NEW m \in P, Go(To(m))
      PROVE  KeptStep(<<>>)
  <2>1. m \in PlainPlace /\ Role(Top.at) = "other" /\ value.tag # "Some"
    BY <1>1, <1>2, <1>4, AtFacts
  <2>2. QED
    BY <1>4, <2>1, GoOn
<1>5. ASSUME NEW l \in P, At(l, Token \cup {IoNumber}), NEW m \in P, Go(With(m, WordTree))
      PROVE  KeptStep(<<>>)
  <2>1. m \in PlainPlace /\ Role(Top.at) = "other" /\ value.tag # "Some"
    BY <1>1, <1>2, <1>5, AtFacts
  <2>2. WordTree \in T /\ WordTree.docs = <<>>
    BY <1>5, AtFacts, TokenTrees DEF Fitted
  <2>3. QED
    BY <1>5, <2>1, <2>2, ExtendOn
<1>6. ASSUME NEW l \in P, At(l, {"in"}), Go(With("for.values", Leaf("in")))
      PROVE  KeptStep(<<>>)
  <2>1. Role(Top.at) = "other" /\ value.tag # "Some"
    BY <1>2, <1>6, AtFacts
  <2>2. Leaf("in") \in T /\ Leaf("in").docs = <<>>
    BY <1>3, TokenTrees DEF Fitted
  <2>3. QED
    BY <1>1, <1>6, <2>1, <2>2, ExtendOn
<1>7. ASSUME At("for.body", {"do"}), Call(To("for.done"), Opened(DoClause))
      PROVE  KeptStep(<<>>)
  <2>1. Segment(T, Opened(DoClause), "other", <<>>)
    BY DoSegment DEF Fitted
  <2>2. QED
    BY <1>1, <1>2, <1>7, <2>1, AtFacts, CallOn DEF InnerPlace
<1>8. ASSUME Returned("for.done", "Some"),
             Return(Some(Node("for loop", Append(Top.parts, value.tree))))
      PROVE  KeptStep(<<>>)
  BY <1>2, <1>3, <1>8, AtFacts, ReturnExtended
<1>9. ASSUME NEW l \in {"for.in", "for.in.next"},
             \/ At(l, {"do"}) /\ Go(To("for.body")) /\ Peek
             \/ At(l, {"in"}) /\ Take /\ Go(With("for.values", Leaf("in")))
      PROVE  Proceeds
  BY <1>3, <1>4, <1>6, <1>9, AtFacts DEF Proceeds, Consumes
<1>10. ASSUME NEW l, NEW kinds, At(l, kinds), kinds \subseteq Kind, Take,
              NEW cause, NEW opening, Fail(cause) \/ FailIn(cause, opening)
       PROVE  Stops
  BY <1>10, AtFacts, ErrorStops
<1>11. QED
  <2>1. CASE \E l \in {"for.in", "for.in.next"} :
               \/ At(l, {"do"}) /\ Go(To("for.body")) /\ Peek
               \/ At(l, {"in"}) /\ Take /\ Go(With("for.values", Leaf("in")))
    BY <1>9, <2>1
  <2>2. ASSUME /\ \/ /\ At("for.name", Kind \ (Token \cup {IoNumber}))
                     /\ Fail(IF token.kind \in {EndOfInput, Newline, ";"} THEN "MissingForName"
                             ELSE "InvalidForName")
                  \/ /\ \/ At("for.in", Kind \ {";", "do", "in", Newline})
                        \/ At("for.in.next", Kind \ {"do", "in", Newline})
                        \/ At("for.body", Kind \ {"do", Newline})
                     /\ FailIn("MissingForBody", Top.open)
                  \/ /\ At("for.values", Kind \ (Token \cup {IoNumber, ";", Newline}))
                     /\ Fail("InvalidForValue")
               /\ Take
        PROVE  Stops
    BY <1>10, <2>2
  <2>3. QED
    BY <1>3, <1>4, <1>5, <1>7, <1>8, <2>1, <2>2, AtFacts DEF ForLoop, Proceeds, Consumes

LEMMA CaseStep ==
  ASSUME NEW T, Fitted(T), Here \in Nat, CaseCommand
  PROVE  Proceeds \/ Stops
<1> DEFINE P == {"case.subject", "case.in", "case.in.auto", "case.items", "case.end", "case.close"}
<1>1. P \subseteq PlainPlace
  BY DEF PlainPlace, ClausePlace
<1>2. \A l \in P : Role(l) = "other"
  BY <1>1, PlainPlaces
<1>3. /\ {"in", "esac", ";;", Newline} \cup Token \subseteq Kind \ {EndOfInput}
      /\ "case command" \in NodeName
  BY KindFacts DEF Keyword, Operator, NodeName
<1>4. Segment(T, Item, "other", <<>>)
  BY FreshOne, RolesOfFresh DEF Item, FreshPlace, Fitted
<1>5. ASSUME At("case.subject", Token), Go(With("case.in", WordTree))
      PROVE  KeptStep(<<>>)
  <2>1. Role(Top.at) = "other" /\ value.tag # "Some"
    BY <1>2, <1>5, AtFacts
  <2>2. WordTree \in T /\ WordTree.docs = <<>>
    BY <1>5, AtFacts, TokenTrees DEF Fitted
  <2>3. QED
    BY <1>1, <1>5, <2>1, <2>2, ExtendOn
<1>6. ASSUME NEW l \in P, NEW kinds, At(l, kinds), Call(To("case.items"), Item)
      PROVE  KeptStep(<<>>)
  <2>1. Role(Top.at) = "other" /\ value.tag # "Some"
    BY <1>2, <1>6, AtFacts
  <2>2. QED
    BY <1>1, <1>4, <1>6, <2>1, CallOn DEF InnerPlace
<1>7. ASSUME At("case.in.auto", {Newline}), Go(To("case.in"))
      PROVE  KeptStep(<<>>)
  BY <1>1, <1>2, <1>7, AtFacts, GoOn
<1>8. ASSUME Returned("case.items", "Some"), Go(Joined("case.end"))
      PROVE  KeptStep(<<>>)
  BY <1>1, <1>2, <1>8, AtFacts, JoinOn
<1>9. ASSUME Returned("case.items", "None"), Go(To("case.close"))
      PROVE  KeptStep(<<>>)
  <2>1. Role(Top.at) = "other" /\ value.tag # "Some"
    BY <1>2, <1>9, AtFacts
  <2>2. QED
    BY <1>1, <1>9, <2>1, GoOn
<1>10. ASSUME NEW l \in P, NEW kinds, At(l, kinds), Return(Made("case command"))
       PROVE  KeptStep(<<>>)
  <2>1. Role(Top.at) = "other" /\ value.tag # "Some"
    BY <1>2, <1>10, AtFacts
  <2>2. QED
    BY <1>3, <1>10, <2>1, TopFacts, ReturnMade
<1>11. ASSUME NEW l, NEW kinds, At(l, kinds), kinds \subseteq Kind, Take,
              NEW cause, NEW opening, Fail(cause) \/ FailIn(cause, opening)
       PROVE  Stops
  BY <1>11, AtFacts, ErrorStops
<1>12. QED
  BY <1>3, <1>5, <1>6, <1>7, <1>8, <1>9, <1>10, <1>11, AtFacts DEF CaseCommand, Proceeds, Consumes

LEMMA CaseItemStep ==
  ASSUME NEW T, Fitted(T), Here \in Nat, CaseItem
  PROVE  Proceeds \/ Stops
<1> DEFINE P == {"case.pattern", "case.separator", "case.next", "case.body"}
<1>1. P \subseteq PlainPlace
  BY DEF PlainPlace, ClausePlace
<1>2. \A l \in P \cup {"case.item"} : Role(l) = "other"
  BY <1>1, PlainPlaces, RolesOfFresh DEF FreshPlace
<1>3. /\ {"esac", "(", "|", ")"} \cup Token \subseteq Kind \ {EndOfInput}
      /\ "item" \in NodeName /\ "case.item" \in NoDocsPlace
  BY KindFacts DEF Keyword, Operator, NodeName, NoDocsPlace
<1>4. ASSUME At("case.item", {"esac"}), Return(None)
      PROVE  KeptStep(<<>>)
  BY <1>2, <1>3, <1>4, AtFacts, TopFacts, ReturnNothing DEF Good
<1>5. ASSUME NEW l \in P \cup {"case.item"}, NEW kinds \in SUBSET Token, At(l, kinds),
             Go(With("case.separator", WordTree))
      PROVE  KeptStep(<<>>)
  <2>1. Role(Top.at) = "other" /\ value.tag # "Some"
    BY <1>2, <1>5, AtFacts
  <2>2. WordTree \in T /\ WordTree.docs = <<>>
    BY <1>5, AtFacts, TokenTrees DEF Fitted
  <2>3. QED
    BY <1>1, <1>5, <2>1, <2>2, ExtendOn
<1>6. ASSUME NEW l \in P \cup {"case.item"}, NEW kinds, At(l, kinds), NEW m \in P, Go(To(m))
      PROVE  KeptStep(<<>>)
  <2>1. m \in PlainPlace /\ Role(Top.at) = "other" /\ value.tag # "Some"
    BY <1>1, <1>2, <1>6, AtFacts
  <2>2. QED
    BY <1>6, <2>1, GoOn
<1>7. ASSUME At("case.separator", {")"}), Call(To("case.body"), CompoundList)
      PROVE  KeptStep(<<>>)
  <2>1. Segment(T, CompoundList, "other", <<>>)
    BY CompoundListSegment DEF Fitted
  <2>2. QED
    BY <1>1, <1>2, <1>7, <2>1, AtFacts, CallOn DEF InnerPlace
<1>8. ASSUME Returned("case.body", "Some"),
             Return(Some(Node("item", Append(Top.parts, value.tree))))
      PROVE  KeptStep(<<>>)
  BY <1>2, <1>3, <1>8, AtFacts, ReturnExtended
<1>9. ASSUME NEW l, NEW kinds, At(l, kinds), kinds \subseteq Kind, Take, NEW cause, Fail(cause)
      PROVE  Stops
  BY <1>9, AtFacts, ErrorStops
<1>10. QED
  BY <1>3, <1>4, <1>5, <1>6, <1>7, <1>8, <1>9, AtFacts DEF CaseItem, Proceeds, Consumes

(* Steps of a frame that calls again, or goes on where it is               *)
LEMMA CallAgain ==
  ASSUME NEW T, Fitted(T), value.tag # "Some", Waiting(Top),
         NEW s, NEW role, Segment(T, s, role, <<>>), Calls(Top, role), Call(Top, s)
  PROVE  KeptStep(<<>>)
BY TopFacts, DocsUnchanged, CallStep DEF Fitted

LEMMA GoSame ==
  ASSUME NEW T, Fitted(T), Here \in Nat, value = NoValue, Go(To(Top.at))
  PROVE  KeptStep(<<>>)
<1> DEFINE f == To(Top.at)
<1>1. IsAt(f, Top.at, Top.parts)
  BY TopUpdates
<1>2. Top.at \in Place /\ Top.parts \in Seq(T) /\ value.tag # "Some" /\ Active(Top)
  BY TopFacts DEF FrameOf, NoValue
<1> HIDE DEF f
<1>3. f \in FrameOf(T) /\ f.at = Top.at /\ f.parts = Top.parts
  BY <1>1, <1>2, IsAtFields
<1>4. Active(f) /\ Good(f.at, f.parts)
  BY <1>2, <1>3, TopFacts DEF Active
<1>5. QED
  BY <1>2, <1>3, <1>4, TopFacts, DocsUnchanged, GoStep DEF Fitted, f

LEMMA SingleDocs ==
  ASSUME NEW T, HaveDocs(T), NEW parts \in Seq(T), Len(parts) = 1
  PROVE  parts[1] \in T /\ DocsOf(parts) = parts[1].docs
<1> DEFINE t == parts[1]
<1>1. t \in T
  BY ElementOfSeq
<1>2. t.docs \in Seq(Nat)
  BY <1>1 DEF HaveDocs
<1>3. parts = <<t>>
  OBVIOUS
<1> HIDE DEF t
<1>4. DocsOf(<<t>>) = t.docs
  BY <1>2, DocsOfOne
<1>5. QED
  BY <1>1, <1>3, <1>4 DEF t

LEMMA CompoundStep ==
  ASSUME NEW T, Fitted(T), Here \in Nat, CompoundCommand
  PROVE  Proceeds \/ Stops
<1>1. Role("compound_command") = "other" /\ "compound_command" \in NoDocsPlace
  BY RolesOfFresh DEF FreshPlace, NoDocsPlace
<1>2. OpeningToken \subseteq Kind \ {EndOfInput}
  BY KindFacts DEF OpeningToken, CompoundKeyword, Keyword, Operator
<1>3. ASSUME At("compound_command", OpeningToken), Become(Opened(Opening(token.kind)))
      PROVE  KeptStep(<<>>)
  <2> DEFINE r == Opened(Opening(token.kind))
  <2>1. Segment(T, r, "other", <<>>)
    BY <1>3, AtFacts, OpeningSegment DEF Fitted
  <2>2. Role(Top.at) = "other" /\ DocsOf(Top.parts) = <<>> /\ value.tag # "Some"
    BY <1>1, <1>3, AtFacts, TopFacts DEF Good
  <2>3. DocsOf(Top.parts) \o value.tree.docs = <<>>
    BY <2>2, TopFacts, DocsUnchanged
  <2> HIDE DEF r
  <2>4. QED
    BY <1>3, <2>1, <2>2, <2>3, BecomeStep DEF Fitted, r
<1>4. ASSUME At("compound_command", Kind \ OpeningToken), Return(None)
      PROVE  KeptStep(<<>>)
  BY <1>1, <1>4, AtFacts, TopFacts, ReturnNothing DEF Good
<1>5. QED
  BY <1>2, <1>3, <1>4, AtFacts DEF CompoundCommand, Proceeds, Consumes

LEMMA RedirectionSegment ==
  ASSUME NEW T, Trees(T)
  PROVE  Segment(T, <<Frame("redir")>>, "redirection", <<>>)
BY FreshOne, RolesOfFresh DEF FreshPlace

LEMMA FullStep ==
  ASSUME NEW T, Fitted(T), Here \in Nat, FullCompoundCommand
  PROVE  Proceeds \/ Stops
<1>1. Role("full") = "other" /\ "full" \in NoDocsPlace /\ "full" \in NodeName
  BY RolesOfFresh DEF FreshPlace, NoDocsPlace, NodeName
<1>2. "redirections" \in PlainPlace /\ Role("redirections") = "other"
  BY PlainPlaces DEF PlainPlace
<1>3. ASSUME Returned("full", "None"), Return(None)
      PROVE  KeptStep(<<>>)
  BY <1>1, <1>3, AtFacts, TopFacts, ReturnNothing DEF Good
<1>4. ASSUME NEW l \in {"full", "redirections"}, Returned(l, "Some"), Go(Joined("redirections"))
      PROVE  KeptStep(<<>>)
  <2>1. Role(Top.at) = "other" /\ value.tag = "Some"
    BY <1>1, <1>2, <1>4, AtFacts
  <2>2. QED
    BY <1>2, <1>4, <2>1, JoinOn
<1>5. ASSUME Returned("redirections", "None"), Go(Top)
      PROVE  KeptStep(<<>>)
  BY <1>2, <1>5, AtFacts, PlainFrames, GoAgain
<1>6. ASSUME At("redirections", StartsRedirection), Call(Top, <<Frame("redir")>>)
      PROVE  KeptStep(<<>>)
  <2> DEFINE s == <<Frame("redir")>>
  <2>1. Segment(T, s, "redirection", <<>>)
    BY RedirectionSegment DEF Fitted
  <2>2. value.tag # "Some" /\ Waiting(Top) /\ Calls(Top, "redirection")
    BY <1>2, <1>6, AtFacts, PlainFrames DEF InnerPlace
  <2> HIDE DEF s
  <2>3. QED
    BY <1>6, <2>1, <2>2, CallAgain DEF s
<1>7. ASSUME At("redirections", Kind \ StartsRedirection), Return(Made("full"))
      PROVE  KeptStep(<<>>)
  BY <1>1, <1>2, <1>7, AtFacts, TopFacts, ReturnMade
<1>8. QED
  BY <1>3, <1>4, <1>5, <1>6, <1>7, AtFacts DEF FullCompoundCommand, Proceeds

LEMMA CloseStep ==
  ASSUME NEW T, Fitted(T), Here \in Nat, Close
  PROVE  Proceeds \/ Stops
<1> DEFINE P == {"grouping", "subshell"}
<1>1. P \subseteq PlainPlace /\ \A l \in P : Role(l) = "other"
  BY PlainPlaces DEF PlainPlace
<1>2. "do" \in Place /\ Role("do") = "other"
  BY RolesOfFresh DEF FreshPlace, Place, CommandPlace
<1>3. P \subseteq NodeName
  BY DEF NodeName
<1>4. \A l \in P \cup {"do"} : Closing(l)[1] \in Kind \ {EndOfInput}
  BY KindFacts DEF Closing, Keyword, Operator
<1>5. ASSUME NEW l \in P, Returned(l, "Some"), Go(Joined(l))
      PROVE  KeptStep(<<>>)
  <2>1. l \in PlainPlace /\ Role(Top.at) = "other" /\ value.tag = "Some"
    BY <1>1, <1>5, AtFacts
  <2>2. QED
    BY <1>5, <2>1, JoinOn
<1>6. ASSUME Returned("do", "Some"), Go(Joined("do"))
      PROVE  KeptStep(<<>>)
  <2> DEFINE t == value.tree
             f == With("do", t)
             parts == Append(Top.parts, t)
  <2>1. Top.at = "do" /\ value.tag = "Some" /\ value # NoValue
    BY <1>6, AtFacts DEF NoValue
  <2>2. t \in T /\ Top.parts = <<>>
    BY <2>1, TopFacts DEF Waiting
  <2>3. IsAt(f, "do", parts)
    BY TopUpdates
  <2>4. parts \in Seq(T) /\ DocsOf(parts) = DocsOf(Top.parts) \o value.tree.docs
    BY <2>2, DocsExtended DEF Fitted
  <2>5. Len(parts) = 1
    BY <2>2
  <2> HIDE DEF f, parts
  <2>6. f \in FrameOf(T) /\ f.at = "do" /\ f.parts = parts
    BY <1>2, <2>3, <2>4, IsAtFields
  <2>7. Active(f) /\ Good(f.at, f.parts)
    BY <2>5, <2>6 DEF Active, Good, NoDocsPlace, RedirPlace, ArrayPlace, SimplePlace
  <2>8. Go(f)
    BY <1>6 DEF Joined, f
  <2>9. QED
    BY <1>2, <2>1, <2>4, <2>6, <2>7, <2>8, GoStep DEF Fitted
<1>7. ASSUME NEW l \in P, At(l, Kind), Return(Made(l))
      PROVE  KeptStep(<<>>)
  <2>1. Role(Top.at) = "other" /\ value.tag # "Some" /\ l \in NodeName
    BY <1>1, <1>3, <1>7, AtFacts
  <2>2. QED
    BY <1>7, <2>1, TopFacts, ReturnMade
<1>8. ASSUME At("do", Kind), Return(Some(Top.parts[1]))
      PROVE  KeptStep(<<>>)
  <2> DEFINE t == Top.parts[1]
  <2>1. Top.at = "do" /\ value = NoValue /\ value.tag # "Some"
    BY <1>8, AtFacts
  <2>2. t \in T /\ DocsOf(Top.parts) = t.docs
    BY <2>1, TopFacts, SingleDocs DEF Active
  <2>3. t.docs = DocsOf(Top.parts) \o value.tree.docs
    BY <2>1, <2>2, TopFacts, DocsUnchanged
  <2>4. Role(Top.at) # "line" /\ Returnable(Top.at, Some(t))
    BY <1>2, <2>1 DEF Returnable
  <2> HIDE DEF t
  <2>5. QED
    BY <1>8, <2>2, <2>3, <2>4, ReturnTree DEF Fitted, t
<1>9. ASSUME NEW l \in P \cup {"do"}, Returned(l, "Some"), Go(Joined(l)), Peek
      PROVE  Proceeds
  BY <1>5, <1>6, <1>9, AtFacts DEF Proceeds
<1>10. ASSUME NEW l \in P \cup {"do"}, At(l, Kind), Take,
              Return(IF l = "do" THEN Some(Top.parts[1]) ELSE Made(l)), token.kind = Closing(l)[1]
       PROVE  Proceeds
  BY <1>4, <1>7, <1>8, <1>10, AtFacts DEF Proceeds, Consumes
<1>11. ASSUME NEW l, At(l, Kind), Take, NEW cause, NEW place, FailIn(cause, place) \/ FailAt(cause, place)
       PROVE  Stops
  BY <1>11, AtFacts, ErrorStops
<1>12. QED
  <2>1. PICK l \in P \cup {"do"} :
           \/ /\ Returned(l, "Some")
              /\ Go(Joined(l))
              /\ Peek
           \/ /\ At(l, Kind)
              /\ Take
              /\ CASE token.kind # Closing(l)[1] -> FailIn(Closing(l)[2], Top.open)
                   [] token.kind = Closing(l)[1] /\ Top.parts[1].parts = <<>> ->
                        FailAt(Closing(l)[3], Top.open)
                   [] OTHER -> Return(IF l = "do" THEN Some(Top.parts[1]) ELSE Made(l))
    BY DEF Close
  <2>2. QED
    BY <1>9, <1>10, <1>11, <2>1

-----------------------------------------------------------------------------
(* Lists                                                                   *)

LEMMA RetryStep ==
  ASSUME NEW T, Fitted(T), Retry
  PROVE  Proceeds \/ Stops
<1>1. PICK l \in RetryPlace : Returned(l, "AliasSubstituted") /\ Call(Top, Callee(l)) /\ Peek
  BY DEF Retry
<1>2. Top.at = l /\ value.tag # "Some" /\ value # NoValue /\ outcome = "none"
  BY <1>1, AtFacts DEF NoValue
<1>3. Waiting(Top)
  BY <1>2, TopFacts
<1>4. /\ Segment(T, List, "list", <<>>) /\ Segment(T, AndOrList, "other", <<>>)
      /\ Segment(T, Pipeline, "other", <<>>) /\ Segment(T, Command, "other", <<>>)
  BY ListSegment, AndOrSegment, PipelineSegment, CommandSegment DEF Fitted
<1>5. CASE l \in {"command_line", "compound_list"}
  <2>1. Callee(l) = List
    BY <1>5 DEF Callee
  <2>2. Calls(Top, "list")
    BY <1>2, <1>5 DEF Calls, SimplePlace, InnerPlace
  <2>3. KeptStep(<<>>)
    BY <1>1, <1>2, <1>3, <1>4, <2>1, <2>2, CallAgain
  <2>4. QED
    BY <1>1, <1>2, <2>3 DEF Proceeds
<1>6. CASE l \notin {"command_line", "compound_list"}
  <2>1. Callee(l) \in {AndOrList, Pipeline, Command} /\ l \notin SimplePlace
    BY <1>6 DEF Callee, RetryPlace, SimplePlace
  <2>2. Calls(Top, "other")
    BY <1>2, <1>6, <2>1 DEF Calls, InnerPlace, RetryPlace
  <2>3. KeptStep(<<>>)
    BY <1>1, <1>2, <1>3, <1>4, <2>1, <2>2, CallAgain
  <2>4. QED
    BY <1>1, <1>2, <2>3 DEF Proceeds
<1>7. QED
  BY <1>5, <1>6

LEMMA PassOnStep ==
  ASSUME NEW T, Fitted(T), PassOn
  PROVE  Proceeds \/ Stops
<1>1. PICK l \in {"list", "and_or", "pipeline", "command"} :
        Returned(l, "AliasSubstituted") /\ Return(AliasSubstituted) /\ Peek
  BY DEF PassOn
<1>2. Top.at = l /\ value.tag # "Some" /\ outcome = "none"
  BY <1>1, AtFacts
<1>3. Role(l) # "line"
  BY RolesOfFresh DEF FreshPlace
<1>4. DocsOf(Top.parts) = <<>>
  BY <1>2, TopFacts, DocsOfNone DEF Good, NoDocsPlace
<1>5. KeptStep(<<>>)
  BY <1>1, <1>2, <1>3, <1>4, TopFacts, ReturnNothing
<1>6. QED
  BY <1>1, <1>2, <1>5 DEF Proceeds

(* The part that is returned to a frame that has none                      *)
LEMMA JoinFirst ==
  ASSUME NEW T, Fitted(T), Here \in Nat, value.tag = "Some", Top.parts = <<>>,
         NEW m \in Place, Role(m) = Role(Top.at), m \notin NoDocsPlace \cup SimplePlace,
         m \notin {"command_line", "command", "do"}, Go(Joined(m))
  PROVE  KeptStep(<<>>)
<1> DEFINE t == value.tree
           f == With(m, t)
           parts == Append(Top.parts, t)
<1>1. t \in T
  BY TopFacts
<1>2. IsAt(f, m, parts)
  BY TopUpdates
<1>3. parts \in Seq(T) /\ DocsOf(parts) = DocsOf(Top.parts) \o value.tree.docs
  BY <1>1, DocsExtended DEF Fitted
<1>4. Len(parts) = 1 /\ parts # <<>>
  OBVIOUS
<1> HIDE DEF f, parts
<1>5. f \in FrameOf(T) /\ f.at = m /\ f.parts = parts
  BY <1>2, <1>3, IsAtFields
<1>6. Active(f) /\ Good(f.at, f.parts)
  BY <1>4, <1>5 DEF Active, Good
<1>7. Go(f)
  BY DEF Joined, f
<1>8. QED
  BY <1>3, <1>5, <1>6, <1>7, GoStep DEF Fitted

LEMMA CommandKindStep ==
  ASSUME NEW T, Fitted(T), Here \in Nat, CommandKind
  PROVE  Proceeds \/ Stops
<1>1. Role("command") = "other" /\ Role("function") = "other"
  BY DEF Role, LinePlace, ListPlace, RedirPlace, ArrayPlace
<1>2. "function" \in Place /\ "function" \notin NoDocsPlace \cup SimplePlace
  BY DEF Place, CommandPlace, NoDocsPlace, SimplePlace, RedirPlace, ArrayPlace
<1>3. ASSUME Returned("command", "Some"), Go(Joined("function"))
      PROVE  KeptStep(<<>>)
  <2>1. Top.at = "command" /\ value.tag = "Some" /\ Top.parts = <<>>
    BY <1>3, AtFacts, TopFacts DEF Good
  <2>2. QED
    BY <1>1, <1>2, <1>3, <2>1, JoinFirst
<1>4. ASSUME Returned("command", "None"), Become(FullCompound)
      PROVE  KeptStep(<<>>)
  <2>1. Top.at = "command" /\ value.tag # "Some" /\ Top.parts = <<>>
    BY <1>4, AtFacts, TopFacts DEF Good
  <2>2. DocsOf(Top.parts) \o value.tree.docs = <<>>
    BY <2>1, TopFacts, DocsUnchanged, DocsOfNone
  <2>3. Segment(T, FullCompound, "other", <<>>)
    BY FullCompoundSegment DEF Fitted
  <2>4. QED
    BY <1>1, <1>4, <2>1, <2>2, <2>3, BecomeStep DEF Fitted
<1>5. QED
  BY <1>3, <1>4, AtFacts DEF CommandKind, Proceeds

(* The command line is complete.                                           *)
Completes == /\ outcome = "none" /\ value = NoValue /\ Top.at = "command_line.end" /\ End("list")
             /\ (TakeNewline /\ token.kind \in Kind) \/ (Peek /\ unread = <<>>)

LEMMA CommandLineStep ==
  ASSUME NEW T, Fitted(T), Here \in Nat, CommandLine
  PROVE  Proceeds \/ Stops \/ Completes
<1>1. /\ "command_line.end" \in Place /\ "command_line.end" \notin NoDocsPlace \cup SimplePlace
      /\ Role("command_line") = Role("command_line.end")
  <2>1. "command_line.end" \in Place /\ "command_line.end" \notin NoDocsPlace \cup SimplePlace
    BY DEF Place, LinePlace, NoDocsPlace, SimplePlace, RedirPlace, ArrayPlace
  <2>2. Role("command_line") = "line" /\ Role("command_line.end") = "line"
    BY DEF Role, LinePlace, ListPlace, RedirPlace, ArrayPlace
  <2>3. QED
    BY <2>1, <2>2
<1>2. ASSUME Returned("command_line", "Some"), Go(Joined("command_line.end"))
      PROVE  KeptStep(<<>>)
  <2>1. Top.at = "command_line" /\ value.tag = "Some" /\ Top.parts = <<>>
    BY <1>2, AtFacts, TopFacts DEF Good
  <2>2. QED
    BY <1>1, <1>2, <2>1, JoinFirst
<1>3. ASSUME outcome = "none", Peek, End("nothing") \/ EnsureNoUnreadHereDoc
      PROVE  Stops
  BY <1>3 DEF End, EnsureNoUnreadHereDoc, EndWith, Stops, Failure
<1>4. Newline \in Kind
  BY KindFacts
<1>5. QED
  BY <1>2, <1>3, <1>4, AtFacts, ErrorStops DEF CommandLine, Proceeds, Completes

LEMMA CompoundListStep ==
  ASSUME NEW T, Fitted(T), Here \in Nat, MaybeCompoundList
  PROVE  Proceeds \/ Stops
<1>1. "compound_list.end" \in PlainPlace /\ Role("compound_list.end") = "other"
      /\ "compound_list.end" \in Place
  BY PlainPlaces DEF PlainPlace
<1>2. Role("compound_list") = "other" /\ "compound_list" \in Place
  BY RolesOfFresh DEF FreshPlace, Place, CommandPlace
<1>3. "list" \in NodeName /\ Newline \in Kind \ {EndOfInput}
  BY KindFacts DEF NodeName
<1>4. ASSUME Returned("compound_list", "Some"),
             Go([Top EXCEPT !.at = "compound_list.end", !.parts = @ \o value.tree.parts])
      PROVE  KeptStep(<<>>)
  <2> DEFINE f == Top
             t == value.tree
             p == t.parts
             parts == f.parts \o p
             m == "compound_list.end"
             e == [f EXCEPT !.at = m, !.parts = @ \o p]
             g == [f EXCEPT !.at = m, !.parts = parts]
  <2>1. Top.at = "compound_list" /\ value.tag = "Some" /\ value # NoValue
    BY <1>4, AtFacts DEF NoValue
  <2>2. t \in T /\ t.node = "list" /\ f \in FrameOf(T) /\ f.parts \in Seq(T) /\ HaveDocs(T)
    BY <2>1, TopFacts DEF Delivers
  <2>3. p \in Seq(T) /\ t.docs = DocsOf(p)
    BY <2>2, TreeFields DEF Fitted
  <2>4. IsAt(f, f.at, f.parts)
    BY TopUpdates
  <2>5. e = g
    <3>1. f = [at |-> f.at, parts |-> f.parts, open |-> f.open, clause |-> f.clause]
      <4> HIDE DEF f
      <4>1. QED
        BY <2>2 DEF FrameOf
    <3> HIDE DEF f, p
    <3>2. QED
      BY <3>1
  <2> DEFINE a == f.parts
  <2>6. a \in Seq(T)
    BY <2>2
  <2> HIDE DEF p, a
  <2>7. DocsOf(a \o p) = DocsOf(a) \o DocsOf(p) /\ a \o p \in Seq(T)
    <3>1. a \o p \in Seq(T)
      BY <2>3, <2>6, ConcatProperties
    <3>2. DocsOf(a \o p) = DocsOf(a) \o DocsOf(p)
      BY <2>2, <2>3, <2>6, DocsOfConcat
    <3>3. QED
      BY <3>1, <3>2
  <2>8. parts \in Seq(T) /\ DocsOf(parts) = DocsOf(Top.parts) \o value.tree.docs
    BY <2>3, <2>7 DEF a
  <2> HIDE DEF parts
  <2>9. IsAt(g, m, parts)
    <3> HIDE DEF f
    <3>1. QED
      BY <2>4, IsAtAgain
  <2> HIDE DEF g
  <2>10. g \in FrameOf(T) /\ g.at = m /\ g.parts = parts
    BY <1>1, <2>8, <2>9, IsAtFields
  <2>11. Good(g.at, g.parts) /\ Active(g)
    BY <1>1, <2>10, PlainFrames
  <2>12. Go(g)
    BY <1>4, <2>5 DEF p
  <2>13. QED
    BY <1>1, <1>2, <2>1, <2>8, <2>10, <2>11, <2>12, GoStep DEF Fitted
<1>5. ASSUME At("compound_list.end", {Newline}), Call(To("compound_list"), List)
      PROVE  KeptStep(<<>>)
  <2> DEFINE f == To("compound_list")
             parts == Top.parts
  <2>1. Top.at = "compound_list.end" /\ value.tag # "Some" /\ parts \in Seq(T)
    BY <1>5, AtFacts, TopFacts
  <2>2. IsAt(f, "compound_list", parts)
    BY TopUpdates
  <2>3. DocsOf(parts) = DocsOf(Top.parts) \o value.tree.docs
    BY <2>1, TopFacts, DocsUnchanged
  <2> HIDE DEF f, parts
  <2>4. f \in FrameOf(T) /\ f.at = "compound_list" /\ f.parts = parts
    BY <1>2, <2>1, <2>2, IsAtFields
  <2>5. Good(f.at, f.parts) /\ Waiting(f) /\ Calls(f, "list")
    BY <2>4 DEF Good, Waiting, Calls, NoDocsPlace, RedirPlace, ArrayPlace, SimplePlace, InnerPlace
  <2>6. Segment(T, List, "list", <<>>)
    BY ListSegment DEF Fitted
  <2>7. QED
    BY <1>1, <1>2, <1>5, <2>1, <2>3, <2>4, <2>5, <2>6, CallStep DEF Fitted, f
<1>6. ASSUME At("compound_list.end", Kind \ {Newline}), Return(Made("list"))
      PROVE  KeptStep(<<>>)
  BY <1>1, <1>3, <1>6, AtFacts, TopFacts, ReturnMade
<1>7. QED
  BY <1>3, <1>4, <1>5, <1>6, AtFacts DEF MaybeCompoundList, Proceeds, Skips

LEMMA ListStep ==
  ASSUME NEW T, Fitted(T), Here \in Nat, ListItem
  PROVE  Proceeds \/ Stops
<1>1. /\ {"list", "list.next", "list.separator"} \subseteq Place
      /\ Role("list") = "list" /\ Role("list.next") = "list" /\ Role("list.separator") = "list"
  <2>1. {"list", "list.next", "list.separator"} \subseteq Place
    BY DEF Place, ListPlace
  <2>2. Role("list") = "list" /\ Role("list.next") = "list" /\ Role("list.separator") = "list"
    BY DEF Role, LinePlace, ListPlace, RedirPlace, ArrayPlace
  <2>3. QED
    BY <2>1, <2>2
<1>2. "list" \in NodeName /\ {";", "&"} \subseteq NodeName /\ {";", "&"} \subseteq Kind \ {EndOfInput}
  BY KindFacts DEF NodeName, Operator
<1>3. ASSUME NEW l \in {"list", "list.next"}, Returned(l, "Some"),
             Go(With("list.separator", Node(";", <<value.tree>>)))
      PROVE  KeptStep(<<>>)
  <2> DEFINE t == value.tree
             one == <<t>>
             n == Node(";", one)
             U == T \cup {n}
             f == With("list.separator", n)
             parts == Append(Top.parts, n)
  <2>1. Top.at = l /\ value.tag = "Some"
    BY <1>3, AtFacts
  <2>2. t \in T /\ t.docs \in Seq(Nat)
    BY <2>1, TopFacts
  <2>3. one \in Seq(T) /\ DocsOf(one) = t.docs
    BY <2>2, DocsOfOne
  <2> HIDE DEF one
  <2>4. Trees(U) /\ T \subseteq U /\ n \in U /\ n.docs = DocsOf(one)
    <3>1. ";" \in NodeName /\ Trees(T)
      BY <1>2 DEF Fitted
    <3>2. QED
      BY <2>3, <3>1, OneMoreNode
  <2>5. IsAt(f, "list.separator", parts)
    BY TopUpdates
  <2> HIDE DEF n, U, f
  <2>6. parts \in Seq(U) /\ DocsOf(parts) = DocsOf(Top.parts) \o value.tree.docs
    BY <2>3, <2>4, DocsExtended
  <2>7. parts # <<>>
    BY TopFacts
  <2> HIDE DEF parts
  <2>8. f \in FrameOf(U) /\ f.at = "list.separator" /\ f.parts = parts
    BY <1>1, <2>5, <2>6, IsAtFields
  <2>9. Good(f.at, f.parts) /\ Active(f)
    BY <2>7, <2>8 DEF Good, Active, NoDocsPlace, RedirPlace, ArrayPlace, SimplePlace
  <2>10. QED
    BY <1>1, <1>3, <2>1, <2>4, <2>6, <2>8, <2>9, GoStep DEF f, n, one
<1>4. ASSUME NEW l \in {"list", "list.next"}, Returned(l, "None"), Return(Made("list"))
      PROVE  KeptStep(<<>>)
  <2>1. Role(Top.at) = "list" /\ value.tag # "Some"
    BY <1>1, <1>4, AtFacts
  <2>2. QED
    BY <1>2, <1>4, <2>1, TopFacts, ReturnMade
<1>5. ASSUME At("list.separator", {";", "&"}),
             Call([Top EXCEPT !.at = "list.next", !.parts[Len(Top.parts)].node = token.kind], AndOrList)
      PROVE  KeptStep(<<>>)
  <2> DEFINE f == Top
             a == f.parts
             l == Len(a)
             k == token.kind
             t == a[l]
             u == [node |-> k, parts |-> t.parts, docs |-> t.docs]
             U == T \cup {u}
             b == [a EXCEPT ![l] = u]
             m == "list.next"
             e == [f EXCEPT !.at = m, !.parts[l].node = k]
             g == [f EXCEPT !.at = m, !.parts = b]
  <2>1. Top.at = "list.separator" /\ value.tag # "Some" /\ k \in {";", "&"}
    BY <1>5, AtFacts
  <2>2. a \in Seq(T) /\ a # <<>> /\ f \in FrameOf(T) /\ HaveDocs(T)
    BY <2>1, TopFacts DEF Good
  <2>3. f = [at |-> f.at, parts |-> a, open |-> f.open, clause |-> f.clause]
    <3> HIDE DEF f
    <3>1. QED
      BY <2>2 DEF FrameOf
  <2>4. l \in Nat /\ l # 0 /\ t \in T
    <3> HIDE DEF f
    <3> DEFINE x == a
    <3>1. x \in Seq(T) /\ x # <<>>
      BY <2>2
    <3> HIDE DEF x
    <3>2. Len(x) \in Nat /\ Len(x) # 0 /\ x[Len(x)] \in T
      BY <3>1, LenProperties, EmptySeq, ElementOfSeq
    <3>3. QED
      BY <3>2 DEF x
  <2>5. t = [node |-> t.node, parts |-> t.parts, docs |-> t.docs] /\ t.parts \in Seq(T) /\ t.docs \in Seq(Nat)
    <3> HIDE DEF t
    <3>1. QED
      BY <2>4, TreeFields DEF Fitted
  <2>6. k \in NodeName /\ k \notin {"list", "simple"}
    BY <1>2, <2>1
  <2>7. Trees(U) /\ T \subseteq U /\ u \in U /\ u.docs = t.docs
    <3> HIDE DEF t, k
    <3>1. Trees(U)
      BY <2>5, <2>6, OneMoreTree DEF Fitted
    <3>2. QED
      BY <3>1
  <2>8. e = g
    <3> HIDE DEF f
    <3>1. DOMAIN a = 1 .. l
      BY <2>2
    <3> DEFINE x == a
    <3>2. [t EXCEPT !.node = k] = u
      BY <2>5
    <3>3. e = [f EXCEPT !.at = m, !.parts = [a EXCEPT ![l] = [t EXCEPT !.node = k]]]
      BY <2>3
    <3>4. QED
      BY <3>2, <3>3
  <2> DEFINE p == a
  <2>9. p \in Seq(T) /\ Len(p) = l /\ p[l].docs = u.docs /\ HaveDocs(U) /\ b = [p EXCEPT ![l] = u]
    BY <2>2, <2>7, TreesHaveDocs
  <2>10. p \in Seq(U)
    BY <2>7, <2>9, TypedGrows
  <2> HIDE DEF p, u, l, U
  <2>11. b \in Seq(U) /\ Len(b) = l /\ \A i \in 1 .. l : b[i].docs = p[i].docs
    <3> HIDE DEF b
    <3>1. DOMAIN p = 1 .. l /\ \A i \in 1 .. l : p[i] \in U
      BY <2>4, <2>9, <2>10, LenProperties, ElementOfSeq
    <3>2. b = [i \in 1 .. l |-> IF i = l THEN u ELSE p[i]]
      BY <2>9, <3>1
    <3>3. b \in [1 .. l -> U] /\ \A i \in 1 .. l : b[i] = IF i = l THEN u ELSE p[i]
      BY <2>7, <3>1, <3>2
    <3>4. b \in Seq(U) /\ Len(b) = l
      BY <2>4, <3>3
    <3>5. QED
      BY <2>9, <3>3, <3>4
  <2> HIDE DEF b
  <2>12. DocsOf(b) = DocsOf(p)
    BY <2>9, <2>10, <2>11, SameDocs
  <2>13. DocsOf(b) = DocsOf(Top.parts) \o value.tree.docs
    BY <2>1, <2>12, TopFacts, DocsUnchanged DEF p
  <2>14. IsAt(g, m, b)
    <3>1. IsAt(f, f.at, f.parts)
      BY TopUpdates
    <3> HIDE DEF f
    <3>2. QED
      BY <3>1, IsAtAgain
  <2>15. Call(g, AndOrList)
    BY <1>5, <2>8 DEF l
  <2> HIDE DEF g
  <2>16. g \in FrameOf(U) /\ g.at = m /\ g.parts = b
    BY <1>1, <2>11, <2>14, IsAtFields
  <2>17. Good(g.at, g.parts) /\ Waiting(g) /\ Calls(g, "other")
    BY <2>16 DEF Good, Waiting, Calls, NoDocsPlace, RedirPlace, ArrayPlace, SimplePlace, InnerPlace
  <2>18. Segment(U, AndOrList, "other", <<>>)
    BY <2>7, AndOrSegment
  <2>19. QED
    BY <1>1, <2>1, <2>7, <2>13, <2>15, <2>16, <2>17, <2>18, CallStep DEF Fitted
<1>6. ASSUME At("list.separator", Kind \ {";", "&"}), Return(Made("list"))
      PROVE  KeptStep(<<>>)
  BY <1>1, <1>2, <1>6, AtFacts, TopFacts, ReturnMade
<1>7. QED
  BY <1>2, <1>3, <1>4, <1>5, <1>6, AtFacts DEF ListItem, Proceeds, Consumes

-----------------------------------------------------------------------------
(* Simple commands                                                         *)

LEMMA SimplePlaces ==
  ASSUME NEW l \in SimplePlace
  PROVE  /\ l \in Place /\ Role(l) = "other" /\ l \notin NoDocsPlace
         /\ l \notin {"command_line", "command", "command_line.end", "function", "list.separator",
                      "do", "compound_list"}
         /\ l \notin InnerPlace
<1>1. l \in CommandPlace /\ l \notin LinePlace \cup ListPlace \cup RedirPlace \cup ArrayPlace
  BY DEF SimplePlace, CommandPlace, LinePlace, ListPlace, RedirPlace, ArrayPlace
<1>2. l \in Place /\ Role(l) = "other"
  BY <1>1 DEF Place, Role
<1>3. l \notin NoDocsPlace
  BY <1>1 DEF NoDocsPlace, SimplePlace
<1>4. l \notin InnerPlace
  BY DEF SimplePlace, InnerPlace
<1>5. QED
  BY <1>2, <1>3, <1>4 DEF SimplePlace

(* A frame of a simple command with these parts                            *)
LEMMA SimpleFrame ==
  ASSUME NEW T, NEW l \in SimplePlace, NEW parts \in Seq(T), NEW f, IsAt(f, l, parts),
         \A i \in 1 .. Len(parts) : IsRedir(parts[i]) \/ parts[i].docs = <<>>
  PROVE  /\ f \in FrameOf(T) /\ f.at = l /\ f.parts = parts
         /\ Good(f.at, f.parts) /\ Active(f) /\ Waiting(f)
         /\ Calls(f, "redirection")
         /\ EndsInAssignment(parts) => Calls(f, "array")
<1>1. f \in FrameOf(T) /\ f.at = l /\ f.parts = parts
  BY SimplePlaces, IsAtFields
<1>2. Good(l, parts)
  BY SimplePlaces DEF Good
<1>3. Active(f) /\ Waiting(f)
  BY <1>1, SimplePlaces DEF Active, Waiting
<1>4. Calls(f, "redirection") /\ (EndsInAssignment(parts) => Calls(f, "array"))
  BY <1>1, SimplePlaces DEF Calls
<1>5. QED
  BY <1>1, <1>2, <1>3, <1>4

(* What the frame of a simple command is once it has taken t and waits at  *)
(* l: it has t's here-documents after its own, and may read what follows.  *)
GoesOn(T, l, t) ==
  LET f == With(l, t)
  IN  /\ f \in FrameOf(T) /\ f.at = l
      /\ Role(f.at) = Role(Top.at)
      /\ DocsOf(f.parts) = DocsOf(Top.parts) \o value.tree.docs
      /\ Good(f.at, f.parts) /\ Active(f) /\ Waiting(f)
      /\ t.docs = <<>> => Calls(f, "array")

LEMMA SimpleExtended ==
  ASSUME NEW T, Fitted(T), Here \in Nat, Top.at \in SimplePlace, NEW l \in SimplePlace,
         NEW t \in T, t.docs = value.tree.docs, IsRedir(t) \/ t.docs = <<>>
  PROVE  GoesOn(T, l, t)
<1> DEFINE a == Top.parts
           parts == Append(a, t)
           f == With(l, t)
<1>1. IsAt(f, l, parts)
  BY TopUpdates
<1>2. parts \in Seq(T) /\ DocsOf(parts) = DocsOf(Top.parts) \o value.tree.docs
  BY DocsExtended DEF Fitted
<1>3. a \in Seq(T) /\ \A i \in 1 .. Len(a) : IsRedir(a[i]) \/ a[i].docs = <<>>
  BY TopFacts DEF Good
<1> HIDE DEF a
<1>4. Len(parts) = Len(a) + 1 /\ parts[Len(a) + 1] = t /\ \A i \in 1 .. Len(a) : parts[i] = a[i]
      /\ Len(a) \in Nat
  BY <1>3, LenProperties
<1> HIDE DEF parts, f
<1>5. \A i \in 1 .. Len(parts) : IsRedir(parts[i]) \/ parts[i].docs = <<>>
  <2>1. ASSUME NEW i \in 1 .. Len(parts) PROVE IsRedir(parts[i]) \/ parts[i].docs = <<>>
    <3>1. i \in 1 .. Len(a) \/ i = Len(a) + 1
      BY <1>4
    <3>2. QED
      BY <1>3, <1>4, <3>1
  <2>2. QED
    BY <2>1
<1>6. t.docs = <<>> => EndsInAssignment(parts)
  <2>1. parts # <<>>
    BY <1>4
  <2>2. QED
    BY <1>4, <2>1 DEF EndsInAssignment
<1>7. /\ f \in FrameOf(T) /\ f.at = l /\ f.parts = parts
      /\ Good(f.at, f.parts) /\ Active(f) /\ Waiting(f)
      /\ EndsInAssignment(parts) => Calls(f, "array")
  BY <1>1, <1>2, <1>5, SimpleFrame
<1>8. Role(f.at) = Role(Top.at)
  BY <1>7, SimplePlaces
<1>9. QED
  BY <1>2, <1>6, <1>7, <1>8 DEF f, GoesOn

LEMMA SimpleJoined ==
  ASSUME NEW T, Fitted(T), Here \in Nat, Top.at \in SimplePlace, NEW l \in SimplePlace,
         NEW t \in T, t.docs = value.tree.docs, IsRedir(t) \/ t.docs = <<>>, Go(With(l, t))
  PROVE  KeptStep(<<>>)
<1> DEFINE f == With(l, t)
<1>1. /\ f \in FrameOf(T) /\ Role(f.at) = Role(Top.at) /\ Good(f.at, f.parts) /\ Active(f)
      /\ DocsOf(f.parts) = DocsOf(Top.parts) \o value.tree.docs
  <2>1. GoesOn(T, l, t)
    BY SimpleExtended
  <2>2. QED
    BY <2>1 DEF GoesOn
<1>2. Go(f)
  OBVIOUS
<1> HIDE DEF f
<1>3. QED
  BY <1>1, <1>2, GoStep DEF Fitted

(* The array replaces the assignment.                                      *)
LEMMA SimpleReplaced ==
  ASSUME NEW T, Fitted(T), Here \in Nat, Top.at \in SimplePlace, value.tag = "Some",
         value.tree.docs = <<>>, EndsInAssignment(Top.parts),
         Go([Top EXCEPT !.parts[Len(Top.parts)] = value.tree])
  PROVE  KeptStep(<<>>)
<1> DEFINE f == Top
           a == f.parts
           l == Len(a)
           u == value.tree
           b == [a EXCEPT ![l] = u]
           e == [f EXCEPT !.parts[l] = u]
           g == [f EXCEPT !.parts = b]
<1>1. f \in FrameOf(T) /\ a \in Seq(T) /\ HaveDocs(T) /\ u \in T /\ Trees(T)
      /\ \A i \in 1 .. l : IsRedir(a[i]) \/ a[i].docs = <<>>
  BY TopFacts DEF Good, Fitted
<1>2. a # <<>> /\ a[l].docs = <<>> /\ u.docs = <<>>
  BY DEF EndsInAssignment
<1>3. e = g
  <2>1. f = [at |-> f.at, parts |-> a, open |-> f.open, clause |-> f.clause]
    <3> HIDE DEF f
    <3>1. QED
      BY <1>1 DEF FrameOf
  <2> HIDE DEF f, u
  <2>2. QED
    BY <2>1
<1>4. Go(g)
  BY <1>3
<1>5. IsAt(g, f.at, b)
  <2>1. IsAt(f, f.at, f.parts)
    BY TopUpdates
  <2> DEFINE k == f.at
             r == f.parts
  <2> HIDE DEF b
  <2>2. IsAt(f, k, r)
    BY <2>1
  <2> HIDE DEF f, k, r
  <2>3. 0 \in Nat
    OBVIOUS
  <2>4. IsAt([f EXCEPT !.parts = b], k, b)
    BY <2>2, <2>3, IsAtAgain
  <2>5. QED
    BY <2>4 DEF k
<1> DEFINE p == a
<1>6. p \in Seq(T) /\ p # <<>> /\ Len(p) = l /\ b = [p EXCEPT ![l] = u] /\ p[l].docs = <<>>
      /\ \A i \in 1 .. l : IsRedir(p[i]) \/ p[i].docs = <<>>
  BY <1>1, <1>2
<1> HIDE DEF p, u, l
<1>7. b \in Seq(T) /\ Len(b) = l /\ \A i \in 1 .. l : b[i] = IF i = l THEN u ELSE p[i]
  <2> HIDE DEF b
  <2>1. DOMAIN p = 1 .. l /\ l \in Nat /\ \A i \in 1 .. l : p[i] \in T
    BY <1>6, LenProperties, ElementOfSeq
  <2>2. b = [i \in 1 .. l |-> IF i = l THEN u ELSE p[i]]
    BY <1>6, <2>1
  <2>3. b \in [1 .. l -> T] /\ \A i \in 1 .. l : b[i] = IF i = l THEN u ELSE p[i]
    BY <1>1, <2>1, <2>2
  <2>4. b \in Seq(T) /\ Len(b) = l
    BY <2>1, <2>3
  <2>5. QED
    BY <2>3, <2>4
<1> HIDE DEF b
<1>8. DocsOf(b) = DocsOf(p)
  <2>1. \A i \in 1 .. l : b[i].docs = p[i].docs
    BY <1>2, <1>6, <1>7
  <2>2. QED
    BY <1>1, <1>6, <1>7, <2>1, SameDocs
<1>9. \A i \in 1 .. Len(b) : IsRedir(b[i]) \/ b[i].docs = <<>>
  BY <1>2, <1>6, <1>7
<1>10. DocsOf(b) = DocsOf(Top.parts) \o value.tree.docs
  <2>1. DocsOf(Top.parts) \in Seq(Nat)
    BY TopFacts
  <2>2. DocsOf(Top.parts) \o <<>> = DocsOf(Top.parts)
    BY <2>1, ConcatEmptySeq
  <2>3. QED
    BY <1>8, <2>2 DEF p
<1> HIDE DEF g
<1>11. g \in FrameOf(T) /\ g.at = f.at /\ g.parts = b /\ Good(g.at, g.parts) /\ Active(g)
  BY <1>5, <1>7, <1>9, SimpleFrame
<1>12. QED
  BY <1>1, <1>4, <1>10, <1>11, GoStep

LEMMA SimpleStep ==
  ASSUME NEW T, Fitted(T), Here \in Nat, SimpleCommand
  PROVE  Proceeds \/ Stops
<1>1. ASSUME NEW l \in SimplePlace, At(l, StartsRedirection), Call(Top, <<Frame("redir")>>)
      PROVE  KeptStep(<<>>)
  <2> DEFINE s == <<Frame("redir")>>
  <2>1. Segment(T, s, "redirection", <<>>)
    BY RedirectionSegment DEF Fitted
  <2>2. Top.at = l /\ value.tag # "Some"
    BY <1>1, AtFacts
  <2>3. Waiting(Top) /\ Calls(Top, "redirection")
    BY <2>2, SimplePlaces DEF Waiting, Calls
  <2> HIDE DEF s
  <2>4. QED
    BY <1>1, <2>1, <2>2, <2>3, CallAgain DEF s
<1>2. ASSUME NEW l \in SimplePlace, Returned(l, "Some"),
             Go(IF IsAssign(value.tree)
                THEN [Top EXCEPT !.parts[Len(Top.parts)] = value.tree]
                ELSE Joined(l))
      PROVE  KeptStep(<<>>)
  <2>1. Top.at = l /\ value.tag = "Some" /\ value # NoValue
    BY <1>2, AtFacts DEF NoValue
  <2>2. \/ IsRedir(value.tree)
        \/ IsAssign(value.tree) /\ value.tree.docs = <<>> /\ EndsInAssignment(Top.parts)
    BY <2>1, TopFacts DEF Delivers
  <2>3. CASE IsAssign(value.tree)
    <3>1. ~IsRedir(value.tree)
      BY <2>3 DEF IsAssign, IsRedir, RedirOp
    <3>2. Top.at \in SimplePlace
      BY <2>1
    <3>3. Go([Top EXCEPT !.parts[Len(Top.parts)] = value.tree])
      BY <1>2, <2>3
    <3>4. QED
      BY <2>1, <2>2, <3>1, <3>2, <3>3, SimpleReplaced
  <2>4. CASE ~IsAssign(value.tree)
    <3> DEFINE t == value.tree
    <3>1. Go(With(l, t))
      BY <1>2, <2>4 DEF Joined
    <3>2. t \in T /\ t.docs = value.tree.docs /\ IsRedir(t) /\ Top.at \in SimplePlace
      BY <2>1, <2>2, <2>4, TopFacts
    <3> HIDE DEF t
    <3>3. QED
      BY <3>1, <3>2, SimpleJoined
  <2>5. QED
    BY <2>3, <2>4
<1>3. ASSUME NEW l \in SimplePlace, Returned(l, "None"), Go(Top)
      PROVE  KeptStep(<<>>)
  <2>1. Top.at = l /\ value.tag # "Some"
    BY <1>3, AtFacts
  <2>2. Active(Top)
    BY <2>1, SimplePlaces DEF Active
  <2>3. QED
    BY <1>3, <2>1, <2>2, GoAgain
<1>4. ASSUME NEW l \in SimplePlace, At(l, Kind \ StartsRedirection),
             Return(IF IsEmpty(Top.parts) THEN None ELSE Some(SimpleNode(Top.parts)))
      PROVE  KeptStep(<<>>)
  <2> DEFINE a == Top.parts
             n == SimpleNode(a)
             p == n.parts
             U == T \cup {n}
  <2>1. Top.at = l /\ value.tag # "Some" /\ value.tree = NoTree
    BY <1>4, AtFacts, TopFacts
  <2>2. Role(Top.at) = "other"
    BY <2>1, SimplePlaces
  <2>3. CASE IsEmpty(Top.parts)
    <3>1. DocsOf(Top.parts) = <<>>
      BY <2>3, DocsOfNone DEF IsEmpty
    <3>2. QED
      BY <1>4, <2>1, <2>2, <2>3, <3>1, ReturnNothing
  <2>4. CASE ~IsEmpty(Top.parts)
    <3>1. a \in Seq(T) /\ HaveDocs(T) /\ \A i \in 1 .. Len(a) : IsRedir(a[i]) \/ a[i].docs = <<>>
      BY <2>1, TopFacts DEF Good
    <3>2. DocsOf(a) = DocsOf(Top.parts) \o value.tree.docs
      BY <2>1, DocsUnchanged
    <3>3. Return(Some(n))
      BY <1>4, <2>4
    <3> HIDE DEF a
    <3>4. p \in Seq(T) /\ n = Node("simple", p) /\ DocsOf(p) = DocsOf(a)
      BY <3>1, SimpleNodeDocs
    <3> HIDE DEF n
    <3>5. "simple" \in NodeName
      BY DEF NodeName
    <3> HIDE DEF p
    <3>6. Return(Some(Node("simple", p)))
      BY <3>3, <3>4
    <3>7. QED
      BY <2>2, <3>2, <3>4, <3>5, <3>6, ReturnNode
  <2>5. QED
    BY <2>3, <2>4
<1>5. QED
  BY <1>1, <1>2, <1>3, <1>4, AtFacts DEF SimpleCommand, Proceeds

LEMMA ArraySegment ==
  ASSUME NEW T, Trees(T)
  PROVE  Segment(T, <<Frame("array.open")>>, "array", <<>>)
BY FreshOne, RolesOfFresh DEF FreshPlace

LEMMA WordStep ==
  ASSUME NEW T, Fitted(T), Here \in Nat, SimpleCommandWord
  PROVE  Proceeds \/ Stops
<1>1. /\ \A kind \in Token : Leaf(kind) \in T
      /\ Leaf("scalar") \in T /\ Leaf("scalar").docs = <<>>
      /\ token.kind \in Token => WordTree \in T /\ WordTree.docs = <<>>
  <2>1. "scalar" \in NodeName
    BY DEF NodeName
  <2>2. Leaf("scalar") \in T
    BY <2>1 DEF Fitted, Trees
  <2>3. QED
    BY <2>2, KindFacts, TokenTrees DEF Fitted
<1>2. ASSUME NEW l \in SimplePlace, At(l, Token), Substitute, Applies(token, l = "simple"),
             IF IsEmpty(Top.parts) THEN Return(AliasSubstituted) ELSE Go(Top)
      PROVE  Proceeds
  <2>1. /\ outcome = "none" /\ Top.at = l /\ value.tag # "Some" /\ value.tree = NoTree
        /\ token.kind \in DOMAIN Alias
    BY <1>2, AtFacts, TopFacts DEF Applies, aliases
  <2>2. Role(Top.at) = "other" /\ Active(Top)
    BY <2>1, SimplePlaces DEF Active
  <2>3. CASE IsEmpty(Top.parts)
    <3>1. DocsOf(Top.parts) = <<>>
      BY <2>3, DocsOfNone DEF IsEmpty
    <3>2. KeptStep(<<>>)
      BY <1>2, <2>1, <2>2, <2>3, <3>1, ReturnNothing
    <3>3. QED
      BY <1>2, <2>1, <3>2 DEF Proceeds, Substitutes
  <2>4. CASE ~IsEmpty(Top.parts)
    <3>1. KeptStep(<<>>)
      BY <1>2, <2>1, <2>2, <2>4, GoAgain
    <3>2. QED
      BY <1>2, <2>1, <3>1 DEF Proceeds, Substitutes
  <2>5. QED
    BY <2>3, <2>4
<1>3. ASSUME NEW l \in SimplePlace, At(l, Token), NEW m \in SimplePlace,
             NEW t \in T, t.docs = <<>>, Go(With(m, t))
      PROVE  KeptStep(<<>>)
  <2>1. Top.at \in SimplePlace /\ value.tree.docs = <<>>
    BY <1>3, AtFacts, TopFacts, NoTreeDocs
  <2>2. QED
    BY <1>3, <2>1, SimpleJoined
<1>4. ASSUME NEW l \in SimplePlace, At(l, Token), NEW t \in T, t.docs = <<>>,
             Call(With(l, t), <<Frame("array.open")>>)
      PROVE  KeptStep(<<>>)
  <2> DEFINE f == With(l, t)
             s == <<Frame("array.open")>>
  <2>1. Top.at \in SimplePlace /\ value.tree.docs = <<>>
    BY <1>4, AtFacts, TopFacts, NoTreeDocs
  <2>2. /\ f \in FrameOf(T) /\ Role(f.at) = Role(Top.at) /\ Good(f.at, f.parts) /\ Waiting(f)
        /\ DocsOf(f.parts) = DocsOf(Top.parts) \o value.tree.docs /\ Calls(f, "array")
    <3>1. GoesOn(T, l, t)
      BY <1>4, <2>1, SimpleExtended
    <3>2. QED
      BY <1>4, <3>1 DEF GoesOn
  <2>3. Segment(T, s, "array", <<>>)
    BY ArraySegment DEF Fitted
  <2>4. Call(f, s)
    BY <1>4
  <2> HIDE DEF f, s
  <2>5. QED
    BY <2>2, <2>3, <2>4, CallStep DEF Fitted
<1>5. ASSUME NEW l \in SimplePlace, At(l, Token),
             CASE l = "simple" /\ token.kind = "assign" -> Go(With(l, Leaf("scalar")))
               [] l = "simple" /\ token.kind = "array" ->
                    Call(With(l, Leaf("scalar")), <<Frame("array.open")>>)
               [] OTHER -> Go(With("arguments", WordTree))
      PROVE  KeptStep(<<>>)
  <2>1. token.kind \in Token /\ "arguments" \in SimplePlace
    BY <1>5, AtFacts DEF SimplePlace
  <2>2. \/ Go(With(l, Leaf("scalar")))
        \/ Call(With(l, Leaf("scalar")), <<Frame("array.open")>>)
        \/ Go(With("arguments", WordTree))
    BY <1>5
  <2>3. QED
    BY <1>1, <1>3, <1>4, <1>5, <2>1, <2>2
<1>6. ASSUME NEW l \in SimplePlace, At(l, Token), Take, KeptStep(<<>>)
      PROVE  Proceeds
  BY <1>6, AtFacts, KindFacts DEF Proceeds, Consumes
<1>7. QED
  BY <1>2, <1>5, <1>6 DEF SimpleCommandWord

-----------------------------------------------------------------------------
(* Arrays and redirections have no here-document before the last part.     *)

BarePlace == RedirPlace \cup ArrayPlace

LEMMA BarePlaces ==
  ASSUME NEW l \in BarePlace
  PROVE  /\ l \in Place \cap NoDocsPlace
         /\ Role(l) = IF l \in RedirPlace THEN "redirection" ELSE "array"
         /\ \A parts : DocsOf(parts) = <<>> => Good(l, parts)
         /\ l # "do"
<1>1. l \in Place \cap NoDocsPlace
  BY DEF BarePlace, Place, NoDocsPlace
<1>2. l \notin LinePlace \cup ListPlace /\ (l \in RedirPlace => l \notin ArrayPlace)
  BY DEF BarePlace, LinePlace, ListPlace, RedirPlace, ArrayPlace
<1>3. Role(l) = IF l \in RedirPlace THEN "redirection" ELSE "array"
  BY <1>2 DEF Role, BarePlace
<1>4. l \notin {"command_line", "command", "command_line.end", "function", "list.separator", "do"}
               \cup SimplePlace
  BY DEF BarePlace, RedirPlace, ArrayPlace, SimplePlace
<1>5. \A parts : DocsOf(parts) = <<>> => Good(l, parts)
  BY <1>4 DEF Good
<1>6. QED
  BY <1>1, <1>3, <1>4, <1>5

LEMMA BareGo ==
  ASSUME NEW T, Fitted(T), Here \in Nat, value.tag # "Some",
         Top.at \in BarePlace, NEW m \in BarePlace, Role(m) = Role(Top.at),
         NEW parts \in Seq(T), DocsOf(parts) = <<>>, NEW f, IsAt(f, m, parts), Go(f)
  PROVE  KeptStep(<<>>)
<1>1. f \in FrameOf(T) /\ f.at = m /\ f.parts = parts
  BY BarePlaces, IsAtFields
<1>2. Good(f.at, f.parts) /\ Active(f)
  BY <1>1, BarePlaces DEF Active
<1>3. DocsOf(Top.parts) = <<>>
  BY TopFacts, BarePlaces DEF Good
<1>4. DocsOf(f.parts) = DocsOf(Top.parts) \o value.tree.docs
  BY <1>1, <1>3, TopFacts, DocsUnchanged
<1>5. QED
  BY <1>1, <1>2, <1>4, GoStep DEF Fitted

LEMMA BareOn ==
  ASSUME NEW T, Fitted(T), Here \in Nat, value.tag # "Some",
         Top.at \in BarePlace, NEW m \in BarePlace, Role(m) = Role(Top.at),
         \/ Go(To(m)) \/ Go([To(m) EXCEPT !.open = Here])
         \/ \E t \in T : t.docs = <<>> /\ Go(With(m, t))
  PROVE  KeptStep(<<>>)
<1>1. Top.parts \in Seq(T) /\ DocsOf(Top.parts) = <<>>
  BY TopFacts, BarePlaces DEF Good
<1>2. CASE Go(To(m)) \/ Go([To(m) EXCEPT !.open = Here])
  <2>1. PICK f : IsAt(f, m, Top.parts) /\ Go(f)
    BY <1>2, TopUpdates
  <2>2. QED
    BY <1>1, <2>1, BareGo
<1>3. ASSUME NEW t \in T, t.docs = <<>>, Go(With(m, t))
      PROVE  KeptStep(<<>>)
  <2> DEFINE parts == Append(Top.parts, t)
             f == With(m, t)
  <2>1. IsAt(f, m, parts)
    BY TopUpdates
  <2>2. t.docs = value.tree.docs
    BY <1>3, TopFacts, NoTreeDocs
  <2>3. parts \in Seq(T) /\ DocsOf(parts) = DocsOf(Top.parts) \o value.tree.docs
    BY <2>2, DocsExtended DEF Fitted
  <2>4. DocsOf(parts) = <<>>
    BY <1>1, <2>3, TopFacts, DocsUnchanged
  <2> HIDE DEF parts, f
  <2>5. QED
    BY <1>3, <2>1, <2>3, <2>4, BareGo DEF f
<1>4. QED
  BY <1>2, <1>3

LEMMA ArrayStep ==
  ASSUME NEW T, Fitted(T), Here \in Nat, ArrayValues
  PROVE  Proceeds \/ Stops
<1>1. {"array.open", "array"} \subseteq BarePlace /\ Role("array.open") = "array" /\ Role("array") = "array"
  <2>1. {"array.open", "array"} \subseteq BarePlace /\ {"array.open", "array"} \cap RedirPlace = {}
    BY DEF BarePlace, ArrayPlace, RedirPlace
  <2>2. QED
    BY <2>1, BarePlaces
<1>2. Token \cup {"(", ")", Newline} \subseteq Kind \ {EndOfInput}
  BY KindFacts DEF Operator
<1>3. ASSUME At("array.open", {"("}), Go([To("array") EXCEPT !.open = Here])
      PROVE  KeptStep(<<>>)
  <2>1. Top.at = "array.open" /\ value.tag # "Some"
    BY <1>3, AtFacts
  <2>2. QED
    BY <1>1, <1>3, <2>1, BareOn
<1>4. ASSUME At("array.open", Kind \ {"("}), Return(None)
      PROVE  KeptStep(<<>>)
  <2>1. Top.at = "array.open" /\ value.tag # "Some"
    BY <1>4, AtFacts
  <2>2. DocsOf(Top.parts) = <<>> /\ Role(Top.at) # "line"
    BY <1>1, <2>1, TopFacts, BarePlaces DEF Good
  <2>3. QED
    BY <1>4, <2>1, <2>2, TopFacts, ReturnNothing
<1>5. ASSUME At("array", Token), Go(With("array", WordTree))
      PROVE  KeptStep(<<>>)
  <2>1. Top.at = "array" /\ value.tag # "Some" /\ token.kind \in Token
    BY <1>5, AtFacts
  <2>2. WordTree \in T /\ WordTree.docs = <<>>
    BY <2>1, TokenTrees DEF Fitted
  <2>3. QED
    BY <1>1, <1>5, <2>1, <2>2, BareOn
<1>6. ASSUME At("array", {Newline}), Go(Top)
      PROVE  KeptStep(<<>>)
  <2>1. Top.at = "array" /\ value.tag # "Some"
    BY <1>6, AtFacts
  <2>2. Active(Top)
    BY <1>1, <2>1, BarePlaces DEF Active
  <2>3. QED
    BY <1>6, <2>1, <2>2, GoAgain
<1>7. ASSUME At("array", {")"}), Return(Made("values"))
      PROVE  KeptStep(<<>>)
  <2> DEFINE parts == Top.parts
  <2>1. Top.at = "array" /\ value.tag # "Some" /\ parts \in Seq(T)
    BY <1>7, AtFacts, TopFacts
  <2>2. DocsOf(parts) = <<>> /\ Role(Top.at) = "array"
    BY <1>1, <2>1, TopFacts, BarePlaces DEF Good
  <2>3. DocsOf(parts) = DocsOf(Top.parts) \o value.tree.docs
    BY <2>1, TopFacts, DocsUnchanged
  <2>4. "values" \in NodeName
    BY DEF NodeName
  <2>5. Return(Some(Node("values", parts)))
    BY <1>7 DEF Made
  <2> HIDE DEF parts
  <2>6. QED
    BY <2>1, <2>2, <2>3, <2>4, <2>5, ReturnNode
<1>8. QED
  BY <1>2, <1>3, <1>4, <1>5, <1>6, <1>7, AtFacts, ErrorStops DEF ArrayValues, Proceeds, Consumes

LEMMA RedirStep ==
  ASSUME NEW T, Fitted(T), Here \in Nat, Redirection
  PROVE  Proceeds \/ Stops
<1>1. RedirPlace \subseteq BarePlace /\ \A l \in RedirPlace : Role(l) = "redirection"
  BY BarePlaces DEF BarePlace
<1>2. {"redir", "redir.body", "redir.operand", "redir.delimiter"} \subseteq RedirPlace
  BY DEF RedirPlace
<1>3. {IoNumber, "<", "<<"} \subseteq Kind \ {EndOfInput}
  BY KindFacts DEF Operator, RedirOp
<1>4. ASSUME At("redir", {IoNumber}), Go(With("redir.body", Leaf(IoNumber)))
      PROVE  KeptStep(<<>>)
  <2>1. Top.at = "redir" /\ value.tag # "Some"
    BY <1>4, AtFacts
  <2>2. Leaf(IoNumber) \in T /\ Leaf(IoNumber).docs = <<>>
    BY <1>3, TokenTrees DEF Fitted
  <2>3. QED
    BY <1>1, <1>2, <1>4, <2>1, <2>2, BareOn
<1>5. ASSUME At("redir", Kind \ {IoNumber}), Go(To("redir.body"))
      PROVE  KeptStep(<<>>)
  <2>1. Top.at = "redir" /\ value.tag # "Some"
    BY <1>5, AtFacts
  <2>2. QED
    BY <1>1, <1>2, <1>5, <2>1, BareOn
<1>6. ASSUME NEW kinds, At("redir.body", kinds), NEW m \in RedirPlace,
             Go([To(m) EXCEPT !.open = Here])
      PROVE  KeptStep(<<>>)
  <2>1. Top.at = "redir.body" /\ value.tag # "Some"
    BY <1>6, AtFacts
  <2>2. QED
    BY <1>1, <1>2, <1>6, <2>1, BareOn
<1>7. ASSUME NEW kinds, At("redir.body", kinds), Return(None)
      PROVE  KeptStep(<<>>)
  <2>1. Top.at = "redir.body" /\ value.tag # "Some"
    BY <1>7, AtFacts
  <2>2. DocsOf(Top.parts) = <<>> /\ Role(Top.at) # "line"
    BY <1>1, <1>2, <2>1, TopFacts, BarePlaces DEF Good
  <2>3. QED
    BY <1>7, <2>1, <2>2, TopFacts, ReturnNothing
<1>8. ASSUME At("redir", {IoNumber}), Take, NEW e, EndWith("file descriptor out of range", e)
      PROVE  Stops
  BY <1>3, <1>8, AtFacts DEF EndWith, Stops, Failure
<1>9. QED
  BY <1>2, <1>3, <1>4, <1>5, <1>6, <1>7, <1>8, AtFacts DEF Redirection, Proceeds, Consumes

(* A here-document operator is parsed: its content is to be read.          *)
NextNumber == Len(read) + Len(unread) + 1
Memorizes == /\ outcome = "none" /\ KeptStep(<<NextNumber>>)
             /\ TakeRaw /\ Memorized(NextNumber) /\ UNCHANGED read
             /\ token.kind \in Kind \ {EndOfInput, Newline}

LEMMA WordsAreNoLines == Newline \notin Token \cup {IoNumber}
BY AliasAssumption DEF Token, Word, Keyword, Newline, Operator, IoNumber, RedirOp

LEMMA OperandStep ==
  ASSUME NEW T, Fitted(T), Here \in Nat, NextNumber \in Nat, RedirectionOperand
  PROVE  Proceeds \/ Memorizes \/ Stops
<1>1. RedirPlace \subseteq BarePlace /\ \A l \in RedirPlace : Role(l) = "redirection"
  BY BarePlaces DEF BarePlace
<1>2. {"redir.operand", "redir.delimiter"} \subseteq RedirPlace
  BY DEF RedirPlace
<1>3. Token \cup {IoNumber} \subseteq Kind \ {EndOfInput} /\ RedirOp \subseteq NodeName
  BY KindFacts DEF NodeName, Operator
<1>4. ASSUME NEW l \in {"redir.operand", "redir.delimiter"}, At(l, Token \cup {IoNumber})
      PROVE  /\ Append(Top.parts, WordTree) \in Seq(T)
             /\ DocsOf(Append(Top.parts, WordTree)) = DocsOf(Top.parts) \o value.tree.docs
             /\ DocsOf(Top.parts) \o value.tree.docs = <<>>
             /\ Role(Top.at) = "redirection"
  <2>1. Top.at = l /\ value.tag # "Some" /\ token.kind \in Token \cup {IoNumber}
    BY <1>4, AtFacts
  <2>2. WordTree \in T /\ WordTree.docs = <<>>
    BY <2>1, TokenTrees DEF Fitted
  <2>3. Top.at \in BarePlace /\ Role(Top.at) = "redirection"
    BY <1>1, <1>2, <2>1
  <2>4. DocsOf(Top.parts) = <<>> /\ value.tree.docs = <<>>
    BY <2>1, <2>3, TopFacts, BarePlaces, NoTreeDocs DEF Good
  <2>5. DocsOf(Top.parts) \o value.tree.docs = <<>>
    BY <2>1, <2>4, TopFacts, DocsUnchanged
  <2>6. WordTree.docs = value.tree.docs
    BY <2>2, <2>4
  <2> DEFINE w == WordTree
  <2>7. w \in T /\ w.docs = value.tree.docs
    BY <2>2, <2>6
  <2> HIDE DEF w
  <2>8. /\ Append(Top.parts, w) \in Seq(T)
        /\ DocsOf(Append(Top.parts, w)) = DocsOf(Top.parts) \o value.tree.docs
    BY <2>7, DocsExtended DEF Fitted
  <2>9. QED
    BY <2>3, <2>5, <2>8 DEF w
<1>5. ASSUME At("redir.operand", Token \cup {IoNumber}),
             Return(Some(Node("<", Append(Top.parts, WordTree))))
      PROVE  KeptStep(<<>>)
  <2> DEFINE parts == Append(Top.parts, WordTree)
  <2>1. /\ parts \in Seq(T) /\ DocsOf(parts) = DocsOf(Top.parts) \o value.tree.docs
        /\ Role(Top.at) = "redirection"
    BY <1>4, <1>5
  <2>2. "<" \in NodeName /\ "<" \in RedirOp
    BY <1>3 DEF RedirOp
  <2> HIDE DEF parts
  <2>3. QED
    BY <1>5, <2>1, <2>2, ReturnNode DEF parts
<1>6. ASSUME At("redir.delimiter", Token \cup {IoNumber}),
             Return(Some(HereDocNode(Append(Top.parts, WordTree), NextNumber)))
      PROVE  KeptStep(<<NextNumber>>)
  <2> DEFINE parts == Append(Top.parts, WordTree)
             docs == <<NextNumber>>
             t == [node |-> "<<", parts |-> parts, docs |-> docs]
             U == T \cup {t}
             w == Some(t)
  <2>1. /\ parts \in Seq(T) /\ DocsOf(Top.parts) \o value.tree.docs = <<>>
        /\ Role(Top.at) = "redirection"
    BY <1>4, <1>6
  <2>2. docs \in Seq(Nat)
    OBVIOUS
  <2>3. "<<" \in NodeName /\ "<<" \in RedirOp
    BY <1>3 DEF RedirOp
  <2>4. HereDocNode(parts, NextNumber) = t
    <3> HIDE DEF parts
    <3>1. Node("<<", parts) = [node |-> "<<", parts |-> parts, docs |-> DocsOf(parts)]
      BY NodeFields
    <3>2. QED
      BY <3>1 DEF HereDocNode
  <2> HIDE DEF parts, docs
  <2>5. Trees(U)
    BY <2>1, <2>2, <2>3, OneMoreTree DEF Fitted
  <2>6. w \in ValueOf(U) /\ w # NoValue /\ w.tree = t /\ w.tag = "Some"
    BY DEF ValueOf, Some, NoValue
  <2>7. t.node = "<<" /\ t.docs = docs /\ T \subseteq U
    OBVIOUS
  <2>8. Return(w)
    BY <1>6, <2>4 DEF parts
  <2> HIDE DEF t, w, U
  <2>9. Returnable(Top.at, w)
    BY <2>1, <2>3, <2>6, <2>7 DEF Returnable, IsRedir
  <2>10. w.tree.docs = (DocsOf(Top.parts) \o value.tree.docs) \o docs
    <3>1. <<>> \o docs = docs
      BY <2>2, ConcatEmptySeq
    <3>2. QED
      BY <2>1, <2>6, <2>7, <3>1
  <2>11. KeptStep(docs)
    BY <2>1, <2>2, <2>5, <2>6, <2>7, <2>8, <2>9, <2>10, ReturnStep
  <2>12. QED
    BY <2>11 DEF docs
<1>7. ASSUME NEW l, At(l, Kind \ (Token \cup {IoNumber})), Take, NEW cause, NEW place, FailAt(cause, place)
      PROVE  Stops
  BY <1>7, AtFacts, ErrorStops
<1>8. QED
  BY <1>3, <1>5, <1>6, <1>7, AtFacts, WordsAreNoLines
     DEF RedirectionOperand, Proceeds, Consumes, Memorizes, NextNumber

-----------------------------------------------------------------------------
(* Functions, substitutions and newlines                                   *)

LEMMA FunctionStep ==
  ASSUME NEW T, Fitted(T), Here \in Nat, ShortFunctionDefinition
  PROVE  Proceeds \/ Stops
<1>1. {"function.close", "function.body"} \subseteq PlainPlace
  BY DEF PlainPlace
<1>2. /\ Role("function") = "other" /\ Role("function.close") = "other"
      /\ Role("function.body") = "other"
  <2>1. Role("function") = "other"
    BY DEF Role, LinePlace, ListPlace, RedirPlace, ArrayPlace
  <2>2. QED
    BY <1>1, <2>1, PlainPlaces
<1>3. "function" \in NodeName /\ {"(", ")"} \subseteq Kind \ {EndOfInput}
  BY KindFacts DEF NodeName, Operator
<1>4. ASSUME Running, Top.at = "function", IsOneWord(Top.parts[1]),
             Go([Top EXCEPT !.at = "function.close", !.parts = Top.parts[1].parts])
      PROVE  KeptStep(<<>>)
  <2> DEFINE f == Top
             a == f.parts
             t == a[1]
             p == t.parts
             m == "function.close"
             g == [f EXCEPT !.at = m, !.parts = p]
  <2>1. a \in Seq(T) /\ Len(a) = 1 /\ HaveDocs(T) /\ value.tag # "Some"
    BY <1>4, TopFacts DEF Good, Running, NoValue
  <2>2. t \in T /\ DocsOf(a) = t.docs /\ t.node = "simple"
    BY <1>4, <2>1, SingleDocs DEF IsOneWord
  <2>3. p \in Seq(T) /\ t.docs = DocsOf(p)
    BY <2>2, TreeFields DEF Fitted
  <2>4. DocsOf(p) = DocsOf(Top.parts) \o value.tree.docs
    BY <2>1, <2>2, <2>3, TopFacts, DocsUnchanged
  <2>5. IsAt(f, f.at, f.parts)
    BY TopUpdates
  <2> HIDE DEF p
  <2>6. IsAt(g, m, p)
    <3> HIDE DEF f
    <3>1. QED
      BY <2>5, IsAtAgain
  <2>7. Go(g)
    BY <1>4 DEF p
  <2> HIDE DEF g
  <2>8. g \in FrameOf(T) /\ g.at = m /\ g.parts = p
    BY <1>1, <2>3, <2>6, PlainPlaces, IsAtFields
  <2>9. Good(g.at, g.parts) /\ Active(g)
    BY <1>1, <2>8, PlainFrames
  <2>10. QED
    BY <1>2, <1>4, <2>4, <2>7, <2>8, <2>9, GoStep DEF Fitted
<1>5. ASSUME Running, Top.at = "function", Return(Some(Top.parts[1]))
      PROVE  KeptStep(<<>>)
  <2> DEFINE t == Top.parts[1]
  <2>1. Top.parts \in Seq(T) /\ Len(Top.parts) = 1 /\ HaveDocs(T) /\ value.tag # "Some"
    BY <1>5, TopFacts DEF Good, Running, NoValue
  <2>2. t \in T /\ DocsOf(Top.parts) = t.docs
    BY <2>1, SingleDocs
  <2>3. t.docs = DocsOf(Top.parts) \o value.tree.docs
    BY <2>1, <2>2, TopFacts, DocsUnchanged
  <2>4. Role(Top.at) # "line" /\ Returnable(Top.at, Some(t))
    BY <1>2, <1>5 DEF Returnable
  <2> HIDE DEF t
  <2>5. QED
    BY <1>5, <2>2, <2>3, <2>4, ReturnTree DEF Fitted, t
<1>6. ASSUME At("function.close", {")"}), Go(To("function.body"))
      PROVE  KeptStep(<<>>)
  BY <1>1, <1>2, <1>6, AtFacts, GoOn
<1>7. ASSUME At("function.body", OpeningToken), Call(Top, FullCompound)
      PROVE  KeptStep(<<>>)
  <2>1. Segment(T, FullCompound, "other", <<>>)
    BY FullCompoundSegment DEF Fitted
  <2>2. Top.at = "function.body" /\ value.tag # "Some" /\ Role(Top.at) = "other"
    BY <1>2, <1>7, AtFacts
  <2>3. QED
    BY <1>1, <1>7, <2>1, <2>2, CallOn DEF InnerPlace
<1>8. ASSUME Returned("function.body", "Some"),
             Return(Some(Node("function", Append(Top.parts, value.tree))))
      PROVE  KeptStep(<<>>)
  BY <1>2, <1>3, <1>8, AtFacts, ReturnExtended
<1>9. ASSUME Running, Top.at = "function",
             IF IsOneWord(Top.parts[1]) /\ token.kind = "("
             THEN Take /\ Go([Top EXCEPT !.at = "function.close", !.parts = Top.parts[1].parts])
             ELSE Peek /\ Return(Some(Top.parts[1]))
      PROVE  Proceeds
  BY <1>3, <1>4, <1>5, <1>9 DEF Proceeds, Consumes, Running
<1>10. ASSUME NEW l, NEW kinds \in SUBSET Kind, At(l, kinds), Take, NEW cause, Fail(cause)
       PROVE  Stops
  BY <1>10, AtFacts, ErrorStops
<1>11. ASSUME At("function.close", Kind \ {")"}), Take, Fail("UnmatchedParenthesis")
       PROVE  Stops
  BY <1>10, <1>11
<1>12. ASSUME At("function.body", Kind \ (OpeningToken \cup {Newline})), Take,
              Fail(IF token.kind \in Token THEN "InvalidFunctionBody" ELSE "MissingFunctionBody")
       PROVE  Stops
  BY <1>10, <1>12
<1>13. QED
  BY <1>3, <1>6, <1>7, <1>8, <1>9, <1>11, <1>12, AtFacts
     DEF ShortFunctionDefinition, Proceeds, Consumes

LEMMA AutoStep ==
  ASSUME NEW T, Fitted(T), Here \in Nat, TakeTokenAuto
  PROVE  Proceeds \/ Stops
<1>1. /\ value.tag # "Some" /\ value = NoValue /\ outcome = "none" /\ Substitute
      /\ token.kind \in DOMAIN Alias
  BY DEF TakeTokenAuto, Running, NoValue, SubstitutesHere, Applies, aliases
<1>2. KeptStep(<<>>)
  <2>1. CASE Top.at = "case.in"
    <3>1. {"case.in", "case.in.auto"} \subseteq PlainPlace
      BY DEF PlainPlace, ClausePlace
    <3>2. Role(Top.at) = "other"
      BY <2>1, <3>1, PlainPlaces
    <3>3. Go(To("case.in.auto"))
      BY <2>1 DEF TakeTokenAuto
    <3>4. QED
      BY <1>1, <3>1, <3>2, <3>3, GoOn
  <2>2. CASE Top.at # "case.in"
    <3>1. Go(Top)
      BY <2>2 DEF TakeTokenAuto
    <3>2. QED
      BY <1>1, <3>1, TopFacts, GoAgain
  <2>3. QED
    BY <2>1, <2>2
<1>3. QED
  BY <1>1, <1>2 DEF Proceeds, Substitutes

LEMMA SkipStep ==
  ASSUME NEW T, Fitted(T), Here \in Nat, SkipNewline
  PROVE  Proceeds \/ Stops
<1>1. PICK l \in NewlinePlace :
        At(l, {Newline}) /\ TakeNewline /\ Go(To(IF l = "for.in" THEN "for.in.next" ELSE l))
  BY DEF SkipNewline
<1>2. Top.at = l /\ value = NoValue /\ value.tag # "Some" /\ outcome = "none"
      /\ token.kind \in Kind \ {EndOfInput}
  BY <1>1, AtFacts, KindFacts
<1>3. KeptStep(<<>>)
  <2>1. CASE l = "for.in"
    <3>1. {"for.in", "for.in.next"} \subseteq PlainPlace
      BY DEF PlainPlace, ClausePlace
    <3>2. Role(Top.at) = "other" /\ Go(To("for.in.next"))
      BY <1>1, <1>2, <2>1, <3>1, PlainPlaces
    <3>3. QED
      BY <1>2, <3>1, <3>2, GoOn
  <2>2. CASE l # "for.in"
    BY <1>1, <1>2, <2>2, GoSame
  <2>3. QED
    BY <2>1, <2>2
<1>4. QED
  BY <1>1, <1>2, <1>3 DEF Proceeds, Skips

-----------------------------------------------------------------------------
(* What any step is                                                        *)

LEMMA PollSteps ==
  ASSUME NEW T, Fitted(T), Here \in Nat, NextNumber \in Nat, Poll
  PROVE  \/ Proceeds \/ Memorizes \/ Stops \/ Completes
         \/ RequireToken \/ LexerFails \/ NewlineFails
<1>1. TakeTokenAuto \/ SkipNewline \/ Retry \/ PassOn => Proceeds \/ Stops
  BY AutoStep, SkipStep, RetryStep, PassOnStep
<1>2. CommandLine \/ MaybeCompoundList \/ ListItem => Proceeds \/ Stops \/ Completes
  BY CommandLineStep, CompoundListStep, ListStep
<1>3. AndOr \/ PipelineParts \/ CommandKind \/ SimpleCommand \/ SimpleCommandWord => Proceeds \/ Stops
  BY AndOrStep, PipelineStep, CommandKindStep, SimpleStep, WordStep
<1>4. ArrayValues \/ ShortFunctionDefinition \/ Redirection => Proceeds \/ Stops
  BY ArrayStep, FunctionStep, RedirStep
<1>5. RedirectionOperand => Proceeds \/ Memorizes \/ Stops
  BY OperandStep
<1>6. CompoundCommand \/ FullCompoundCommand \/ Close \/ WhileLoop => Proceeds \/ Stops
  BY CompoundStep, FullStep, CloseStep, WhileStep
<1>7. IfCommand \/ ForLoop \/ CaseCommand \/ CaseItem => Proceeds \/ Stops
  BY IfStep, ForStep, CaseStep, CaseItemStep
<1>8. QED
  BY <1>1, <1>2, <1>3, <1>4, <1>5, <1>6, <1>7 DEF Poll

-----------------------------------------------------------------------------
(* The invariant                                                           *)

Tokens == [kind : Kind, from : SUBSET DOMAIN Alias]
LexerOK == /\ source \in Source
           /\ fed \in 0 .. source.max + 1
           /\ token \in Tokens \cup {NoToken}
           /\ ahead \in Seq(Tokens)
           /\ taken \in Seq(Kind)
           /\ line \in Nat
           /\ outcome = "none" /\ fed = source.max + 1 => token.kind = EndOfInput

HereDocsOK == unread \in Seq(HereDoc) /\ read \in Seq(Nat)

OutcomeOK == outcome \in {"none", "list"} \cup Failure

(* Here-documents have the numbers in which their operators come: those    *)
(* that have been read, those that are still to be, and those in the trees *)
(* that the functions are making.                                          *)
UpTo(n) == [i \in 1 .. n |-> i]
Numbered == /\ read = UpTo(Len(read))
            /\ \A i \in 1 .. Len(unread) : unread[i].number = Len(read) + i
            /\ AllDocs(stack, value) = UpTo(Len(read) + Len(unread))

(* The tree of the command line is the only part of the last frame.        *)
Finished == /\ Len(stack) = 1 /\ Len(stack[1].parts) = 1
            /\ value = NoValue
            /\ unread = <<>>

IInv == /\ LexerOK /\ HereDocsOK /\ OutcomeOK
        /\ \E T : Fitted(T)
        /\ outcome \in {"none", "list"} => Numbered
        /\ outcome = "list" => Finished

LEMMA UpToFacts ==
  ASSUME NEW n \in Nat
  PROVE  /\ UpTo(n) \in Seq(Nat) /\ Len(UpTo(n)) = n
         /\ \A i \in 1 .. n : UpTo(n)[i] = i
<1>1. UpTo(n) \in [1 .. n -> Nat]
  BY DEF UpTo
<1>2. \A i \in 1 .. n : UpTo(n)[i] = i
  BY DEF UpTo
<1> HIDE DEF UpTo
<1>3. UpTo(n) \in Seq(Nat) /\ Len(UpTo(n)) = n
  BY <1>1
<1>4. QED
  BY <1>2, <1>3

LEMMA UpToNone == UpTo(0) = <<>>
<1>1. Len(UpTo(0)) = 0 /\ UpTo(0) \in Seq(Nat)
  BY UpToFacts
<1>2. QED
  BY <1>1, EmptySeq

LEMMA UpToMore ==
  ASSUME NEW n \in Nat, NEW m \in Nat, NEW s \in Seq(Nat), Len(s) = m,
         \A i \in 1 .. m : s[i] = n + i
  PROVE  UpTo(n) \o s = UpTo(n + m)
<1> DEFINE r == UpTo(n)
           q == UpTo(n + m)
           k == n + m
<1>1. r \in Seq(Nat) /\ Len(r) = n /\ \A i \in 1 .. n : r[i] = i
  BY UpToFacts
<1>2. k \in Nat
  OBVIOUS
<1>3. q \in Seq(Nat) /\ Len(q) = k /\ \A i \in 1 .. k : q[i] = i
  BY <1>2, UpToFacts
<1> HIDE DEF r, q
<1>4. r \o s \in Seq(Nat) /\ Len(r \o s) = k
  BY <1>1, ConcatProperties
<1>5. \A i \in 1 .. k : (r \o s)[i] = IF i <= n THEN r[i] ELSE s[i - n]
  BY <1>1, ConcatProperties
<1>6. ASSUME NEW i \in 1 .. k
      PROVE  (r \o s)[i] = q[i]
  <2>1. CASE i <= n
    BY <1>1, <1>3, <1>5, <2>1
  <2>2. CASE ~(i <= n)
    <3> DEFINE j == i - n
    <3>1. j \in 1 .. m /\ n + j = i
      BY <2>2
    <3>2. s[j] = n + j
      BY <3>1
    <3>3. (r \o s)[i] = s[j]
      BY <1>5, <2>2
    <3>4. QED
      BY <1>3, <3>1, <3>2, <3>3
  <2>3. QED
    BY <2>1, <2>2
<1>7. QED
  BY <1>3, <1>4, <1>6, SeqEqual DEF r, q

LEMMA InitInvariant == Init => IInv
<1> SUFFICES ASSUME Init PROVE IInv
  OBVIOUS
<1> DEFINE T == {Leaf(name) : name \in NodeName}
           f == Frame("command_line")
           e == <<>>
           s == <<f>> \o List
<1>1. Trees(T)
  BY LeavesAreTrees
<1> HIDE DEF T
<1>2. "command_line" \in Place /\ Role("command_line") = "line"
  <2>1. "command_line" \in Place
    BY DEF Place, LinePlace
  <2>2. Role("command_line") = "line"
    BY DEF Role, LinePlace, ListPlace, RedirPlace, ArrayPlace
  <2>3. QED
    BY <2>1, <2>2
<1>3. e \in Seq(T) /\ DocsOf(e) = <<>> /\ e = <<>> /\ Len(e) = 0
  BY DocsOfNone
<1> HIDE DEF e
<1>4. IsAt(f, "command_line", e)
  BY <1>3 DEF IsAt, Frame
<1> HIDE DEF f
<1> DEFINE l == "command_line"
<1> HIDE DEF l
<1>15. l \in Place /\ e \in Seq(T) /\ IsAt(f, l, e)
  BY <1>2, <1>3, <1>4 DEF l
<1>16. f \in FrameOf(T) /\ f.at = l /\ f.parts = e
  BY <1>15, IsAtFields
<1>5. f \in FrameOf(T) /\ f.at = "command_line" /\ f.parts = e
  BY <1>16 DEF l
<1>6. Good(f.at, f.parts) /\ Waiting(f) /\ Calls(f, "list")
  BY <1>3, <1>5 DEF Good, Waiting, Calls, SimplePlace, NoDocsPlace, RedirPlace, ArrayPlace, InnerPlace
<1>7. Segment(T, List, "list", <<>>)
  BY <1>1, ListSegment
<1>8. Segment(T, s, "line", <<>>)
  <2>1. Segment(T, <<f>> \o List, Role(f.at), DocsOf(f.parts))
    BY <1>1, <1>5, <1>6, <1>7, SegmentOfCall
  <2>2. QED
    BY <1>2, <1>3, <1>5, <2>1
<1>9. stack = s /\ value = NoValue
  BY DEF Init, f
<1> HIDE DEF s
<1>10. Fitted(T)
  <2>1. Typed(T, s, NoValue)
    BY <1>8 DEF Segment, Typed, ValueOf
  <2>2. StackOK(s, NoValue)
    BY <1>8 DEF Segment, StackOK
  <2>3. QED
    BY <1>1, <1>9, <2>1, <2>2 DEF Fitted
<1>11. Numbered
  <2>1. read = <<>> /\ unread = <<>> /\ Len(read) = 0 /\ Len(unread) = 0
    BY DEF Init
  <2>2. AllDocs(stack, value) = <<>>
    <3>1. StackDocs(stack) = <<>> /\ value.tree.docs = <<>>
      BY <1>8, <1>9, NoTreeDocs DEF Segment
    <3>2. QED
      BY <3>1 DEF AllDocs
  <2>3. UpTo(Len(read)) = <<>> /\ UpTo(Len(read) + Len(unread)) = <<>>
    BY <2>1, UpToNone
  <2>4. QED
    BY <2>1, <2>2, <2>3 DEF Numbered
<1>12. LexerOK
  <2>1. source.max \in Nat /\ fed = 0 /\ source \in Source
    BY SourceAssumption DEF Init
  <2>2. ahead \in Seq(Tokens) /\ taken \in Seq(Kind) /\ line \in Nat /\ token = NoToken
    BY DEF Init
  <2>3. QED
    BY <2>1, <2>2 DEF LexerOK
<1>13. HereDocsOK /\ OutcomeOK /\ outcome = "none"
  BY DEF Init, HereDocsOK, OutcomeOK
<1>14. QED
  BY <1>10, <1>11, <1>12, <1>13 DEF IInv

-----------------------------------------------------------------------------
(* What a step does with the token                                         *)

LEMMA TakenWell ==
  ASSUME LexerOK, outcome = "none", TakeRaw, token.kind \in Kind, outcome' # "none" \/ token.kind # EndOfInput
  PROVE  LexerOK'
<1>1. /\ source \in Source /\ fed \in 0 .. source.max + 1 /\ ahead \in Seq(Tokens)
      /\ taken \in Seq(Kind) /\ line \in Nat
      /\ fed = source.max + 1 => token.kind = EndOfInput
  BY DEF LexerOK
<1>2. /\ source' = source /\ fed' = fed /\ ahead' = ahead /\ token' = NoToken
      /\ taken' = Append(taken, token.kind) /\ line' \in {line, line + 1}
  BY DEF TakeRaw, input
<1>3. taken' \in Seq(Kind)
  BY <1>1, <1>2, AppendProperties
<1>4. line' \in Nat
  BY <1>1, <1>2
<1>5. outcome' = "none" /\ fed' = source'.max + 1 => token'.kind = EndOfInput
  BY <1>1, <1>2
<1>6. QED
  BY <1>1, <1>2, <1>3, <1>4, <1>5 DEF LexerOK

LEMMA SubstitutedWell ==
  ASSUME LexerOK, outcome = "none", Substitutes
  PROVE  LexerOK'
<1> DEFINE replacement == Alias[token.kind].replacement
           from == token.from \cup {token.kind}
           new == [i \in DOMAIN replacement |-> [kind |-> replacement[i], from |-> from]]
<1>1. /\ source \in Source /\ fed \in 0 .. source.max + 1 /\ ahead \in Seq(Tokens)
      /\ taken \in Seq(Kind) /\ line \in Nat /\ token \in Tokens \cup {NoToken}
      /\ fed = source.max + 1 => token.kind = EndOfInput
  BY DEF LexerOK
<1>2. token.kind \in DOMAIN Alias /\ token.kind # EndOfInput /\ token \in Tokens
  BY <1>1, AliasAssumption DEF Substitutes, NoToken
<1>3. replacement \in Seq(Kind)
  <2>1. replacement \in Seq(Kind \ {EndOfInput})
    BY <1>2, AliasAssumption
  <2> HIDE DEF replacement
  <2>2. QED
    BY <2>1, SeqMonotonic
<1>4. from \in SUBSET DOMAIN Alias
  BY <1>2 DEF Tokens
<1>5. /\ source' = source /\ fed' = fed /\ ahead' = new \o ahead /\ token' = NoToken
      /\ taken' = taken /\ line' = line
  BY DEF Substitutes, Substitute
<1> HIDE DEF replacement, from
<1>6. new \in Seq(Tokens)
  <2>1. Len(replacement) \in Nat /\ DOMAIN replacement = 1 .. Len(replacement)
        /\ \A i \in 1 .. Len(replacement) : replacement[i] \in Kind
    BY <1>3, LenProperties, ElementOfSeq
  <2>2. new \in [1 .. Len(replacement) -> Tokens]
    BY <1>4, <2>1 DEF Tokens
  <2> HIDE DEF new
  <2>3. QED
    BY <2>1, <2>2
<1> HIDE DEF new
<1>7. new \o ahead \in Seq(Tokens)
  BY <1>1, <1>6, ConcatProperties
<1>8. QED
  BY <1>1, <1>2, <1>5, <1>7 DEF LexerOK

LEMMA PeekedWell ==
  ASSUME LexerOK, outcome = "none", Peek
  PROVE  LexerOK'
BY DEF LexerOK, Peek, input

LEMMA RequiredWell ==
  ASSUME LexerOK, RequireToken
  PROVE  LexerOK'
<1>1. /\ source \in Source /\ source.max \in Nat /\ fed \in 0 .. source.max + 1
      /\ ahead \in Seq(Tokens) /\ taken \in Seq(Kind) /\ line \in Nat
      /\ fed = source.max + 1 => token.kind = EndOfInput
  BY SourceAssumption DEF LexerOK, RequireToken, Running
<1>2. source' = source /\ taken' = taken /\ line' = line /\ outcome' = outcome /\ token = NoToken
  BY DEF RequireToken
<1>3. fed # source.max + 1
  BY <1>1, <1>2 DEF NoToken, EndOfInput
<1>4. CASE ahead # <<>> /\ token' = Head(ahead) /\ ahead' = Tail(ahead) /\ UNCHANGED fed
  <2>1. Head(ahead) \in Tokens /\ Tail(ahead) \in Seq(Tokens)
    BY <1>1, <1>4
  <2>2. QED
    BY <1>1, <1>2, <1>3, <1>4, <2>1 DEF LexerOK
<1>5. ASSUME ahead = <<>>, UNCHANGED ahead, fed' = fed + 1,
             NEW kind \in IF fed < source.max THEN Offered ELSE {EndOfInput},
             token' = [kind |-> kind, from |-> {}]
      PROVE  LexerOK'
  <2>1. kind \in Kind /\ (fed + 1 = source.max + 1 => kind = EndOfInput)
    <3>1. Offered \subseteq Kind
      BY <1>1, SourceAssumption DEF Offered
    <3>2. EndOfInput \in Kind
      BY KindFacts
    <3>3. CASE fed < source.max
      BY <1>1, <1>5, <3>1, <3>3
    <3>4. CASE ~(fed < source.max)
      BY <1>5, <3>2, <3>4
    <3>5. QED
      BY <3>3, <3>4
  <2>2. token' \in Tokens /\ token'.kind = kind
    BY <1>5, <2>1 DEF Tokens
  <2>3. fed' \in 0 .. source.max + 1
    BY <1>1, <1>3, <1>5
  <2>4. QED
    BY <1>1, <1>2, <1>5, <2>1, <2>2, <2>3 DEF LexerOK
<1>6. QED
  BY <1>4, <1>5 DEF RequireToken

-----------------------------------------------------------------------------
(* The here-documents                                                      *)

(* The contents that a newline is followed by are those of the numbers     *)
(* that come next.                                                         *)
LEMMA NumbersRead ==
  ASSUME HereDocsOK, NEW n \in 0 .. Len(unread)
  PROVE  /\ [i \in 1 .. n |-> unread[i].number] \in Seq(Nat)
         /\ read \o [i \in 1 .. n |-> unread[i].number] \in Seq(Nat)
         /\ Len(read \o [i \in 1 .. n |-> unread[i].number]) = Len(read) + n
<1> DEFINE new == [i \in 1 .. n |-> unread[i].number]
<1>1. unread \in Seq(HereDoc) /\ read \in Seq(Nat)
  BY DEF HereDocsOK
<1>2. Len(unread) \in Nat /\ \A i \in 1 .. Len(unread) : unread[i].number \in Nat
  <2>1. Len(unread) \in Nat
    BY <1>1, LenProperties
  <2>2. ASSUME NEW i \in 1 .. Len(unread) PROVE unread[i].number \in Nat
    <3>1. unread[i] \in HereDoc
      BY <1>1, ElementOfSeq
    <3>2. QED
      BY <3>1 DEF HereDoc
  <2>3. QED
    BY <2>1, <2>2
<1>3. new \in [1 .. n -> Nat] /\ n \in Nat
  BY <1>2
<1> HIDE DEF new
<1>4. new \in Seq(Nat) /\ Len(new) = n
  BY <1>3
<1>5. read \o new \in Seq(Nat) /\ Len(read \o new) = Len(read) + n
  BY <1>1, <1>4, ConcatProperties
<1>6. QED
  BY <1>4, <1>5 DEF new

LEMMA ContentsRead ==
  ASSUME HereDocsOK, HereDocContents
  PROVE  /\ HereDocsOK' /\ unread' = <<>> /\ Len(read') = Len(read) + Len(unread)
         /\ Numbered => read' = UpTo(Len(read) + Len(unread))
<1> DEFINE new == [i \in 1 .. Len(unread) |-> unread[i].number]
           n == Len(read)
           m == Len(unread)
<1>1. unread \in Seq(HereDoc) /\ read \in Seq(Nat) /\ n \in Nat /\ m \in Nat
  BY LenProperties DEF HereDocsOK
<1>2. DOMAIN unread = 1 .. m
  BY <1>1, LenProperties
<1>3. read' = read \o new /\ unread' = <<>>
  BY <1>2 DEF HereDocContents
<1>4. new \in Seq(Nat) /\ read \o new \in Seq(Nat) /\ Len(read \o new) = n + m
  <2>1. m \in 0 .. Len(unread)
    BY <1>1
  <2>2. QED
    BY <2>1, NumbersRead
<1>5. HereDocsOK'
  BY <1>3, <1>4 DEF HereDocsOK
<1>6. Len(new) = m /\ \A i \in 1 .. m : new[i] = unread[i].number
  <2>1. DOMAIN new = 1 .. m
    OBVIOUS
  <2>2. \A i \in 1 .. m : new[i] = unread[i].number
    OBVIOUS
  <2> HIDE DEF new
  <2>3. QED
    BY <1>1, <1>4, <2>1, <2>2, LenProperties
<1> HIDE DEF new, n, m
<1>7. ASSUME Numbered PROVE read' = UpTo(n + m)
  <2>1. read = UpTo(n) /\ \A i \in 1 .. m : new[i] = n + i
    BY <1>6, <1>7 DEF Numbered, n, m
  <2>2. UpTo(n) \o new = UpTo(n + m)
    BY <1>1, <1>4, <1>6, <2>1, UpToMore
  <2>3. QED
    BY <1>3, <2>1, <2>2
<1>8. QED
  BY <1>3, <1>4, <1>5, <1>7 DEF n, m

LEMMA KeptFitted ==
  ASSUME NEW docs, KeptStep(docs)
  PROVE  /\ (\E T : Fitted(T))'
         /\ AllDocs(stack', value') = AllDocs(stack, value) \o docs
         /\ outcome' = outcome
<1>1. PICK U : Trees(U) /\ Kept(U, stack, value, stack', value', docs)
  BY DEF KeptStep
<1>2. Trees(U) /\ Typed(U, stack', value') /\ StackOK(stack', value')
  BY <1>1 DEF Kept
<1>3. Fitted(U)'
  BY <1>2 DEF Fitted
<1>4. QED
  BY <1>1, <1>3 DEF Kept, KeptStep

LEMMA SameFitted ==
  ASSUME UNCHANGED <<stack, value>>, NEW T, Fitted(T)
  PROVE  (\E U : Fitted(U))'
<1>1. Fitted(T)'
  BY DEF Fitted
<1>2. QED
  BY <1>1

LEMMA KeptNumbers ==
  ASSUME HereDocsOK, Numbered, KeptStep(<<>>)
  PROVE  AllDocs(stack', value') = UpTo(Len(read) + Len(unread))
<1> DEFINE n == Len(read) + Len(unread)
<1>1. n \in Nat
  BY LenProperties DEF HereDocsOK
<1>2. AllDocs(stack, value) = UpTo(n)
  BY DEF Numbered
<1> HIDE DEF n
<1>3. UpTo(n) \in Seq(Nat)
  BY <1>1, UpToFacts
<1>4. UpTo(n) \o <<>> = UpTo(n)
  BY <1>3, ConcatEmptySeq
<1>5. AllDocs(stack', value') = UpTo(n)
  BY <1>2, <1>4, KeptFitted
<1>6. QED
  BY <1>5 DEF n

(* The tokens are taken by steps after which the here-documents are as     *)
(* they were, have been read or are one more.                              *)
LEMMA ProceedsWell ==
  ASSUME IInv, Proceeds
  PROVE  IInv'
<1>1. LexerOK /\ HereDocsOK /\ Numbered /\ outcome = "none" /\ outcome' = "none"
  BY KeptFitted DEF IInv, Proceeds
<1>2. (\E T : Fitted(T))'
  BY KeptFitted DEF Proceeds
<1>3. LexerOK'
  <2>1. CASE Peek
    BY <1>1, <2>1, PeekedWell
  <2>2. CASE Consumes \/ Skips
    BY <1>1, <2>2, TakenWell DEF Consumes, Skips, Take, TakeNewline
  <2>3. CASE Substitutes
    BY <1>1, <2>3, SubstitutedWell
  <2>4. QED
    BY <2>1, <2>2, <2>3 DEF Proceeds
<1>4. AllDocs(stack', value') = UpTo(Len(read) + Len(unread))
  BY <1>1, KeptNumbers DEF Proceeds
<1>5. HereDocsOK' /\ Numbered'
  <2>1. CASE UNCHANGED <<unread, read>>
    BY <1>1, <1>4, <2>1 DEF HereDocsOK, Numbered
  <2>2. CASE HereDocContents
    <3>1. HereDocsOK' /\ unread' = <<>> /\ Len(read') = Len(read) + Len(unread)
          /\ read' = UpTo(Len(read) + Len(unread))
      BY <1>1, <2>2, ContentsRead
    <3>2. Len(unread') = 0 /\ Len(read') \in Nat
      BY <3>1, LenProperties DEF HereDocsOK
    <3> DEFINE r == read'
               u == unread'
    <3>3. Len(r) = Len(read) + Len(unread) /\ r = UpTo(Len(r)) /\ Len(u) = 0 /\ Len(r) \in Nat
      BY <3>1, <3>2
    <3>4. Len(r) + Len(u) = Len(r)
      BY <3>3
    <3>5. AllDocs(stack', value') = UpTo(Len(r) + Len(u))
      BY <1>4, <3>3, <3>4
    <3>6. \A i \in 1 .. Len(u) : u[i].number = Len(r) + i
      BY <3>3
    <3>7. QED
      BY <3>1, <3>3, <3>5, <3>6 DEF Numbered
  <2>3. QED
    BY <2>1, <2>2 DEF Proceeds, Peek, Consumes, Take, Skips, TakeNewline, Substitutes, Substitute
<1>6. QED
  BY <1>1, <1>2, <1>3, <1>5 DEF IInv, OutcomeOK

LEMMA MemorizesWell ==
  ASSUME IInv, Memorizes
  PROVE  IInv'
<1> DEFINE n == Len(read)
           m == Len(unread)
           k == NextNumber
           d == [number |-> k, line |-> line, location |-> Here]
           u == Append(unread, d)
<1>1. LexerOK /\ HereDocsOK /\ Numbered /\ outcome = "none" /\ outcome' = "none"
  BY KeptFitted DEF IInv, Memorizes
<1>2. (\E T : Fitted(T))'
  BY KeptFitted DEF Memorizes
<1>3. LexerOK'
  BY <1>1, TakenWell DEF Memorizes
<1>4. unread \in Seq(HereDoc) /\ read \in Seq(Nat) /\ n \in Nat /\ m \in Nat
  BY <1>1, LenProperties DEF HereDocsOK
<1>5. d \in HereDoc /\ d.number = k /\ k = n + m + 1 /\ k \in Nat
  <2>1. line \in Nat /\ Here \in Nat
    BY <1>1, LenProperties DEF LexerOK, Here
  <2>2. k = n + m + 1 /\ k \in Nat
    BY <1>4 DEF NextNumber
  <2> HIDE DEF k
  <2>3. QED
    BY <2>1, <2>2 DEF HereDoc
<1>6. unread' = u /\ read' = read
  BY DEF Memorizes, Memorized
<1>7. Numbered => /\ read = UpTo(n) /\ \A i \in 1 .. m : unread[i].number = n + i
                  /\ AllDocs(stack, value) = UpTo(n + m)
  BY DEF Numbered
<1> HIDE DEF n, m, k, d
<1>8. u \in Seq(HereDoc) /\ Len(u) = m + 1 /\ u[m + 1] = d /\ \A i \in 1 .. m : u[i] = unread[i]
  BY <1>4, <1>5, AppendProperties DEF m
<1>9. HereDocsOK'
  BY <1>4, <1>6, <1>8 DEF HereDocsOK
<1>10. AllDocs(stack', value') = UpTo(n + m) \o <<k>>
  BY <1>1, <1>7, KeptFitted DEF Memorizes, k
<1>11. UpTo(n + m) \o <<k>> = UpTo(n + m + 1)
  <2> DEFINE s == <<k>>
             j == n + m
  <2>1. s \in Seq(Nat) /\ Len(s) = 1 /\ s[1] = k /\ j \in Nat /\ k = j + 1
    BY <1>4, <1>5
  <2> HIDE DEF s, j
  <2>2. \A i \in 1 .. 1 : s[i] = j + i
    BY <2>1
  <2>3. UpTo(j) \o s = UpTo(j + 1)
    BY <2>1, <2>2, UpToMore
  <2>4. QED
    BY <2>3 DEF s, j
<1>12. \A i \in 1 .. m + 1 : u[i].number = n + i
  <2>1. ASSUME NEW i \in 1 .. m + 1 PROVE u[i].number = n + i
    <3>1. i \in 1 .. m \/ i = m + 1
      BY <1>4
    <3>2. CASE i \in 1 .. m
      BY <1>1, <1>7, <1>8, <3>2
    <3>3. CASE i = m + 1
      BY <1>4, <1>5, <1>8, <3>3
    <3>4. QED
      BY <3>1, <3>2, <3>3
  <2>2. QED
    BY <2>1
<1>13. Numbered'
  <2>1. Len(read') = n /\ Len(unread') = m + 1
    BY <1>6, <1>8 DEF n
  <2>2. AllDocs(stack', value') = UpTo(n + (m + 1))
    <3>1. n + (m + 1) = n + m + 1
      BY <1>4
    <3>2. QED
      BY <1>10, <1>11, <3>1
  <2>3. read' = UpTo(n) /\ \A i \in 1 .. m + 1 : unread'[i].number = n + i
    BY <1>1, <1>6, <1>7, <1>12
  <2>4. QED
    BY <2>1, <2>2, <2>3 DEF Numbered
<1>14. QED
  BY <1>1, <1>2, <1>3, <1>9, <1>13 DEF IInv, OutcomeOK

(* The function is about to return the list that it has parsed.            *)
LEMMA OnlyFrame ==
  ASSUME NEW T, Fitted(T), Top.at = "command_line.end"
  PROVE  Len(stack) = 1 /\ Len(stack[1].parts) = 1
<1>1. Role("command_line.end") = "line"
  BY DEF Role, LinePlace, ListPlace, RedirPlace, ArrayPlace
<1>2. Len(stack) \in Nat \ {0} /\ Top = stack[Len(stack)]
  BY FrontAndLast DEF Fitted, Typed, Top
<1>3. \A i \in 1 .. Len(stack) - 1 : Calls(stack[i], Role(stack[i + 1].at))
  BY DEF Fitted, StackOK
<1>4. Len(stack) = 1
  <2> SUFFICES ASSUME Len(stack) # 1 PROVE FALSE
    OBVIOUS
  <2> DEFINE n == Len(stack)
             k == n - 1
  <2>1. k \in 1 .. n - 1 /\ k + 1 = n
    <3>1. n \in Nat /\ n # 0 /\ n # 1
      BY <1>2
    <3> HIDE DEF n
    <3>2. QED
      BY <3>1
  <2> HIDE DEF k
  <2>2. Calls(stack[k], Role(stack[k + 1].at))
    BY <1>3, <2>1
  <2>3. Role(stack[k + 1].at) = "line"
    BY <1>1, <1>2, <2>1
  <2>4. QED
    BY <2>2, <2>3 DEF Calls
<1>5. Len(Top.parts) = 1
  BY TopFacts DEF Good
<1>6. QED
  BY <1>2, <1>4, <1>5

LEMMA CompletesWell ==
  ASSUME IInv, Completes
  PROVE  IInv'
<1>1. PICK T : Fitted(T)
  BY DEF IInv
<1>2. /\ LexerOK /\ HereDocsOK /\ Numbered /\ outcome = "none" /\ outcome' = "list"
      /\ UNCHANGED <<stack, value>> /\ value = NoValue
  BY DEF IInv, Completes, End, EndWith
<1>3. (\E U : Fitted(U))'
  BY <1>1, <1>2, SameFitted
<1>4. LexerOK'
  <2>1. CASE TakeNewline /\ token.kind \in Kind
    BY <1>2, <2>1, TakenWell DEF TakeNewline
  <2>2. CASE Peek
    BY <1>2, <2>2, PeekedWell
  <2>3. QED
    BY <2>1, <2>2 DEF Completes
<1>5. Len(stack) = 1 /\ Len(stack[1].parts) = 1
  BY <1>1, OnlyFrame DEF Completes
<1>6. HereDocsOK' /\ Numbered' /\ unread' = <<>>
  <2>1. CASE Peek /\ unread = <<>>
    BY <1>2, <2>1 DEF Peek, HereDocsOK, Numbered
  <2>2. CASE TakeNewline
    <3>1. HereDocsOK' /\ unread' = <<>> /\ Len(read') = Len(read) + Len(unread)
          /\ read' = UpTo(Len(read) + Len(unread))
      BY <1>2, <2>2, ContentsRead DEF TakeNewline
    <3>2. Len(unread') = 0 /\ Len(read') \in Nat
      BY <3>1, LenProperties DEF HereDocsOK
    <3>3. AllDocs(stack', value') = UpTo(Len(read) + Len(unread))
      BY <1>2 DEF Numbered
    <3> DEFINE r == read'
               u == unread'
    <3>4. Len(r) = Len(read) + Len(unread) /\ r = UpTo(Len(r)) /\ Len(u) = 0 /\ Len(r) \in Nat
      BY <3>1, <3>2
    <3>5. Len(r) + Len(u) = Len(r)
      BY <3>4
    <3>6. AllDocs(stack', value') = UpTo(Len(r) + Len(u))
      BY <3>3, <3>4, <3>5
    <3>7. \A i \in 1 .. Len(u) : u[i].number = Len(r) + i
      BY <3>4
    <3>8. QED
      BY <3>1, <3>4, <3>6, <3>7 DEF Numbered
  <2>3. QED
    BY <2>1, <2>2 DEF Completes
<1>7. Finished'
  BY <1>2, <1>5, <1>6 DEF Finished
<1>8. QED
  BY <1>2, <1>3, <1>4, <1>6, <1>7 DEF IInv, OutcomeOK

(* The parser stops without a result.                                      *)
LEMMA FailsWell ==
  ASSUME IInv, outcome = "none", outcome' \in Failure, UNCHANGED <<stack, value>>,
         LexerOK', HereDocsOK'
  PROVE  IInv'
<1>1. PICK T : Fitted(T)
  BY DEF IInv
<1>2. (\E U : Fitted(U))'
  BY <1>1, SameFitted
<1>3. outcome' \notin {"none", "list"}
  BY DEF Failure
<1>4. QED
  BY <1>2, <1>3 DEF IInv, OutcomeOK

LEMMA StopsWell ==
  ASSUME IInv, Stops
  PROVE  IInv'
<1>1. LexerOK /\ HereDocsOK /\ outcome = "none" /\ outcome' # "none"
  BY DEF IInv, Stops, Failure
<1>2. LexerOK'
  <2>1. CASE Peek
    BY <1>1, <2>1, PeekedWell
  <2>2. CASE Take /\ token.kind \in Kind
    BY <1>1, <2>2, TakenWell DEF Take
  <2>3. QED
    BY <2>1, <2>2 DEF Stops
<1>3. HereDocsOK'
  BY <1>1 DEF HereDocsOK, Stops, Peek, Take
<1>4. QED
  BY <1>1, <1>2, <1>3, FailsWell DEF Stops

LEMMA LexerFailsWell ==
  ASSUME IInv, LexerFails
  PROVE  IInv'
<1>1. /\ LexerOK /\ HereDocsOK /\ outcome = "none" /\ outcome' = "lexer error"
      /\ UNCHANGED <<stack, value>> /\ UNCHANGED <<input, token, taken, line, unread, read>>
  BY DEF IInv, LexerFails, Running, End, EndWith
<1>2. LexerOK' /\ HereDocsOK'
  BY <1>1 DEF LexerOK, HereDocsOK, input
<1>3. QED
  BY <1>1, <1>2, FailsWell DEF Failure

LEMMA NewlineFailsWell ==
  ASSUME IInv, NewlineFails
  PROVE  IInv'
<1>1. HereDocContentFails /\ outcome = "none" /\ token.kind = Newline
  BY AtFacts DEF NewlineFails
<1>2. LexerOK /\ HereDocsOK /\ outcome' = "lexer error" /\ UNCHANGED <<stack, value>>
  BY <1>1 DEF IInv, HereDocContentFails, End, EndWith
<1>3. Newline \in Kind
  BY KindFacts
<1>4. LexerOK'
  BY <1>1, <1>2, <1>3, TakenWell DEF HereDocContentFails
<1>5. PICK n \in 0 .. Len(unread) - 1 : read' = read \o [i \in 1 .. n |-> unread[i].number]
  BY <1>1 DEF HereDocContentFails
<1>6. n \in 0 .. Len(unread)
  <2>1. Len(unread) \in Nat
    BY <1>2, LenProperties DEF HereDocsOK
  <2>2. QED
    BY <1>5, <2>1
<1>7. HereDocsOK'
  <2>1. read' \in Seq(Nat)
    BY <1>2, <1>5, <1>6, NumbersRead
  <2>2. unread' = <<>>
    BY <1>1 DEF HereDocContentFails
  <2>3. QED
    BY <2>1, <2>2 DEF HereDocsOK
<1>8. QED
  BY <1>1, <1>2, <1>4, <1>7, FailsWell DEF Failure

LEMMA RequireWell ==
  ASSUME IInv, RequireToken
  PROVE  IInv'
<1>1. PICK T : Fitted(T)
  BY DEF IInv
<1>2. /\ LexerOK /\ HereDocsOK /\ outcome = "none" /\ outcome' = "none" /\ Numbered
      /\ UNCHANGED <<stack, value, unread, read>>
  BY DEF IInv, RequireToken, Running
<1>3. (\E U : Fitted(U))'
  BY <1>1, <1>2, SameFitted
<1>4. LexerOK'
  BY <1>2, RequiredWell
<1>5. HereDocsOK' /\ Numbered'
  BY <1>2 DEF HereDocsOK, Numbered
<1>6. QED
  BY <1>2, <1>3, <1>4, <1>5 DEF IInv, OutcomeOK

LEMMA StepInvariant == IInv /\ [Poll]_vars => IInv'
<1> SUFFICES ASSUME IInv, [Poll]_vars PROVE IInv'
  OBVIOUS
<1>1. CASE Poll
  <2>1. PICK T : Fitted(T)
    BY DEF IInv
  <2>2. Here \in Nat
    BY LenProperties DEF IInv, LexerOK, Here
  <2>3. NextNumber \in Nat
    BY LenProperties DEF IInv, HereDocsOK, NextNumber
  <2>4. QED
    BY <1>1, <2>1, <2>2, <2>3, PollSteps, ProceedsWell, MemorizesWell, StopsWell, CompletesWell,
       RequireWell, LexerFailsWell, NewlineFailsWell
<1>2. CASE UNCHANGED vars
  <2>1. PICK T : Fitted(T)
    BY DEF IInv
  <2>2. /\ UNCHANGED <<stack, value, unread, read, outcome>>
        /\ UNCHANGED <<source, fed, ahead, token, taken, line>>
    BY <1>2 DEF vars
  <2>3. (\E U : Fitted(U))'
    BY <2>1, <2>2, SameFitted
  <2>4. QED
    BY <2>2, <2>3 DEF IInv, LexerOK, HereDocsOK, OutcomeOK, Numbered, Finished
<1>3. QED
  BY <1>1, <1>2

-----------------------------------------------------------------------------
(* Where the parser is after a step                                        *)

LEMMA LastOfConcat ==
  ASSUME NEW X, NEW r \in Seq(X), NEW s \in Seq(X), s # <<>>
  PROVE  Last(r \o s) = Last(s)
<1> DEFINE c == r \o s
<1>1. Len(s) \in Nat /\ Len(s) # 0 /\ Len(r) \in Nat
  BY EmptySeq, LenProperties
<1>2. c \in Seq(X) /\ Len(c) = Len(r) + Len(s)
  BY ConcatProperties
<1>3. c[Len(r) + Len(s)] = s[Len(s)]
  <2>1. Len(r) + Len(s) \in 1 .. Len(r) + Len(s)
    BY <1>1
  <2>2. c[Len(r) + Len(s)] = IF Len(r) + Len(s) <= Len(r) THEN r[Len(r) + Len(s)] ELSE s[Len(r) + Len(s) - Len(r)]
    BY <2>1, ConcatProperties
  <2>3. Len(r) + Len(s) - Len(r) = Len(s) /\ ~(Len(r) + Len(s) <= Len(r))
    BY <1>1
  <2>4. QED
    BY <2>2, <2>3
<1> HIDE DEF c
<1>4. Last(c) = s[Len(s)]
  BY <1>2, <1>3 DEF Last
<1>5. QED
  BY <1>4 DEF Last, c

LEMMA BecomeLands ==
  ASSUME NEW T, Fitted(T), NEW X, NEW r \in Seq(X), r # <<>>, Become(r)
  PROVE  Top' = Last(r)
<1> DEFINE F == FrameOf(T)
           Y == F \cup X
<1>1. Front(stack) \in Seq(F)
  <2>1. stack \in Seq(F) /\ stack # <<>>
    BY DEF Fitted, Typed
  <2> HIDE DEF F
  <2>2. QED
    BY <2>1, FrontAndLast
<1> HIDE DEF F
<1>2. Front(stack) \in Seq(Y) /\ r \in Seq(Y)
  BY <1>1, SeqMonotonic
<1> HIDE DEF Y
<1>3. stack' = Front(stack) \o r
  BY DEF Become
<1>4. QED
  BY <1>2, <1>3, LastOfConcat DEF Top

LEMMA GoLands ==
  ASSUME NEW T, Fitted(T), NEW f, Go(f)
  PROVE  Top' = f
<1> DEFINE r == <<f>>
<1>1. r \in Seq({f}) /\ r # <<>> /\ Last(r) = f
  BY DEF Last
<1>2. Become(r)
  BY DEF Go
<1> HIDE DEF r
<1>3. QED
  BY <1>1, <1>2, BecomeLands

LEMMA CallLands ==
  ASSUME NEW T, Fitted(T), NEW f, NEW X, NEW s \in Seq(X), s # <<>>, Call(f, s)
  PROVE  Top' = Last(s)
<1> DEFINE g == <<f>>
           Y == {f} \cup X
           r == g \o s
<1>1. g \in Seq(Y)
  OBVIOUS
<1>2. s \in Seq(Y)
  BY SeqMonotonic
<1>3. Become(r)
  BY DEF Call
<1> HIDE DEF g, Y
<1>4. r \in Seq(Y) /\ Len(r) = Len(g) + Len(s)
  BY <1>1, <1>2, ConcatProperties
<1>5. r # <<>>
  <2>1. Len(g) \in Nat /\ Len(s) \in Nat /\ Len(s) # 0
    BY <1>1, <1>2, EmptySeq, LenProperties
  <2>2. Len(r) # 0
    BY <1>4, <2>1
  <2>3. QED
    BY <1>4, <2>2, EmptySeq
<1>6. Last(r) = Last(s)
  BY <1>1, <1>2, LastOfConcat
<1> HIDE DEF r
<1>7. QED
  BY <1>3, <1>4, <1>5, <1>6, BecomeLands

(* A function that has called another one is at no such place.             *)
LEMMA ReturnLands ==
  ASSUME NEW T, Fitted(T), Top.at \notin LinePlace, NEW v, Return(v)
  PROVE  Top'.at \notin InnerPlace
<1> DEFINE F == FrameOf(T)
           f == Front(stack)
           n == Len(stack)
           k == n - 1
<1>1. stack \in Seq(F) /\ stack # <<>> /\ StackOK(stack, value)
  BY DEF Fitted, Typed
<1>2. /\ n \in Nat \ {0} /\ f \in Seq(F) /\ Len(f) = k
      /\ \A i \in 1 .. k : f[i] = stack[i]
      /\ Top = stack[n]
  <2> HIDE DEF F
  <2>1. QED
    BY <1>1, FrontAndLast DEF Top
<1>3. n # 1
  <2>1. Role(stack[1].at) = "line"
    BY <1>1 DEF StackOK
  <2>2. Role(Top.at) # "line"
    BY DEF Role
  <2>3. QED
    BY <1>2, <2>1, <2>2
<1>4. k \in 1 .. k /\ k \in 1 .. n - 1
  BY <1>2, <1>3
<1>5. stack[k].at \notin InnerPlace
  BY <1>1, <1>4 DEF StackOK, Calls
<1>6. Top' = f[k]
  <2>1. stack' = f
    BY DEF Return
  <2>2. Last(f) = f[k]
    BY <1>2 DEF Last
  <2> HIDE DEF f
  <2>3. QED
    BY <2>1, <2>2 DEF Top
<1>7. QED
  BY <1>2, <1>4, <1>5, <1>6

LEMMA GoesTo ==
  ASSUME NEW T, Fitted(T), Here \in Nat
  PROVE  /\ \A l : Go(To(l)) \/ Go(Joined(l)) \/ Go(Clause(l)) \/ Go([To(l) EXCEPT !.open = Here])
                     => Top'.at = l
         /\ \A l, t : Go(With(l, t)) => Top'.at = l
         /\ Go(Top) => Top'.at = Top.at
<1>1. ASSUME NEW l, NEW t
      PROVE  /\ To(l).at = l /\ Clause(l).at = l /\ [To(l) EXCEPT !.open = Here].at = l
             /\ With(l, t).at = l
  <2>1. \A f, parts : IsAt(f, l, parts) => f.at = l
    BY DEF IsAt
  <2>2. /\ IsAt(To(l), l, Top.parts) /\ IsAt(Clause(l), l, Top.parts)
        /\ IsAt([To(l) EXCEPT !.open = Here], l, Top.parts)
        /\ IsAt(With(l, t), l, Append(Top.parts, t))
    BY TopUpdates
  <2>3. QED
    BY <2>1, <2>2
<1>2. \A l, t : Go(With(l, t)) => Top'.at = l
  BY <1>1, GoLands
<1>3. \A l : Go(To(l)) \/ Go(Clause(l)) \/ Go([To(l) EXCEPT !.open = Here]) => Top'.at = l
  BY <1>1, GoLands
<1>4. \A l : Go(Joined(l)) => Top'.at = l
  BY <1>1, GoLands DEF Joined
<1>5. QED
  BY <1>2, <1>3, <1>4, GoLands

(* The last of the functions that are called                               *)
LEMMA LastOfMore ==
  ASSUME NEW X, NEW f, NEW s \in Seq(X), s # <<>>
  PROVE  Last(<<f>> \o s) = Last(s)
<1> DEFINE g == <<f>>
           Y == {f} \cup X
<1>1. g \in Seq(Y)
  OBVIOUS
<1>2. s \in Seq(Y)
  BY SeqMonotonic
<1> HIDE DEF g, Y
<1>3. Last(g \o s) = Last(s)
  BY <1>1, <1>2, LastOfConcat
<1>4. QED
  BY <1>3 DEF g

LEMMA LastOfCallees ==
  ASSUME NEW T, Trees(T)
  PROVE  \A s \in {Command, Pipeline, AndOrList, List, CompoundList} :
           s \in Seq(FrameOf(T)) /\ s # <<>> /\ Last(s) = Frame("simple")
<1>1. /\ Segment(T, Command, "other", <<>>) /\ Segment(T, Pipeline, "other", <<>>)
      /\ Segment(T, AndOrList, "other", <<>>) /\ Segment(T, List, "list", <<>>)
      /\ Segment(T, CompoundList, "other", <<>>)
  BY CommandSegment, PipelineSegment, AndOrSegment, ListSegment, CompoundListSegment
<1>2. \A s \in {Command, Pipeline, AndOrList, List, CompoundList} : s \in Seq(FrameOf(T)) /\ s # <<>>
  BY <1>1 DEF Segment
<1>3. Last(Command) = Frame("simple")
  BY DEF Command, Last
<1>4. Last(Pipeline) = Last(Command)
  BY <1>2, LastOfMore DEF Pipeline
<1>5. Last(AndOrList) = Last(Pipeline)
  BY <1>2, LastOfMore DEF AndOrList
<1>6. Last(List) = Last(AndOrList)
  BY <1>2, LastOfMore DEF List
<1>7. Last(CompoundList) = Last(List)
  BY <1>2, LastOfMore DEF CompoundList
<1>8. QED
  BY <1>2, <1>3, <1>4, <1>5, <1>6, <1>7

LEMMA CallsTo ==
  ASSUME NEW T, Fitted(T), NEW f
  PROVE  /\ \A s \in {Command, Pipeline, AndOrList, List, CompoundList} : Call(f, s) => Top'.at = "simple"
         /\ \A l \in FreshPlace : Call(f, <<Frame(l)>>) => Top'.at = l
<1>1. \A s \in {Command, Pipeline, AndOrList, List, CompoundList} : Call(f, s) => Top'.at = "simple"
  <2>1. Frame("simple").at = "simple"
    BY DEF Frame
  <2>2. Trees(T)
    BY DEF Fitted
  <2>3. QED
    BY <2>1, <2>2, LastOfCallees, CallLands
<1>2. ASSUME NEW l \in FreshPlace, Call(f, <<Frame(l)>>)
      PROVE  Top'.at = l
  <2> DEFINE g == Frame(l)
             s == <<g>>
  <2>1. s \in Seq({g}) /\ s # <<>> /\ Last(s) = g /\ g.at = l
    BY DEF Last, Frame
  <2> HIDE DEF s, g
  <2>2. Call(f, s)
    BY <1>2 DEF s, g
  <2>3. QED
    BY <2>1, <2>2, CallLands
<1>3. QED
  BY <1>1, <1>2

(* A construct begins.                                                     *)
LEMMA OpenedLands ==
  ASSUME NEW T, Trees(T), NEW f
  PROVE  LET s == Opened(<<f>> \o CompoundList)
         IN \E X : s \in Seq(X) /\ s # <<>> /\ Last(s) = Frame("simple")
<1> DEFINE g == [f EXCEPT !.open = Here, !.clause = Here]
           F == FrameOf(T)
           c == CompoundList
           q == <<f>>
<1>1. c \in Seq(F) /\ c # <<>> /\ Last(c) = Frame("simple")
  BY LastOfCallees
<1> HIDE DEF c, F
<1>2. Head(q \o c) = f /\ Tail(q \o c) = c
  BY <1>1
<1>3. Opened(q \o c) = <<g>> \o c
  BY <1>2 DEF Opened
<1> DEFINE h == <<g>>
           Y == {g} \cup F
<1> HIDE DEF g
<1>4. h \in Seq(Y) /\ Len(h) = 1
  OBVIOUS
<1>5. c \in Seq(Y) /\ Len(c) \in Nat
  BY <1>1, SeqMonotonic, LenProperties
<1> HIDE DEF h, Y
<1>6. h \o c \in Seq(Y) /\ Len(h \o c) = 1 + Len(c)
  BY <1>4, <1>5, ConcatProperties
<1>7. h \o c # <<>>
  <2>1. Len(h \o c) # 0
    BY <1>5, <1>6
  <2>2. QED
    BY <1>6, <2>1, EmptySeq
<1>8. Last(h \o c) = Frame("simple")
  BY <1>1, <1>4, <1>5, LastOfConcat
<1>9. QED
  BY <1>3, <1>6, <1>7, <1>8 DEF h, q, c


(* The step leads to no place within words, and the contents of            *)
(* here-documents are read after a newline; or it is the last.             *)
ReadsLines == Take /\ token.kind = Newline => unread' = <<>>
Outside == outcome' # "none" \/ (Top'.at \notin InnerPlace /\ ReadsLines)

LEMMA ErrorsEnd ==
  /\ \A cause : Fail(cause) => outcome' # "none"
  /\ \A cause, location : FailAt(cause, location) => outcome' # "none"
  /\ \A cause, opening : FailIn(cause, opening) => outcome' # "none"
BY DEF Fail, FailAt, FailIn, EndWith

LEMMA PeekReads ==
  /\ Peek => ReadsLines
  /\ TakeNewline => ReadsLines
  /\ token.kind # Newline => ReadsLines
<1>1. ASSUME Peek, Take PROVE token.kind # Newline
  <2>1. token = NoToken
    BY <1>1 DEF Peek, Take, TakeRaw
  <2>2. QED
    BY <2>1 DEF NoToken, Newline
<1>2. QED
  BY <1>1 DEF ReadsLines, TakeNewline, HereDocContents

LEMMA CompoundLands ==
  ASSUME NEW T, Fitted(T)
  PROVE  /\ Become(FullCompound) => Top'.at = "compound_command"
         /\ \A f : Call(f, FullCompound) => Top'.at = "compound_command"
         /\ \A f : Call(f, Opened(DoClause)) => Top'.at = "simple"
<1>1. /\ FullCompound \in Seq({Frame("full"), Frame("compound_command")}) /\ FullCompound # <<>>
      /\ Last(FullCompound).at = "compound_command"
  BY DEF FullCompound, Frame, Last
<1>2. \E X : Opened(DoClause) \in Seq(X) /\ Opened(DoClause) # <<>> /\ Last(Opened(DoClause)) = Frame("simple")
  BY OpenedLands DEF DoClause, Fitted
<1>3. Frame("simple").at = "simple"
  BY DEF Frame
<1>4. QED
  BY <1>1, <1>2, <1>3, BecomeLands, CallLands

LEMMA AndOrOutside ==
  ASSUME NEW T, Fitted(T), Here \in Nat, AndOr
  PROVE  Outside
<1>1. AndOrOperator \cap {Newline} = {}
  BY DEF AndOrOperator, Newline
<1>2. ASSUME Returned("and_or", "None"), Return(None), Peek PROVE Outside
  BY <1>2, AtFacts, ReturnLands, PeekReads DEF Outside, LinePlace
<1>3. ASSUME Go(Joined("and_or.operator")), Peek PROVE Outside
  BY <1>3, GoesTo, PeekReads DEF Outside, InnerPlace
<1>4. ASSUME At("and_or.operator", AndOrOperator), Go(With("and_or.newlines", Leaf(token.kind))) PROVE Outside
  BY <1>1, <1>4, AtFacts, GoesTo, PeekReads DEF Outside, InnerPlace
<1>5. ASSUME At("and_or.operator", Kind \ AndOrOperator), Return(Made("and_or")), Peek PROVE Outside
  BY <1>5, AtFacts, ReturnLands, PeekReads DEF Outside, LinePlace
<1>6. ASSUME Call(To("and_or.operand"), Pipeline), Peek PROVE Outside
  BY <1>6, CallsTo, PeekReads DEF Outside, InnerPlace
<1>7. ASSUME Fail("MissingPipeline") PROVE Outside
  BY <1>7, ErrorsEnd DEF Outside
<1>8. QED
  BY <1>2, <1>3, <1>4, <1>5, <1>6, <1>7 DEF AndOr

LEMMA RetryOutside ==
  ASSUME NEW T, Fitted(T), Here \in Nat, Retry
  PROVE  Outside
<1>1. ASSUME NEW l \in RetryPlace, Call(Top, Callee(l)), Peek PROVE Outside
  BY <1>1, CallsTo, PeekReads DEF Outside, InnerPlace, Callee, RetryPlace
<1>2. QED
  BY <1>1 DEF Retry

LEMMA PassOnOutside ==
  ASSUME NEW T, Fitted(T), Here \in Nat, PassOn
  PROVE  Outside
<1>1. ASSUME NEW l \in {"list", "and_or", "pipeline", "command"}, Returned(l, "AliasSubstituted"),
             Return(AliasSubstituted), Peek PROVE Outside
  BY <1>1, AtFacts, ReturnLands, PeekReads DEF Outside, LinePlace
<1>2. QED
  BY <1>1 DEF PassOn

LEMMA CommandLineOutside ==
  ASSUME NEW T, Fitted(T), Here \in Nat, CommandLine
  PROVE  Outside
<1>1. ASSUME Go(Joined("command_line.end")), Peek PROVE Outside
  BY <1>1, GoesTo, PeekReads DEF Outside, InnerPlace
<1>2. ASSUME End("list") \/ End("nothing") \/ EnsureNoUnreadHereDoc PROVE Outside
  BY <1>2, ErrorsEnd DEF Outside, End, EndWith, EnsureNoUnreadHereDoc
<1>3. ASSUME Fail("UnexpectedToken") PROVE Outside
  BY <1>3, ErrorsEnd DEF Outside
<1>4. QED
  BY <1>1, <1>2, <1>3 DEF CommandLine

LEMMA CompoundListOutside ==
  ASSUME NEW T, Fitted(T), Here \in Nat, MaybeCompoundList
  PROVE  Outside
<1>1. ASSUME Go([Top EXCEPT !.at = "compound_list.end", !.parts = @ \o value.tree.parts]), Peek PROVE Outside
  BY <1>1, GoLands, TopFacts, PeekReads DEF Outside, InnerPlace, FrameOf
<1>2. ASSUME TakeNewline, Call(To("compound_list"), List) PROVE Outside
  BY <1>2, CallsTo, PeekReads DEF Outside, InnerPlace
<1>3. ASSUME At("compound_list.end", Kind \ {Newline}), Return(Made("list")), Peek PROVE Outside
  BY <1>3, AtFacts, ReturnLands, PeekReads DEF Outside, LinePlace
<1>4. QED
  BY <1>1, <1>2, <1>3 DEF MaybeCompoundList

LEMMA ListOutside ==
  ASSUME NEW T, Fitted(T), Here \in Nat, ListItem
  PROVE  Outside
<1>1. ASSUME Go(With("list.separator", Node(";", <<value.tree>>))), Peek PROVE Outside
  BY <1>1, GoesTo, PeekReads DEF Outside, InnerPlace
<1>2. ASSUME NEW l \in {"list", "list.next"}, Returned(l, "None"), Return(Made("list")), Peek PROVE Outside
  BY <1>2, AtFacts, ReturnLands, PeekReads DEF Outside, LinePlace
<1>3. ASSUME token.kind # Newline,
             Call([Top EXCEPT !.at = "list.next", !.parts[Len(Top.parts)].node = token.kind],
                  AndOrList) PROVE Outside
  BY <1>3, CallsTo, PeekReads DEF Outside, InnerPlace
<1>4. ASSUME Top.at = "list.separator", Return(Made("list")), Peek PROVE Outside
  BY <1>4, ReturnLands, PeekReads DEF Outside, LinePlace
<1>5. QED
  BY <1>1, <1>2, <1>3, <1>4, AtFacts DEF ListItem, Newline

LEMMA PipelineOutside ==
  ASSUME NEW T, Fitted(T), Here \in Nat, PipelineParts
  PROVE  Outside
<1>1. ASSUME Go(Joined("pipeline.bar")), Peek PROVE Outside
  BY <1>1, GoesTo, PeekReads DEF Outside, InnerPlace
<1>2. ASSUME token.kind = "!", Call([With("pipeline.bang", Leaf("!")) EXCEPT !.open = Here], Command) PROVE Outside
  BY <1>2, CallsTo, PeekReads DEF Outside, InnerPlace, Newline
<1>3. ASSUME Returned("pipeline", "None"), Return(None), Peek PROVE Outside
  BY <1>3, AtFacts, ReturnLands, PeekReads DEF Outside, LinePlace
<1>4. ASSUME At("pipeline.bar", {"|"}), Go([To("pipeline.newlines") EXCEPT !.open = Here]) PROVE Outside
  BY <1>4, AtFacts, GoesTo, PeekReads DEF Outside, InnerPlace, Newline
<1>5. ASSUME At("pipeline.bar", Kind \ {"|"}), Return(Made("pipeline")), Peek PROVE Outside
  BY <1>5, AtFacts, ReturnLands, PeekReads DEF Outside, LinePlace
<1>6. ASSUME Call(To("pipeline.operand"), Command), Peek PROVE Outside
  BY <1>6, CallsTo, PeekReads DEF Outside, InnerPlace
<1>7. ASSUME NEW cause, Fail(cause) \/ FailAt(cause, Top.open) PROVE Outside
  BY <1>7, ErrorsEnd DEF Outside
<1>8. QED
  BY <1>1, <1>2, <1>3, <1>4, <1>5, <1>6, <1>7 DEF PipelineParts

LEMMA CommandKindOutside ==
  ASSUME NEW T, Fitted(T), Here \in Nat, CommandKind
  PROVE  Outside
<1>1. ASSUME Go(Joined("function")), Peek PROVE Outside
  BY <1>1, GoesTo, PeekReads DEF Outside, InnerPlace
<1>2. ASSUME Become(FullCompound), Peek PROVE Outside
  BY <1>2, CompoundLands, PeekReads DEF Outside, InnerPlace
<1>3. QED
  BY <1>1, <1>2 DEF CommandKind

LEMMA SimpleOutside ==
  ASSUME NEW T, Fitted(T), Here \in Nat, SimpleCommand
  PROVE  Outside
<1>1. ASSUME Call(Top, <<Frame("redir")>>), Peek PROVE Outside
  BY <1>1, CallsTo, PeekReads DEF Outside, InnerPlace, FreshPlace
<1>2. ASSUME NEW l \in SimplePlace, Returned(l, "Some"),
             Go(IF IsAssign(value.tree)
                THEN [Top EXCEPT !.parts[Len(Top.parts)] = value.tree]
                ELSE Joined(l)), Peek PROVE Outside
  BY <1>2, AtFacts, GoLands, GoesTo, TopFacts, SimplePlaces, PeekReads DEF Outside, FrameOf
<1>3. ASSUME NEW l \in SimplePlace, Returned(l, "None"), Go(Top), Peek PROVE Outside
  BY <1>3, AtFacts, SimplePlaces, GoesTo, PeekReads DEF Outside
<1>4. ASSUME NEW l \in SimplePlace, At(l, Kind \ StartsRedirection), NEW v, Return(v), Peek PROVE Outside
  BY <1>4, AtFacts, ReturnLands, PeekReads DEF Outside, LinePlace, SimplePlace
<1>5. QED
  BY <1>1, <1>2, <1>3, <1>4 DEF SimpleCommand

LEMMA FunctionOutside ==
  ASSUME NEW T, Fitted(T), Here \in Nat, ShortFunctionDefinition
  PROVE  Outside
<1>1. ASSUME token.kind = "(", Go([Top EXCEPT !.at = "function.close", !.parts = Top.parts[1].parts]) PROVE Outside
  BY <1>1, GoLands, TopFacts, PeekReads DEF Outside, InnerPlace, FrameOf, Newline
<1>2. ASSUME Top.at = "function", Return(Some(Top.parts[1])), Peek PROVE Outside
  BY <1>2, AtFacts, ReturnLands, PeekReads DEF Outside, LinePlace
<1>3. ASSUME token.kind # Newline, Go(To("function.body")) PROVE Outside
  BY <1>3, GoesTo, PeekReads DEF Outside, InnerPlace
<1>4. ASSUME NEW cause, Fail(cause) PROVE Outside
  BY <1>4, ErrorsEnd DEF Outside
<1>5. ASSUME Call(Top, FullCompound), Peek PROVE Outside
  BY <1>5, CompoundLands, PeekReads DEF Outside, InnerPlace
<1>6. ASSUME Returned("function.body", "Some"), NEW v, Return(v), Peek PROVE Outside
  BY <1>6, AtFacts, ReturnLands, PeekReads DEF Outside, LinePlace
<1>7. QED
  BY <1>1, <1>2, <1>3, <1>4, <1>5, <1>6, AtFacts DEF ShortFunctionDefinition, Newline

LEMMA RedirOutside ==
  ASSUME NEW T, Fitted(T), Here \in Nat, Redirection
  PROVE  Outside
<1>1. ASSUME At("redir", {IoNumber}), Go(With("redir.body", Leaf(IoNumber))) PROVE Outside
  BY <1>1, AtFacts, WordsAreNoLines, GoesTo, PeekReads DEF Outside, InnerPlace
<1>2. ASSUME EndWith("file descriptor out of range", Error("FdOutOfRange", Here, 0)) PROVE Outside
  BY <1>2, ErrorsEnd DEF Outside, EndWith
<1>3. ASSUME Go(To("redir.body")), Peek PROVE Outside
  BY <1>3, GoesTo, PeekReads DEF Outside, InnerPlace
<1>4. ASSUME At("redir.body", {"<"}), Go([To("redir.operand") EXCEPT !.open = Here]) PROVE Outside
  BY <1>4, AtFacts, GoesTo, PeekReads DEF Outside, InnerPlace, Newline
<1>5. ASSUME At("redir.body", {"<<"}), Go([To("redir.delimiter") EXCEPT !.open = Here]) PROVE Outside
  BY <1>5, AtFacts, GoesTo, PeekReads DEF Outside, InnerPlace, Newline
<1>6. ASSUME At("redir.body", Kind \ RedirOp), Return(None), Peek PROVE Outside
  BY <1>6, AtFacts, ReturnLands, PeekReads DEF Outside, LinePlace
<1>7. QED
  BY <1>1, <1>2, <1>3, <1>4, <1>5, <1>6 DEF Redirection

LEMMA OperandOutside ==
  ASSUME NEW T, Fitted(T), Here \in Nat, RedirectionOperand
  PROVE  Outside
<1>1. ASSUME NEW l \in {"redir.operand", "redir.delimiter"}, At(l, Token \cup {IoNumber}), NEW v, Return(v) PROVE Outside
  BY <1>1, WordsAreNoLines, AtFacts, ReturnLands, PeekReads DEF Outside, LinePlace
<1>2. ASSUME NEW cause, FailAt(cause, Top.open) PROVE Outside
  BY <1>2, ErrorsEnd DEF Outside
<1>3. QED
  BY <1>1, <1>2 DEF RedirectionOperand

LEMMA FullOutside ==
  ASSUME NEW T, Fitted(T), Here \in Nat, FullCompoundCommand
  PROVE  Outside
<1>1. ASSUME Returned("full", "None"), Return(None), Peek PROVE Outside
  BY <1>1, AtFacts, ReturnLands, PeekReads DEF Outside, LinePlace
<1>2. ASSUME Go(Joined("redirections")), Peek PROVE Outside
  BY <1>2, GoesTo, PeekReads DEF Outside, InnerPlace
<1>3. ASSUME Returned("redirections", "None"), Go(Top), Peek PROVE Outside
  BY <1>3, AtFacts, GoesTo, PeekReads DEF Outside, InnerPlace
<1>4. ASSUME Call(Top, <<Frame("redir")>>), Peek PROVE Outside
  BY <1>4, CallsTo, PeekReads DEF Outside, InnerPlace, FreshPlace
<1>5. ASSUME At("redirections", Kind \ StartsRedirection), Return(Made("full")), Peek PROVE Outside
  BY <1>5, AtFacts, ReturnLands, PeekReads DEF Outside, LinePlace
<1>6. QED
  BY <1>1, <1>2, <1>3, <1>4, <1>5 DEF FullCompoundCommand

LEMMA CloseOutside ==
  ASSUME NEW T, Fitted(T), Here \in Nat, Close
  PROVE  Outside
<1>1. ASSUME NEW l \in {"grouping", "subshell", "do"}, Go(Joined(l)), Peek PROVE Outside
  BY <1>1, GoesTo, PeekReads DEF Outside, InnerPlace
<1>2. ASSUME NEW cause, FailIn(cause, Top.open) \/ FailAt(cause, Top.open) PROVE Outside
  BY <1>2, ErrorsEnd DEF Outside
<1>3. ASSUME NEW l \in {"grouping", "subshell", "do"}, At(l, Kind), token.kind = Closing(l)[1],
             NEW v, Return(v) PROVE Outside
  BY <1>3, AtFacts, ReturnLands, PeekReads DEF Outside, LinePlace, Closing, Newline
<1>4. QED
  BY <1>1, <1>2, <1>3 DEF Close

LEMMA WhileOutside ==
  ASSUME NEW T, Fitted(T), Here \in Nat, WhileLoop
  PROVE  Outside
<1>1. ASSUME Go(Joined("while.do")), Peek PROVE Outside
  BY <1>1, GoesTo, PeekReads DEF Outside, InnerPlace
<1>2. ASSUME At("while.do", {"do"}), Call(To("while.body"), Opened(DoClause)) PROVE Outside
  BY <1>2, AtFacts, CompoundLands, PeekReads DEF Outside, InnerPlace, Newline
<1>3. ASSUME NEW cause, FailIn(cause, Top.open) \/ FailAt(cause, Top.open) PROVE Outside
  BY <1>3, ErrorsEnd DEF Outside
<1>4. ASSUME Returned("while.body", "Some"), NEW v, Return(v), Peek PROVE Outside
  BY <1>4, AtFacts, ReturnLands, PeekReads DEF Outside, LinePlace
<1>5. QED
  BY <1>1, <1>2, <1>3, <1>4 DEF WhileLoop

LEMMA IfOutside ==
  ASSUME NEW T, Fitted(T), Here \in Nat, IfCommand
  PROVE  Outside
<1>1. ASSUME NEW l \in IfPart, Go(Joined(AfterIfPart(l))), Peek PROVE Outside
  BY <1>1, GoesTo, PeekReads DEF Outside, InnerPlace, IfPart, AfterIfPart
<1>2. ASSUME NEW cause, NEW location, FailIn(cause, location) \/ FailAt(cause, location) PROVE Outside
  BY <1>2, ErrorsEnd DEF Outside
<1>3. ASSUME token.kind \in {"then", "elif", "else"}, NEW f, Call(f, CompoundList) PROVE Outside
  BY <1>3, CallsTo, PeekReads DEF Outside, InnerPlace, Newline
<1>4. ASSUME NEW l \in {"if.rest", "if.fi"}, NEW kinds, At(l, kinds), token.kind = "fi", Return(Made("if command")) PROVE Outside
  BY <1>4, AtFacts, ReturnLands, PeekReads DEF Outside, LinePlace, Newline
<1>5. QED
  BY <1>1, <1>2, <1>3, <1>4, AtFacts DEF IfCommand

LEMMA CaseItemOutside ==
  ASSUME NEW T, Fitted(T), Here \in Nat, CaseItem
  PROVE  Outside
<1>1. ASSUME At("case.item", {"esac"}), Return(None), Peek PROVE Outside
  BY <1>1, AtFacts, ReturnLands, PeekReads DEF Outside, LinePlace
<1>2. ASSUME token.kind \in Token, Go(With("case.separator", WordTree)) PROVE Outside
  BY <1>2, WordsAreNoLines, GoesTo, PeekReads DEF Outside, InnerPlace
<1>3. ASSUME token.kind # Newline, Go(To("case.pattern")) PROVE Outside
  BY <1>3, GoesTo, PeekReads DEF Outside, InnerPlace
<1>4. ASSUME token.kind # Newline, Go(To("case.next")) PROVE Outside
  BY <1>4, GoesTo, PeekReads DEF Outside, InnerPlace
<1>5. ASSUME At("case.separator", {")"}), Call(To("case.body"), CompoundList) PROVE Outside
  BY <1>5, AtFacts, CallsTo, PeekReads DEF Outside, InnerPlace, Newline
<1>6. ASSUME Returned("case.body", "Some"), NEW v, Return(v), Peek PROVE Outside
  BY <1>6, AtFacts, ReturnLands, PeekReads DEF Outside, LinePlace
<1>7. ASSUME NEW cause, Fail(cause) PROVE Outside
  BY <1>7, ErrorsEnd DEF Outside
<1>8. QED
  BY <1>1, <1>2, <1>3, <1>4, <1>5, <1>6, <1>7, AtFacts DEF CaseItem, Newline

-----------------------------------------------------------------------------
(* Words that have no commands in them                                     *)

(* Between the functions, the last token taken is this, or none is.        *)
Grown(kinds) == taken' = Append(taken, token.kind) /\ token.kind \in kinds
Still == taken' = taken

QuietPlace == {"for.values", "array", "case.in.auto"}
CaseIn == {"case.in", "case.in.auto"}
Turn ==
  \/ outcome' # "none"
  \/ /\ ReadsLines \/ Top.at \in QuietPlace
     /\ Top'.at = "for.values" =>
          Grown({"in"}) \/ (Top.at = "for.values" /\ (Still \/ Grown(Token \cup {IoNumber})))
     /\ Top'.at = "array.open" => Grown({"array"}) \/ (Top.at = "array.open" /\ Still)
     /\ Top'.at = "array" => \/ Top.at = "array.open" /\ Grown({"("})
                             \/ Top.at = "array" /\ (Still \/ Grown(Token \cup {Newline}))
     /\ Top'.at = "case.subject" => Grown({"case"}) \/ (Top.at = "case.subject" /\ Still)
     /\ Top'.at \in CaseIn => \/ Top.at = "case.subject" /\ Grown(Kind)
                              \/ Top.at \in CaseIn /\ (Still \/ Grown({Newline}))

LEMMA OutsideTurns == Outside => Turn
BY DEF Outside, Turn, InnerPlace, CaseIn

LEMMA Grows ==
  /\ \A kinds : token.kind \in kinds /\ Take => Grown(kinds)
  /\ \A kinds : token.kind \in kinds /\ TakeNewline => Grown(kinds)
  /\ Peek => Still
  /\ Substitute => Still
BY DEF Grown, Still, Take, TakeNewline, TakeRaw, Peek, Substitute

LEMMA SubstituteReads ==
  ASSUME token.kind \in DOMAIN Alias
  PROVE  ReadsLines
BY AliasAssumption DEF ReadsLines, Newline, Operator

LEMMA AutoTurns ==
  ASSUME NEW T, Fitted(T), Here \in Nat, TakeTokenAuto
  PROVE  Turn
<1>1. Still /\ token.kind \in DOMAIN Alias
  BY Grows DEF TakeTokenAuto, SubstitutesHere, Applies, aliases
<1>2. ReadsLines
  BY <1>1, SubstituteReads
<1>3. CASE Top.at = "case.in"
  <2>1. Top'.at = "case.in.auto"
    BY <1>3, GoesTo DEF TakeTokenAuto
  <2>2. QED
    BY <1>1, <1>2, <1>3, <2>1 DEF Turn, CaseIn
<1>4. CASE Top.at # "case.in"
  <2>1. Top'.at = Top.at
    BY <1>4, GoesTo DEF TakeTokenAuto
  <2>2. QED
    BY <1>1, <1>2, <2>1 DEF Turn
<1>5. QED
  BY <1>3, <1>4

LEMMA SkipTurns ==
  ASSUME NEW T, Fitted(T), Here \in Nat, SkipNewline
  PROVE  Turn
<1>1. PICK l \in NewlinePlace :
        At(l, {Newline}) /\ TakeNewline /\ Go(To(IF l = "for.in" THEN "for.in.next" ELSE l))
  BY DEF SkipNewline
<1>2. Top'.at = IF l = "for.in" THEN "for.in.next" ELSE l
  BY <1>1, GoesTo
<1>3. Top.at = l /\ ReadsLines /\ Grown({Newline})
  BY <1>1, AtFacts, PeekReads, Grows
<1>4. l \notin InnerPlace \/ l = "case.in"
  BY DEF NewlinePlace, InnerPlace
<1>5. CASE l = "case.in"
  BY <1>2, <1>3, <1>5 DEF Turn, CaseIn
<1>6. CASE l \notin InnerPlace
  BY <1>2, <1>3, <1>6 DEF Turn, CaseIn, InnerPlace
<1>7. QED
  BY <1>4, <1>5, <1>6

LEMMA WordTurns ==
  ASSUME NEW T, Fitted(T), Here \in Nat, SimpleCommandWord
  PROVE  Turn
<1>1. PICK l \in SimplePlace :
        /\ At(l, Token)
        /\ ~EndsSimple
        /\ IF Applies(token, l = "simple")
           THEN Substitute /\ IF IsEmpty(Top.parts) THEN Return(AliasSubstituted) ELSE Go(Top)
           ELSE /\ Take
                /\ CASE l = "simple" /\ token.kind = "assign" -> Go(With(l, Leaf("scalar")))
                     [] l = "simple" /\ token.kind = "array" ->
                          Call(With(l, Leaf("scalar")), <<Frame("array.open")>>)
                     [] OTHER -> Go(With("arguments", WordTree))
  BY DEF SimpleCommandWord
<1>2. Top.at = l /\ token.kind \in Token /\ l \notin InnerPlace /\ "arguments" \notin InnerPlace
  BY <1>1, AtFacts, SimplePlaces DEF InnerPlace
<1>3. ReadsLines
  BY <1>2, WordsAreNoLines, PeekReads
<1>4. ASSUME Go(Top) \/ Go(With(l, Leaf("scalar"))) \/ Go(With("arguments", WordTree))
      PROVE  Outside
  BY <1>2, <1>3, <1>4, GoesTo DEF Outside
<1>5. ASSUME Return(AliasSubstituted) PROVE Outside
  <2>1. Top.at \notin LinePlace
    BY <1>2 DEF SimplePlace, LinePlace
  <2>2. QED
    BY <1>3, <1>5, <2>1, ReturnLands DEF Outside
<1>6. ASSUME Take, token.kind = "array", Call(With(l, Leaf("scalar")), <<Frame("array.open")>>)
      PROVE  Turn
  <2>1. Top'.at = "array.open"
    BY <1>6, CallsTo DEF FreshPlace
  <2>2. Grown({"array"})
    BY <1>6, Grows
  <2>3. QED
    BY <1>3, <2>1, <2>2 DEF Turn, CaseIn
<1>7. QED
  BY <1>1, <1>4, <1>5, <1>6, OutsideTurns

LEMMA ArrayTurns ==
  ASSUME NEW T, Fitted(T), Here \in Nat, ArrayValues
  PROVE  Turn
<1>1. ASSUME At("array.open", {"("}), Take, Go([To("array") EXCEPT !.open = Here]) PROVE Turn
  <2>1. Top.at = "array.open" /\ Top'.at = "array" /\ Grown({"("}) /\ token.kind = "("
    BY <1>1, AtFacts, GoesTo, Grows
  <2>2. ReadsLines
    BY <2>1, PeekReads DEF Newline
  <2>3. QED
    BY <2>1, <2>2 DEF Turn, CaseIn
<1>2. ASSUME NEW l \in {"array.open", "array"}, Top.at = l, NEW v, Return(v),
             Peek \/ token.kind = ")"
      PROVE  Outside
  BY <1>2, ReturnLands, PeekReads DEF Outside, LinePlace, Newline
<1>3. ASSUME Top.at = "array", token.kind \in Token \cup {Newline}, Take,
             Go(With("array", WordTree)) \/ Go(Top)
      PROVE  Turn
  <2>1. Top'.at = "array" /\ Grown(Token \cup {Newline})
    BY <1>3, GoesTo, Grows
  <2>2. QED
    BY <1>3, <2>1 DEF Turn, QuietPlace, CaseIn
<1>4. ASSUME FailIn("UnclosedArrayValue", Top.open) PROVE Outside
  BY <1>4, ErrorsEnd DEF Outside
<1>5. QED
  BY <1>1, <1>2, <1>3, <1>4, AtFacts, OutsideTurns DEF ArrayValues

LEMMA OpeningLands ==
  ASSUME NEW T, Fitted(T), NEW k \in OpeningToken, Become(Opened(Opening(k)))
  PROVE  Top'.at \notin InnerPlace \/ (k = "case" /\ Top'.at = "case.subject")
<1>1. Trees(T) /\ Frame("simple").at = "simple"
  BY DEF Fitted, Frame
<1>2. ASSUME NEW f, Become(Opened(<<f>> \o CompoundList)) PROVE Top'.at = "simple"
  <2>1. PICK X : /\ Opened(<<f>> \o CompoundList) \in Seq(X)
                 /\ Opened(<<f>> \o CompoundList) # <<>>
                 /\ Last(Opened(<<f>> \o CompoundList)) = Frame("simple")
    BY <1>1, OpenedLands
  <2>2. QED
    BY <1>1, <1>2, <2>1, BecomeLands
<1>3. ASSUME NEW l, Become(Opened(<<Frame(l)>>)) PROVE Top'.at = l
  <2> DEFINE g == [Frame(l) EXCEPT !.open = Here, !.clause = Here]
             r == <<g>>
  <2>1. Opened(<<Frame(l)>>) = r
    BY DEF Opened
  <2>2. g.at = l
    BY DEF Frame
  <2> HIDE DEF g
  <2>3. r \in Seq({g}) /\ r # <<>> /\ Last(r) = g
    BY DEF Last
  <2> HIDE DEF r
  <2>4. Become(r)
    BY <1>3, <2>1
  <2>5. QED
    BY <2>2, <2>3, <2>4, BecomeLands
<1>4. k \in {"{", "(", "while", "until", "if", "for", "case"}
  BY DEF OpeningToken, CompoundKeyword
<1>5. CASE k \in {"{", "(", "while", "until", "if"}
  <2>1. \E f : Opening(k) = <<f>> \o CompoundList
    BY <1>5 DEF Opening
  <2>2. QED
    BY <1>2, <2>1 DEF InnerPlace
<1>6. CASE k \in {"for", "case"}
  <2>1. Opening(k) = <<Frame(IF k = "for" THEN "for.name" ELSE "case.subject")>>
    BY <1>6 DEF Opening
  <2>2. QED
    BY <1>3, <1>6, <2>1 DEF InnerPlace
<1>7. QED
  BY <1>4, <1>5, <1>6

LEMMA CompoundTurns ==
  ASSUME NEW T, Fitted(T), Here \in Nat, CompoundCommand
  PROVE  Turn
<1>1. ASSUME At("compound_command", OpeningToken), Take, Become(Opened(Opening(token.kind))) PROVE Turn
  <2>1. token.kind \in OpeningToken /\ token.kind # Newline
    <3>1. token.kind \in OpeningToken
      BY <1>1, AtFacts
    <3>2. Newline \notin OpeningToken
      BY DEF OpeningToken, CompoundKeyword, Newline
    <3>3. QED
      BY <3>1, <3>2
  <2>2. ReadsLines
    BY <2>1, PeekReads
  <2>3. CASE Top'.at \notin InnerPlace
    BY <2>2, <2>3, OutsideTurns DEF Outside
  <2>4. CASE token.kind = "case" /\ Top'.at = "case.subject"
    BY <1>1, <2>2, <2>4, Grows DEF Turn, CaseIn
  <2>5. QED
    BY <1>1, <2>1, <2>3, <2>4, OpeningLands
<1>2. ASSUME At("compound_command", Kind \ OpeningToken), Return(None), Peek PROVE Outside
  BY <1>2, AtFacts, ReturnLands, PeekReads DEF Outside, LinePlace
<1>3. QED
  BY <1>1, <1>2, OutsideTurns DEF CompoundCommand

LEMMA ForTurns ==
  ASSUME NEW T, Fitted(T), Here \in Nat, ForLoop
  PROVE  Turn
<1>1. ASSUME token.kind \in Token \cup {IoNumber}, Go(With("for.in", WordTree)) PROVE Outside
  BY <1>1, WordsAreNoLines, GoesTo, PeekReads DEF Outside, InnerPlace
<1>2. ASSUME Go(To("for.body")), Peek \/ token.kind = ";" PROVE Outside
  BY <1>2, GoesTo, PeekReads DEF Outside, InnerPlace, Newline
<1>3. ASSUME token.kind = "in", Take, Go(With("for.values", Leaf("in"))) PROVE Turn
  <2>1. Top'.at = "for.values" /\ Grown({"in"}) /\ ReadsLines
    BY <1>3, GoesTo, Grows, PeekReads DEF Newline
  <2>2. QED
    BY <2>1 DEF Turn, CaseIn
<1>4. ASSUME Top.at = "for.values", token.kind \in Token \cup {IoNumber}, Take,
             Go(With("for.values", WordTree))
      PROVE  Turn
  <2>1. Top'.at = "for.values" /\ Grown(Token \cup {IoNumber})
    BY <1>4, GoesTo, Grows
  <2>2. QED
    BY <1>4, <2>1 DEF Turn, QuietPlace, CaseIn
<1>5. ASSUME Top.at = "for.values", Go(To("for.body")) PROVE Turn
  <2>1. Top'.at = "for.body"
    BY <1>5, GoesTo
  <2>2. QED
    BY <1>5, <2>1 DEF Turn, QuietPlace, CaseIn
<1>6. ASSUME token.kind = "do", Call(To("for.done"), Opened(DoClause)) PROVE Outside
  BY <1>6, CompoundLands, PeekReads DEF Outside, InnerPlace, Newline
<1>7. ASSUME Returned("for.done", "Some"), NEW v, Return(v), Peek PROVE Outside
  BY <1>7, AtFacts, ReturnLands, PeekReads DEF Outside, LinePlace
<1>8. ASSUME NEW cause, Fail(cause) \/ FailIn(cause, Top.open) PROVE Outside
  BY <1>8, ErrorsEnd DEF Outside
<1>9. ASSUME NEW l \in {"for.in", "for.in.next"},
             \/ At(l, {"do"}) /\ Go(To("for.body")) /\ Peek
             \/ At(l, {"in"}) /\ Take /\ Go(With("for.values", Leaf("in")))
      PROVE  Turn
  <2>1. CASE At(l, {"do"}) /\ Go(To("for.body")) /\ Peek
    BY <1>2, <2>1, OutsideTurns
  <2>2. CASE At(l, {"in"}) /\ Take /\ Go(With("for.values", Leaf("in")))
    <3>1. token.kind = "in"
      BY <2>2 DEF At
    <3>2. QED
      BY <1>3, <2>2, <3>1
  <2>3. QED
    BY <1>9, <2>1, <2>2
<1>10. ASSUME \/ At("for.name", Token \cup {IoNumber}) /\ Go(With("for.in", WordTree))
              \/ At("for.in", {";"}) /\ Go(To("for.body"))
              \/ At("for.body", {"do"}) /\ Call(To("for.done"), Opened(DoClause))
       PROVE  Outside
  <2>1. CASE At("for.name", Token \cup {IoNumber}) /\ Go(With("for.in", WordTree))
    BY <1>1, <2>1, AtFacts
  <2>2. CASE At("for.in", {";"}) /\ Go(To("for.body"))
    <3>1. token.kind = ";"
      BY <2>2 DEF At
    <3>2. QED
      BY <1>2, <2>2, <3>1
  <2>3. CASE At("for.body", {"do"}) /\ Call(To("for.done"), Opened(DoClause))
    <3>1. token.kind = "do"
      BY <2>3 DEF At
    <3>2. QED
      BY <1>6, <2>3, <3>1
  <2>4. QED
    BY <1>10, <2>1, <2>2, <2>3
<1>11. ASSUME \/ At("for.values", Token \cup {IoNumber}) /\ Take /\ Go(With("for.values", WordTree))
              \/ At("for.values", {";", Newline}) /\ Go(To("for.body"))
       PROVE  Turn
  BY <1>4, <1>5, <1>11, AtFacts
<1>12. QED
  BY <1>7, <1>8, <1>9, <1>10, <1>11, OutsideTurns DEF ForLoop

LEMMA CaseTurns ==
  ASSUME NEW T, Fitted(T), Here \in Nat, CaseCommand
  PROVE  Turn
<1>1. ASSUME Top.at = "case.subject", token.kind \in Token, Take, Go(With("case.in", WordTree)) PROVE Turn
  <2>1. Top'.at = "case.in" /\ Grown(Kind) /\ ReadsLines
    BY <1>1, WordsAreNoLines, KindFacts, GoesTo, Grows, PeekReads
  <2>2. QED
    BY <1>1, <2>1 DEF Turn, CaseIn
<1>2. ASSUME token.kind \in {"in", ";;"}, Call(To("case.items"), Item) PROVE Outside
  BY <1>2, CallsTo, PeekReads DEF Outside, InnerPlace, Newline, Item, FreshPlace
<1>3. ASSUME Top.at = "case.in.auto", token.kind = Newline, Take, Go(To("case.in")) PROVE Turn
  <2>1. Top'.at = "case.in" /\ Grown({Newline})
    BY <1>3, GoesTo, Grows
  <2>2. QED
    BY <1>3, <2>1 DEF Turn, CaseIn, QuietPlace
<1>4. ASSUME Go(Joined("case.end")) \/ Go(To("case.close")), Peek PROVE Outside
  BY <1>4, GoesTo, PeekReads DEF Outside, InnerPlace
<1>5. ASSUME Top.at \in {"case.end", "case.close"}, token.kind = "esac", Return(Made("case command"))
      PROVE  Outside
  BY <1>5, ReturnLands, PeekReads DEF Outside, LinePlace, Newline
<1>6. ASSUME NEW cause, Fail(cause) \/ FailIn(cause, Top.open) PROVE Outside
  BY <1>6, ErrorsEnd DEF Outside
<1>7. ASSUME NEW l \in {"case.end", "case.close"}, At(l, {"esac"}), Return(Made("case command"))
      PROVE  Outside
  <2>1. Top.at = l /\ token.kind = "esac"
    BY <1>7 DEF At
  <2>2. QED
    BY <1>5, <1>7, <2>1
<1>8. ASSUME NEW l, At(l, {"in"}), Call(To("case.items"), Item)
      PROVE  Outside
  <2>1. token.kind = "in"
    BY <1>8 DEF At
  <2>2. QED
    BY <1>2, <1>8, <2>1
<1>9. ASSUME At("case.end", {";;"}), Call(To("case.items"), Item)
      PROVE  Outside
  <2>1. token.kind = ";;"
    BY <1>9 DEF At
  <2>2. QED
    BY <1>2, <1>9, <2>1
<1>10. ASSUME \/ At("case.subject", Token) /\ Take /\ Go(With("case.in", WordTree))
              \/ At("case.in.auto", {Newline}) /\ Take /\ Go(To("case.in"))
       PROVE  Turn
  <2>1. CASE At("case.subject", Token) /\ Take /\ Go(With("case.in", WordTree))
    BY <1>1, <2>1, AtFacts
  <2>2. CASE At("case.in.auto", {Newline}) /\ Take /\ Go(To("case.in"))
    <3>1. Top.at = "case.in.auto" /\ token.kind = Newline
      BY <2>2 DEF At
    <3>2. QED
      BY <1>3, <2>2, <3>1
  <2>3. QED
    BY <1>10, <2>1, <2>2
<1>11. QED
  BY <1>4, <1>6, <1>7, <1>8, <1>9, <1>10, OutsideTurns DEF CaseCommand

LEMMA PollTurns ==
  ASSUME NEW T, Fitted(T), Here \in Nat, Poll
  PROVE  Turn \/ RequireToken \/ LexerFails \/ NewlineFails
<1>1. TakeTokenAuto \/ SkipNewline \/ SimpleCommandWord \/ ArrayValues \/ CompoundCommand \/ ForLoop
      \/ CaseCommand => Turn
  BY AutoTurns, SkipTurns, WordTurns, ArrayTurns, CompoundTurns, ForTurns, CaseTurns
<1>2. Retry \/ PassOn \/ CommandLine \/ MaybeCompoundList \/ ListItem \/ AndOr \/ PipelineParts
      \/ CommandKind \/ SimpleCommand => Outside
  BY RetryOutside, PassOnOutside, CommandLineOutside, CompoundListOutside, ListOutside, AndOrOutside,
     PipelineOutside, CommandKindOutside, SimpleOutside
<1>3. ShortFunctionDefinition \/ Redirection \/ RedirectionOperand \/ FullCompoundCommand \/ Close
      \/ WhileLoop \/ IfCommand \/ CaseItem => Outside
  BY FunctionOutside, RedirOutside, OperandOutside, FullOutside, CloseOutside, WhileOutside, IfOutside,
     CaseItemOutside
<1>4. QED
  BY <1>1, <1>2, <1>3, OutsideTurns DEF Poll

-----------------------------------------------------------------------------
(* Newlines that no contents are read after                                *)

(* After p of the tokens t, the parser may be among the words of a for     *)
(* loop, among those of an array, or before the `in` of a case command.    *)
InFor(t, p) ==
  \E q \in 1 .. p : t[q] = "in" /\ \A r \in q + 1 .. p : t[r] \in Token \cup {IoNumber}
InArray(t, p) ==
  \E q \in 2 .. p : /\ t[q - 1] = "array" /\ t[q] = "("
                    /\ \A r \in q + 1 .. p : t[r] \in Token \cup {Newline}
InCase(t, p) ==
  \E q \in 1 .. p - 1 : t[q] = "case" /\ \A r \in q + 2 .. p : t[r] = Newline

(* Token p of t is a newline there.                                        *)
InWords(t, p) == InFor(t, p) \/ InArray(t, p) \/ InCase(t, p)
NewlineInWords(t, p) == t[p] = Newline /\ InWords(t, p - 1)

(* A here-document that is not read when its line ends was begun before    *)
(* such a newline.                                                         *)
LateOnlyInWords ==
  outcome = "none" =>
    \A i \in DOMAIN unread :
      \/ unread[i].line = line
      \/ \E p \in unread[i].location + 1 .. Len(taken) : NewlineInWords(taken, p)

(* What has been taken, of the place the parser is at                      *)
Placed ==
  /\ Top.at = "for.values" => InFor(taken, Len(taken))
  /\ Top.at = "array.open" => taken # <<>> /\ taken[Len(taken)] = "array"
  /\ Top.at = "array" => InArray(taken, Len(taken))
  /\ Top.at = "case.subject" => taken # <<>> /\ taken[Len(taken)] = "case"
  /\ Top.at \in CaseIn => InCase(taken, Len(taken))
Located == \A i \in 1 .. Len(unread) : unread[i].location <= Len(taken)
LateInv == outcome = "none" => Placed /\ Located /\ LateOnlyInWords

LEMMA OneMoreTaken ==
  ASSUME NEW S, NEW t \in Seq(S), NEW k \in S
  PROVE  /\ Append(t, k) \in Seq(S) /\ Len(t) \in Nat /\ Len(Append(t, k)) = Len(t) + 1
         /\ \A i \in 1 .. Len(t) : Append(t, k)[i] = t[i]
         /\ Append(t, k)[Len(t) + 1] = k
BY AppendProperties, LenProperties

LEMMA SameBefore ==
  ASSUME NEW t, NEW u, NEW n \in Nat, \A i \in 1 .. n : u[i] = t[i], NEW p \in 0 .. n, InWords(t, p)
  PROVE  InWords(u, p)
<1>1. CASE InFor(t, p)
  <2>1. PICK q \in 1 .. p : t[q] = "in" /\ \A r \in q + 1 .. p : t[r] \in Token \cup {IoNumber}
    BY <1>1 DEF InFor
  <2>2. u[q] = "in" /\ \A r \in q + 1 .. p : u[r] \in Token \cup {IoNumber}
    BY <2>1
  <2>3. QED
    BY <2>2 DEF InWords, InFor
<1>2. CASE InArray(t, p)
  <2>1. PICK q \in 2 .. p : /\ t[q - 1] = "array" /\ t[q] = "("
                            /\ \A r \in q + 1 .. p : t[r] \in Token \cup {Newline}
    BY <1>2 DEF InArray
  <2>2. u[q - 1] = "array" /\ u[q] = "(" /\ \A r \in q + 1 .. p : u[r] \in Token \cup {Newline}
    BY <2>1
  <2>3. QED
    BY <2>2 DEF InWords, InArray
<1>3. CASE InCase(t, p)
  <2>1. PICK q \in 1 .. p - 1 : t[q] = "case" /\ \A r \in q + 2 .. p : t[r] = Newline
    BY <1>3 DEF InCase
  <2>2. u[q] = "case" /\ \A r \in q + 2 .. p : u[r] = Newline
    BY <2>1
  <2>3. QED
    BY <2>2 DEF InWords, InCase
<1>4. QED
  BY <1>1, <1>2, <1>3 DEF InWords

LEMMA NewlineStays ==
  ASSUME NEW S, NEW t \in Seq(S), NEW k \in S, NEW p \in 1 .. Len(t), NewlineInWords(t, p)
  PROVE  NewlineInWords(Append(t, k), p)
<1> DEFINE u == Append(t, k)
<1>1. Len(t) \in Nat /\ \A i \in 1 .. Len(t) : u[i] = t[i]
  BY OneMoreTaken
<1> HIDE DEF u
<1>2. p - 1 \in 0 .. Len(t) /\ InWords(t, p - 1) /\ u[p] = Newline
  BY <1>1 DEF NewlineInWords
<1>3. InWords(u, p - 1)
  BY <1>1, <1>2, SameBefore
<1>4. QED
  BY <1>2, <1>3 DEF NewlineInWords, u

(* The words begin, and go on.                                             *)
LEMMA ForGrows ==
  ASSUME NEW S, NEW t \in Seq(S), NEW k \in S,
         k = "in" \/ (InFor(t, Len(t)) /\ k \in Token \cup {IoNumber})
  PROVE  InFor(Append(t, k), Len(Append(t, k)))
<1> DEFINE u == Append(t, k)
           n == Len(t)
<1>1. n \in Nat /\ Len(u) = n + 1 /\ (\A i \in 1 .. n : u[i] = t[i]) /\ u[n + 1] = k
  BY OneMoreTaken
<1> HIDE DEF u, n
<1>2. CASE k = "in"
  BY <1>1, <1>2 DEF InFor, u, n
<1>3. CASE InFor(t, n) /\ k \in Token \cup {IoNumber}
  <2>1. PICK q \in 1 .. n : t[q] = "in" /\ \A r \in q + 1 .. n : t[r] \in Token \cup {IoNumber}
    BY <1>3 DEF InFor
  <2>2. q \in 1 .. n + 1 /\ u[q] = "in"
    BY <1>1, <2>1
  <2>3. ASSUME NEW r \in q + 1 .. n + 1 PROVE u[r] \in Token \cup {IoNumber}
    <3>1. CASE r = n + 1
      BY <1>1, <1>3, <3>1
    <3>2. CASE r # n + 1
      BY <1>1, <2>1, <3>2
    <3>3. QED
      BY <3>1, <3>2
  <2>4. InFor(u, n + 1)
    BY <2>2, <2>3 DEF InFor
  <2>5. QED
    BY <1>1, <2>4 DEF u
<1>4. QED
  BY <1>2, <1>3 DEF n

LEMMA ArrayGrows ==
  ASSUME NEW S, NEW t \in Seq(S), NEW k \in S,
         \/ k = "(" /\ t # <<>> /\ t[Len(t)] = "array"
         \/ InArray(t, Len(t)) /\ k \in Token \cup {Newline}
  PROVE  InArray(Append(t, k), Len(Append(t, k)))
<1> DEFINE u == Append(t, k)
           n == Len(t)
<1>1. n \in Nat /\ Len(u) = n + 1 /\ (\A i \in 1 .. n : u[i] = t[i]) /\ u[n + 1] = k
  BY OneMoreTaken
<1>2. t # <<>> => n # 0
  BY EmptySeq
<1> HIDE DEF u, n
<1>3. CASE k = "(" /\ t # <<>> /\ t[n] = "array"
  <2> DEFINE m == n + 1
  <2>1. m \in Nat /\ m = n + 1 /\ m - 1 = n /\ m \in 2 .. m
    BY <1>1, <1>2, <1>3
  <2> HIDE DEF m
  <2>2. u[m - 1] = "array" /\ u[m] = "("
    <3>1. u[n] = t[n] /\ u[m] = k
      BY <1>1, <1>2, <1>3, <2>1
    <3>2. QED
      BY <1>3, <2>1, <3>1
  <2>3. \A r \in m + 1 .. m : u[r] \in Token \cup {Newline}
    BY <2>1
  <2>4. InArray(u, m)
    BY <2>1, <2>2, <2>3 DEF InArray
  <2>5. QED
    BY <1>1, <2>1, <2>4 DEF u
<1>4. CASE InArray(t, n) /\ k \in Token \cup {Newline}
  <2>1. PICK q \in 2 .. n : /\ t[q - 1] = "array" /\ t[q] = "("
                            /\ \A r \in q + 1 .. n : t[r] \in Token \cup {Newline}
    BY <1>4 DEF InArray
  <2>2. q \in 2 .. n + 1 /\ u[q - 1] = "array" /\ u[q] = "("
    BY <1>1, <2>1
  <2>3. ASSUME NEW r \in q + 1 .. n + 1 PROVE u[r] \in Token \cup {Newline}
    <3>1. CASE r = n + 1
      BY <1>1, <1>4, <3>1
    <3>2. CASE r # n + 1
      BY <1>1, <2>1, <3>2
    <3>3. QED
      BY <3>1, <3>2
  <2>4. InArray(u, n + 1)
    BY <2>2, <2>3 DEF InArray
  <2>5. QED
    BY <1>1, <2>4 DEF u
<1>5. QED
  BY <1>3, <1>4 DEF n

LEMMA CaseGrows ==
  ASSUME NEW S, NEW t \in Seq(S), NEW k \in S,
         \/ t # <<>> /\ t[Len(t)] = "case"
         \/ InCase(t, Len(t)) /\ k = Newline
  PROVE  InCase(Append(t, k), Len(Append(t, k)))
<1> DEFINE u == Append(t, k)
           n == Len(t)
<1>1. n \in Nat /\ Len(u) = n + 1 /\ (\A i \in 1 .. n : u[i] = t[i]) /\ u[n + 1] = k
  BY OneMoreTaken
<1>2. t # <<>> => n # 0
  BY EmptySeq
<1> HIDE DEF u, n
<1>3. CASE t # <<>> /\ t[n] = "case"
  <2>1. n \in 1 .. n + 1 - 1 /\ u[n] = "case"
    BY <1>1, <1>2, <1>3
  <2>2. \A r \in n + 2 .. n + 1 : u[r] = Newline
    BY <1>1
  <2>3. InCase(u, n + 1)
    BY <2>1, <2>2 DEF InCase
  <2>4. QED
    BY <1>1, <2>3 DEF u
<1>4. CASE InCase(t, n) /\ k = Newline
  <2>1. PICK q \in 1 .. n - 1 : t[q] = "case" /\ \A r \in q + 2 .. n : t[r] = Newline
    BY <1>4 DEF InCase
  <2>2. q \in 1 .. n + 1 - 1 /\ u[q] = "case"
    BY <1>1, <2>1
  <2>3. ASSUME NEW r \in q + 2 .. n + 1 PROVE u[r] = Newline
    <3>1. CASE r = n + 1
      BY <1>1, <1>4, <3>1
    <3>2. CASE r # n + 1
      BY <1>1, <2>1, <3>2
    <3>3. QED
      BY <3>1, <3>2
  <2> DEFINE m == n + 1
  <2>4. m \in Nat /\ m = n + 1 /\ q \in 1 .. m - 1
    BY <1>1, <2>1
  <2>5. \A r \in q + 2 .. m : u[r] = Newline
    BY <2>3
  <2> HIDE DEF m
  <2>6. InCase(u, m)
    BY <2>2, <2>4, <2>5 DEF InCase
  <2>7. QED
    BY <1>1, <2>4, <2>6 DEF u
<1>5. QED
  BY <1>3, <1>4 DEF n

LEMMA PlacedStep ==
  ASSUME Placed, Turn, outcome' = "none", taken \in Seq(Kind)
  PROVE  Placed'
<1> DEFINE k == token.kind
           S == Kind \cup {k}
<1>1. taken \in Seq(S) /\ k \in S
  BY SeqMonotonic
<1> HIDE DEF S
<1>2. ASSUME NEW kinds, Grown(kinds) PROVE taken' = Append(taken, k) /\ k \in kinds
  BY <1>2 DEF Grown
<1>3. ASSUME Top'.at = "for.values" PROVE InFor(taken', Len(taken'))
  <2>1. CASE Grown({"in"})
    <3>1. taken' = Append(taken, k) /\ k = "in"
      BY <1>2, <2>1
    <3>2. QED
      BY <1>1, <3>1, ForGrows
  <2>2. CASE Top.at = "for.values" /\ Still
    BY <2>2 DEF Placed, Still
  <2>3. CASE Top.at = "for.values" /\ Grown(Token \cup {IoNumber})
    <3>1. InFor(taken, Len(taken))
      BY <2>3 DEF Placed
    <3>2. taken' = Append(taken, k) /\ k \in Token \cup {IoNumber}
      BY <1>2, <2>3
    <3>3. QED
      BY <1>1, <3>1, <3>2, ForGrows
  <2>4. QED
    BY <1>3, <2>1, <2>2, <2>3 DEF Turn
<1>4. ASSUME NEW kind, Grown({kind}) PROVE taken' # <<>> /\ taken'[Len(taken')] = kind
  <2>1. taken' = Append(taken, k) /\ k = kind
    BY <1>2, <1>4
  <2>2. Len(taken) \in Nat /\ Len(taken') = Len(taken) + 1 /\ taken'[Len(taken) + 1] = k
    BY <1>1, <2>1, OneMoreTaken
  <2>3. Len(<<>>) = 0
    OBVIOUS
  <2>4. QED
    BY <2>1, <2>2, <2>3
<1>5. ASSUME Top'.at = "array.open" PROVE taken' # <<>> /\ taken'[Len(taken')] = "array"
  BY <1>4, <1>5 DEF Turn, Placed, Still
<1>6. ASSUME Top'.at = "case.subject" PROVE taken' # <<>> /\ taken'[Len(taken')] = "case"
  BY <1>4, <1>6 DEF Turn, Placed, Still
<1>7. ASSUME Top'.at = "array" PROVE InArray(taken', Len(taken'))
  <2>1. CASE Top.at = "array.open" /\ Grown({"("})
    <3>1. taken # <<>> /\ taken[Len(taken)] = "array"
      BY <2>1 DEF Placed
    <3>2. taken' = Append(taken, k) /\ k = "("
      BY <1>2, <2>1
    <3>3. QED
      BY <1>1, <3>1, <3>2, ArrayGrows
  <2>2. CASE Top.at = "array" /\ Still
    BY <2>2 DEF Placed, Still
  <2>3. CASE Top.at = "array" /\ Grown(Token \cup {Newline})
    <3>1. InArray(taken, Len(taken))
      BY <2>3 DEF Placed
    <3>2. taken' = Append(taken, k) /\ k \in Token \cup {Newline}
      BY <1>2, <2>3
    <3>3. QED
      BY <1>1, <3>1, <3>2, ArrayGrows
  <2>4. QED
    BY <1>7, <2>1, <2>2, <2>3 DEF Turn
<1>8. ASSUME Top'.at \in CaseIn PROVE InCase(taken', Len(taken'))
  <2>1. CASE Top.at = "case.subject" /\ Grown(Kind)
    <3>1. taken # <<>> /\ taken[Len(taken)] = "case"
      BY <2>1 DEF Placed
    <3>2. taken' = Append(taken, k)
      BY <1>2, <2>1
    <3>3. QED
      BY <1>1, <3>1, <3>2, CaseGrows
  <2>2. CASE Top.at \in CaseIn /\ Still
    BY <2>2 DEF Placed, Still
  <2>3. CASE Top.at \in CaseIn /\ Grown({Newline})
    <3>1. InCase(taken, Len(taken))
      BY <2>3 DEF Placed
    <3>2. taken' = Append(taken, k) /\ k = Newline
      BY <1>2, <2>3
    <3>3. QED
      BY <1>1, <3>1, <3>2, CaseGrows
  <2>4. QED
    BY <1>8, <2>1, <2>2, <2>3 DEF Turn
<1>9. QED
  BY <1>3, <1>5, <1>6, <1>7, <1>8 DEF Placed

(* A newline there is among the words.                                     *)
LEMMA QuietNewline ==
  ASSUME Placed, Top.at \in QuietPlace
  PROVE  InWords(taken, Len(taken))
<1>1. CASE Top.at = "for.values"
  BY <1>1 DEF Placed, InWords
<1>2. CASE Top.at = "array"
  BY <1>2 DEF Placed, InWords
<1>3. CASE Top.at = "case.in.auto"
  BY <1>3 DEF Placed, InWords, CaseIn
<1>4. QED
  BY <1>1, <1>2, <1>3 DEF QuietPlace

(* The parser takes no token.                                              *)
LEMMA DocsSame ==
  ASSUME Located, LateOnlyInWords, outcome = "none", UNCHANGED <<unread, taken, line>>
  PROVE  Located' /\ LateOnlyInWords'
<1>1. Located'
  BY DEF Located
<1>2. ASSUME NEW i \in DOMAIN unread, unread[i].line # line
      PROVE  \E p \in unread[i].location + 1 .. Len(taken) : NewlineInWords(taken, p)
  BY <1>2 DEF LateOnlyInWords
<1>3. LateOnlyInWords'
  BY <1>2 DEF LateOnlyInWords
<1>4. QED
  BY <1>1, <1>3

(* It takes one, and begins no here-document: a newline ends the lines of  *)
(* all that are to be read.                                                *)
LEMMA DocsAfterTake ==
  ASSUME Located, LateOnlyInWords, outcome = "none", HereDocsOK, taken \in Seq(Kind),
         Take, token.kind \in Kind,
         token.kind = Newline => unread' = <<>> \/ InWords(taken, Len(taken))
  PROVE  Located' /\ LateOnlyInWords'
<1> DEFINE k == token.kind
           n == Len(taken)
<1>1. taken' = Append(taken, k) /\ unread' = unread /\ line' = IF k = Newline THEN line + 1 ELSE line
  BY DEF Take, TakeRaw
<1>2. n \in Nat /\ Len(taken') = n + 1 /\ (\A i \in 1 .. n : taken'[i] = taken[i]) /\ taken'[n + 1] = k
  BY <1>1, OneMoreTaken
<1>3. unread \in Seq(HereDoc) /\ DOMAIN unread = 1 .. Len(unread)
      /\ \A i \in 1 .. Len(unread) : unread[i].location \in Nat
  <2>1. unread \in Seq(HereDoc)
    BY DEF HereDocsOK
  <2>2. \A i \in 1 .. Len(unread) : unread[i] \in HereDoc
    BY <2>1, LenProperties, ElementOfSeq
  <2>3. QED
    BY <2>1, <2>2, LenProperties DEF HereDoc
<1> HIDE DEF k, n
<1>4. Located'
  BY <1>1, <1>2, <1>3 DEF Located, n
<1>5. ASSUME NEW i \in 1 .. Len(unread), unread[i].line # line'
      PROVE  \E p \in unread[i].location + 1 .. n + 1 : NewlineInWords(taken', p)
  <2>1. unread[i].location \in Nat /\ unread[i].location <= n
    BY <1>3 DEF Located, n
  <2>2. CASE unread[i].line # line
    <3>1. PICK p \in unread[i].location + 1 .. n : NewlineInWords(taken, p)
      BY <1>3, <2>2 DEF LateOnlyInWords, n
    <3>2. p \in 1 .. Len(taken) /\ p \in unread[i].location + 1 .. n + 1
      BY <1>2, <2>1, <3>1 DEF n
    <3>3. NewlineInWords(taken', p)
      BY <1>1, <3>1, <3>2, NewlineStays DEF k
    <3>4. QED
      BY <3>2, <3>3
  <2>3. CASE unread[i].line = line
    <3>1. k = Newline
      BY <1>1, <1>5, <2>3
    <3>2. unread # <<>>
      BY <1>5
    <3>3. InWords(taken, n)
      BY <1>1, <3>1, <3>2 DEF k, n
    <3>4. InWords(taken', n)
      <4>1. n \in 0 .. n
        BY <1>2
      <4>2. QED
        BY <1>2, <3>3, <4>1, SameBefore
    <3>5. n + 1 - 1 = n /\ n + 1 \in unread[i].location + 1 .. n + 1
      BY <1>2, <2>1
    <3>6. NewlineInWords(taken', n + 1)
      BY <1>2, <3>1, <3>4, <3>5 DEF NewlineInWords
    <3>7. QED
      BY <3>5, <3>6
  <2>4. QED
    BY <2>2, <2>3
<1>6. LateOnlyInWords'
  BY <1>1, <1>2, <1>3, <1>5 DEF LateOnlyInWords
<1>7. QED
  BY <1>4, <1>6

(* It begins one: this is on the line that the parser is on.               *)
LEMMA DocsAfterMemorizing ==
  ASSUME Located, LateOnlyInWords, HereDocsOK, taken \in Seq(Kind), line \in Nat, Memorizes
  PROVE  Located' /\ LateOnlyInWords'
<1> DEFINE k == token.kind
           n == Len(taken)
           m == Len(unread)
           d == [number |-> NextNumber, line |-> line, location |-> n + 1]
<1>1. taken' = Append(taken, k) /\ line' = line /\ k \in Kind /\ outcome = "none"
      /\ unread' = Append(unread, d)
  BY WordsAreNoLines DEF Memorizes, TakeRaw, Memorized, Here
<1>2. n \in Nat /\ Len(taken') = n + 1
  BY <1>1, OneMoreTaken
<1>3. unread \in Seq(HereDoc) /\ m \in Nat /\ \A i \in 1 .. m : unread[i].location \in Nat
  <2>1. unread \in Seq(HereDoc)
    BY DEF HereDocsOK
  <2>2. \A i \in 1 .. Len(unread) : unread[i] \in HereDoc
    BY <2>1, LenProperties, ElementOfSeq
  <2>3. QED
    BY <2>1, <2>2, LenProperties DEF HereDoc
<1>4. /\ unread' \in Seq(HereDoc \cup {d}) /\ Len(unread') = m + 1 /\ unread'[m + 1] = d
      /\ \A i \in 1 .. m : unread'[i] = unread[i]
  <2> DEFINE S == HereDoc \cup {d}
  <2>1. unread \in Seq(S) /\ d \in S
    BY <1>3, SeqMonotonic
  <2> HIDE DEF S, d
  <2>2. unread' \in Seq(S) /\ Len(unread') = m + 1 /\ unread'[m + 1] = d
        /\ \A i \in 1 .. m : unread'[i] = unread[i]
    BY <1>1, <2>1, OneMoreTaken
  <2>3. QED
    BY <2>2 DEF S
<1>5. DOMAIN unread = 1 .. m /\ DOMAIN unread' = 1 .. m + 1
  BY <1>3, <1>4, LenProperties
<1>6. d.line = line /\ d.location = n + 1
  OBVIOUS
<1> HIDE DEF k, n, m, d
<1>7. ASSUME NEW i \in 1 .. m + 1
      PROVE  unread'[i].location <= n + 1
  <2>1. CASE i = m + 1
    BY <1>2, <1>4, <1>6, <2>1
  <2>2. CASE i # m + 1
    BY <1>2, <1>3, <1>4, <2>2 DEF Located, m, n
  <2>3. QED
    BY <2>1, <2>2
<1>8. ASSUME NEW i \in 1 .. m + 1, unread'[i].line # line
      PROVE  \E p \in unread'[i].location + 1 .. n + 1 : NewlineInWords(taken', p)
  <2>1. i \in 1 .. m /\ unread'[i] = unread[i]
    BY <1>3, <1>4, <1>6, <1>8
  <2>2. PICK p \in unread[i].location + 1 .. n : NewlineInWords(taken, p)
    BY <1>1, <1>5, <1>8, <2>1 DEF LateOnlyInWords, n
  <2>3. p \in 1 .. Len(taken) /\ p \in unread[i].location + 1 .. n + 1
    BY <1>2, <1>3, <2>1, <2>2 DEF n
  <2>4. NewlineInWords(taken', p)
    BY <1>1, <2>2, <2>3, NewlineStays DEF k
  <2>5. QED
    BY <2>1, <2>3, <2>4
<1>9. Located'
  BY <1>2, <1>4, <1>7 DEF Located
<1>10. LateOnlyInWords'
  BY <1>1, <1>2, <1>5, <1>8 DEF LateOnlyInWords
<1>11. QED
  BY <1>9, <1>10

(* No step does more, or it ends the command line.                         *)
LEMMA LateStep == IInv /\ LateInv /\ [Poll]_vars => LateInv'
<1> SUFFICES ASSUME IInv, LateInv, [Poll]_vars, outcome' = "none" PROVE LateInv'
  BY DEF LateInv
<1>1. LexerOK /\ HereDocsOK /\ taken \in Seq(Kind) /\ line \in Nat
  BY DEF IInv, LexerOK
<1>2. CASE UNCHANGED vars
  BY <1>2 DEF vars, LateInv, Placed, Located, LateOnlyInWords, Top
<1>3. ASSUME Poll PROVE LateInv'
  <2>1. PICK T : Fitted(T)
    BY DEF IInv
  <2>2. Here \in Nat
    BY LenProperties DEF IInv, LexerOK, Here
  <2>3. NextNumber \in Nat
    BY LenProperties DEF IInv, HereDocsOK, NextNumber
  <2>4. Proceeds \/ Memorizes \/ Stops \/ Completes \/ RequireToken \/ LexerFails \/ NewlineFails
    BY <1>3, <2>1, <2>2, <2>3, PollSteps
  <2>5. Turn \/ RequireToken \/ LexerFails \/ NewlineFails
    BY <1>3, <2>1, <2>2, PollTurns
  <2>6. ~Stops /\ ~Completes /\ ~LexerFails /\ ~NewlineFails
    BY DEF Stops, Failure, Completes, LexerFails, NewlineFails, HereDocContentFails,
           EnsureNoUnreadHereDoc, End, EndWith
  <2>7. outcome = "none"
    BY <2>4, <2>6 DEF Proceeds, Memorizes, RequireToken, Running
  <2>8. Placed /\ Located /\ LateOnlyInWords
    BY <2>7 DEF LateInv
  <2>9. CASE RequireToken
    <3>1. UNCHANGED <<unread, taken, line, stack>>
      BY <2>9 DEF RequireToken
    <3>2. Located' /\ LateOnlyInWords'
      BY <2>7, <2>8, <3>1, DocsSame
    <3>3. Placed'
      BY <2>8, <3>1 DEF Placed, Top
    <3>4. QED
      BY <3>2, <3>3 DEF LateInv
  <2>10. ASSUME Turn, Proceeds \/ Memorizes PROVE LateInv'
    <3>1. Placed'
      BY <1>1, <2>8, <2>10, PlacedStep
    <3>2. CASE Peek \/ Substitute
      <4>1. UNCHANGED <<unread, taken, line>>
        BY <3>2 DEF Peek, Substitute
      <4>2. QED
        BY <2>7, <2>8, <4>1, <3>1, DocsSame DEF LateInv
    <3>3. CASE Skips
      <4>1. unread' = <<>>
        BY <3>3 DEF Skips, TakeNewline, HereDocContents
      <4>2. Located' /\ LateOnlyInWords'
        BY <4>1 DEF Located, LateOnlyInWords
      <4>3. QED
        BY <3>1, <4>2 DEF LateInv
    <3>4. CASE Consumes
      <4>1. Take /\ token.kind \in Kind
        BY <3>4 DEF Consumes
      <4>2. token.kind = Newline => unread' = <<>> \/ InWords(taken, Len(taken))
        BY <2>8, <2>10, <4>1, QuietNewline DEF Turn, ReadsLines
      <4>3. Located' /\ LateOnlyInWords'
        BY <1>1, <2>7, <2>8, <4>1, <4>2, DocsAfterTake
      <4>4. QED
        BY <3>1, <4>3 DEF LateInv
    <3>5. CASE Memorizes
      BY <1>1, <2>8, <3>1, <3>5, DocsAfterMemorizing DEF LateInv
    <3>6. QED
      BY <2>10, <3>2, <3>3, <3>4, <3>5 DEF Proceeds, Substitutes
  <2>11. QED
    BY <2>4, <2>5, <2>6, <2>9, <2>10
<1>4. QED
  BY <1>2, <1>3

LEMMA LateInit == Init => LateInv
<1> SUFFICES ASSUME Init PROVE LateInv
  OBVIOUS
<1>1. Top.at \notin InnerPlace
  <2> DEFINE T == {Leaf(name) : name \in NodeName}
             f == Frame("command_line")
             s == List
  <2>1. Trees(T)
    BY LeavesAreTrees
  <2> HIDE DEF T
  <2>2. s \in Seq(FrameOf(T)) /\ s # <<>> /\ Last(s) = Frame("simple")
    BY <2>1, LastOfCallees
  <2>3. stack = <<f>> \o s
    BY DEF Init
  <2> HIDE DEF f, s
  <2>4. Top = Frame("simple")
    BY <2>2, <2>3, LastOfMore DEF Top
  <2>5. QED
    BY <2>4 DEF Frame, InnerPlace
<1>2. Located /\ LateOnlyInWords
  BY DEF Init, Located, LateOnlyInWords
<1>3. Placed
  BY <1>1 DEF Placed, InnerPlace, CaseIn
<1>4. QED
  BY <1>2, <1>3 DEF LateInv

-----------------------------------------------------------------------------
(* The theorems                                                            *)

LEMMA InvariantTypes == IInv => TypeOK
<1> SUFFICES ASSUME IInv PROVE TypeOK
  OBVIOUS
<1>1. PICK T : Fitted(T)
  BY DEF IInv
<1>2. LexerOK /\ HereDocsOK /\ OutcomeOK
  BY DEF IInv
<1>3. \A t \in Tokens \cup {NoToken} : t = NoToken \/ (t.kind \in Kind /\ t.from \subseteq DOMAIN Alias)
  BY DEF Tokens
<1>4. \A t \in {token} \cup {ahead[i] : i \in DOMAIN ahead} : t \in Tokens \cup {NoToken}
  <2>1. token \in Tokens \cup {NoToken} /\ ahead \in Seq(Tokens)
    BY <1>2 DEF LexerOK
  <2>2. \A i \in DOMAIN ahead : ahead[i] \in Tokens
    BY <2>1, LenProperties, ElementOfSeq
  <2>3. QED
    BY <2>1, <2>2
<1>5. stack \in Seq(FrameOf(T)) /\ stack # <<>> /\ value \in ValueOf(T) /\ Trees(T)
  BY <1>1 DEF Fitted, Typed
<1>6. ASSUME NEW i \in DOMAIN stack, NEW j \in DOMAIN stack[i].parts
      PROVE  stack[i].parts[j].node \in NodeName
  <2> DEFINE F == FrameOf(T)
             p == stack[i].parts
  <2>1. stack \in Seq(F)
    BY <1>5
  <2> HIDE DEF F
  <2>2. stack[i] \in F
    BY <2>1, LenProperties, ElementOfSeq
  <2>3. p \in Seq(T) /\ j \in DOMAIN p
    BY <2>2 DEF F, FrameOf
  <2> HIDE DEF p
  <2>4. p[j] \in T
    BY <2>3, LenProperties, ElementOfSeq
  <2>5. p[j].node \in NodeName
    BY <1>5, <2>4, TreeFields
  <2>6. QED
    BY <2>5 DEF p
<1>7. value.tag \in {"none", "AliasSubstituted", "None", "Some"}
  BY <1>5 DEF ValueOf, NoValue, AliasSubstituted, None
<1>8. outcome \in {"none", "list", "nothing", "error", "lexer error",
                   "missing here-doc", "file descriptor out of range"}
  BY <1>2 DEF OutcomeOK, Failure
<1>9. /\ source \in Source /\ fed \in 0 .. source.max + 1 /\ taken \in Seq(Kind) /\ line \in Nat
      /\ unread \in Seq(HereDoc) /\ read \in Seq(Nat)
  BY <1>2 DEF LexerOK, HereDocsOK
<1>10. QED
  BY <1>3, <1>4, <1>5, <1>6, <1>7, <1>8, <1>9 DEF TypeOK

LEMMA InvariantFills == IInv => FilledInOrder
<1> SUFFICES ASSUME IInv, outcome = "list" PROVE FilledInOrder
  BY DEF FilledInOrder
<1>1. PICK T : Fitted(T)
  BY DEF IInv
<1>2. HereDocsOK /\ Numbered /\ Finished
  BY DEF IInv
<1>3. Len(read) \in Nat /\ DOMAIN read = 1 .. Len(read) /\ Len(unread) = 0 /\ unread = <<>>
  BY <1>2, LenProperties DEF HereDocsOK, Finished
<1>4. \A i \in DOMAIN read : read[i] = i
  <2> DEFINE n == Len(read)
  <2>1. read = UpTo(n) /\ n \in Nat /\ DOMAIN read = 1 .. n
    BY <1>2, <1>3 DEF Numbered
  <2> HIDE DEF n
  <2>2. \A i \in 1 .. n : UpTo(n)[i] = i
    BY <2>1, UpToFacts
  <2>3. QED
    BY <2>1, <2>2
<1>5. AllDocs(stack, value) = read
  <2>1. Len(read) + Len(unread) = Len(read)
    BY <1>3
  <2>2. QED
    BY <1>2, <2>1 DEF Numbered
<1> DEFINE F == FrameOf(T)
           f == stack[1]
<1>6. stack \in Seq(F) /\ Len(stack) = 1 /\ Len(f.parts) = 1 /\ value = NoValue /\ Trees(T)
  BY <1>1, <1>2 DEF Fitted, Typed, Finished
<1>7. f \in F /\ stack = <<f>>
  <2> HIDE DEF F
  <2>1. f \in F
    BY <1>6, ElementOfSeq
  <2>2. stack = <<f>>
    BY <1>6
  <2>3. QED
    BY <2>1, <2>2
<1>8. StackDocs(stack) = DocsOf(f.parts) /\ DocsOf(f.parts) \in Seq(Nat)
  <2> HIDE DEF f
  <2>1. StackDocs(<<f>>) = DocsOf(f.parts) /\ DocsOf(f.parts) \in Seq(Nat)
    BY <1>6, <1>7, StackDocsOne
  <2>2. QED
    BY <1>7, <2>1
<1>9. AllDocs(stack, value) = DocsOf(f.parts)
  <2>1. value.tree.docs = <<>>
    BY <1>6, NoTreeDocs
  <2> HIDE DEF f
  <2>2. QED
    BY <1>8, <2>1, ConcatEmptySeq DEF AllDocs
<1>10. f.parts[1].docs = DocsOf(f.parts)
  <2>1. f.parts \in Seq(T) /\ HaveDocs(T)
    BY <1>6, <1>7, TreesHaveDocs DEF FrameOf
  <2>2. QED
    BY <1>6, <2>1, SingleDocs
<1>11. Fill(Result) = read
  BY <1>5, <1>9, <1>10 DEF Fill, Result
<1>12. QED
  BY <1>3, <1>4, <1>11 DEF FilledInOrder

LEMMA Invariant == Spec => []IInv
BY InitInvariant, StepInvariant, PTL DEF Spec

(* Whatever the aliases and the input are, the parser keeps the types of   *)
(* its data: the functions of the parser return what those that have       *)
(* called them take.                                                       *)
THEOREM ParserTypeCorrect == Spec => []TypeOK
BY Invariant, InvariantTypes, PTL

(* The contents of here-documents are filled in where their operators are: *)
(* when command_line returns a list, `fill` meets as many here-documents   *)
(* as contents have been read, in the order in which they have been read.  *)
THEOREM FilledInSourceOrder == Spec => []FilledInOrder
BY Invariant, InvariantFills, PTL

LEMMA LateInvariant == Spec => []LateInv
<1>1. Init => LateInv
  BY LateInit
<1>2. IInv /\ LateInv /\ [Poll]_vars => LateInv'
  BY LateStep
<1>3. QED
  BY <1>1, <1>2, Invariant, PTL DEF Spec

(* While the parser goes on, the contents of a here-document are read when *)
(* the line of its operator ends, unless a newline has been taken among    *)
(* the words of a for loop or of an array, or before the `in` of a case    *)
(* command: what takes the newline there does not read them. The tokens    *)
(* before it tell: `in` and words, `array` and `(` and words, or `case`    *)
(* and the word after it.                                                  *)
THEOREM LateHereDocsExplained == Spec => []LateOnlyInWords
<1>1. LateInv => LateOnlyInWords
  BY DEF LateInv, LateOnlyInWords
<1>2. QED
  BY <1>1, LateInvariant, PTL

(* So they are read when that line ends, in every command line that has no *)
(* such newline.                                                           *)
THEOREM HereDocsReadOnTime ==
  Spec => []((\A p \in DOMAIN taken : ~NewlineInWords(taken, p)) => HereDocsOnTime)
<1>1. ASSUME IInv, LateOnlyInWords, \A p \in DOMAIN taken : ~NewlineInWords(taken, p), outcome = "none"
      PROVE  HereDocsOnTime
  <2>1. unread \in Seq(HereDoc) /\ taken \in Seq(Kind)
    BY <1>1 DEF IInv, HereDocsOK, LexerOK
  <2>2. ASSUME NEW i \in DOMAIN unread PROVE unread[i].line = line
    <3>1. i \in 1 .. Len(unread)
      BY <2>1, LenProperties
    <3>2. unread[i] \in HereDoc
      BY <2>1, <3>1, ElementOfSeq
    <3>3. unread[i].location \in Nat
      BY <3>2 DEF HereDoc
    <3>4. ASSUME NEW p \in unread[i].location + 1 .. Len(taken) PROVE p \in DOMAIN taken
      BY <2>1, <3>3, <3>4, LenProperties
    <3>5. ~\E p \in unread[i].location + 1 .. Len(taken) : NewlineInWords(taken, p)
      BY <1>1, <3>4
    <3>6. QED
      BY <1>1, <2>2, <3>5 DEF LateOnlyInWords
  <2>3. QED
    BY <2>2 DEF HereDocsOnTime
<1>2. IInv /\ LateOnlyInWords => ((\A p \in DOMAIN taken : ~NewlineInWords(taken, p)) => HereDocsOnTime)
  BY <1>1 DEF HereDocsOnTime
<1>3. QED
  BY <1>2, Invariant, LateHereDocsExplained, PTL
=============================================================================
