-------------------------- MODULE SyntaxTree_proofs --------------------------
(***************************************************************************)
(* Lemmas about the trees of SyntaxTree: which here-documents `Fill` finds *)
(* in trees, depending on the parts they are made of.                      *)
(***************************************************************************)
EXTENDS SyntaxTree, SequenceTheorems, RecursionTheorems

(* The sequences that DocsOf passes through                                *)
DocsUpTo(parts) ==
  CHOOSE docs : docs = [n \in 0 .. Len(parts) |->
    IF n = 0 THEN <<>> ELSE docs[n - 1] \o parts[n].docs]

(* Trees whose here-documents are numbers                                  *)
HaveDocs(T) == \A t \in T : t.docs \in Seq(Nat)

LEMMA DocsSteps ==
  ASSUME NEW T, HaveDocs(T), NEW parts \in Seq(T)
  PROVE  LET f == DocsUpTo(parts)
         IN /\ DocsOf(parts) = f[Len(parts)]
            /\ f[0] = <<>>
            /\ \A n \in 1 .. Len(parts) : f[n] = f[n - 1] \o parts[n].docs
            /\ \A n \in 0 .. Len(parts) : f[n] \in Seq(Nat)
<1> DEFINE l == Len(parts)
           V == Seq(Nat)
           step == [n \in 1 .. l |-> [before \in V |-> before \o parts[n].docs]]
           Steps(f) == [n \in 0 .. l |-> IF n = 0 THEN <<>> ELSE f[n - 1] \o parts[n].docs]
<1>1. l \in Nat /\ \A n \in 1 .. l : parts[n].docs \in V
  BY LenProperties, ElementOfSeq DEF HaveDocs
<1>2. step \in [1 .. l -> [V -> V]]
  <2> SUFFICES ASSUME NEW n \in 1 .. l, NEW before \in V
               PROVE  before \o parts[n].docs \in V
    OBVIOUS
  <2> DEFINE d == parts[n].docs
  <2>1. d \in V
    BY <1>1
  <2> HIDE DEF d
  <2>2. before \o d \in V
    BY <2>1
  <2>3. QED
    BY <2>2 DEF d
<1>3. <<>> \in V
  OBVIOUS
<1>4. \E f \in [0 .. l -> V] : f[0] = <<>> /\ \A n \in 1 .. l : f[n] = step[n][f[n - 1]]
  <2> DEFINE first == <<>>
  <2>1. l \in Nat /\ first \in V /\ step \in [1 .. l -> [V -> V]]
    BY <1>1, <1>2, <1>3
  <2> HIDE DEF step, V, first, l
  <2>2. \E f \in [0 .. l -> V] : Recursive(f, l, first, step)
    BY <2>1, RecursionUpTo
  <2>3. QED
    BY <2>2 DEF first, Recursive
<1>5. PICK f \in [0 .. l -> V] : f[0] = <<>> /\ \A n \in 1 .. l : f[n] = step[n][f[n - 1]]
  BY <1>4
<1>6. \A n \in 1 .. l : n - 1 \in 0 .. l /\ n \in 0 .. l /\ n # 0
  BY <1>1
<1>7. \A n \in 1 .. l : f[n] = f[n - 1] \o parts[n].docs
  <2> SUFFICES ASSUME NEW n \in 1 .. l PROVE f[n] = f[n - 1] \o parts[n].docs
    OBVIOUS
  <2>1. f[n] = step[n][f[n - 1]] /\ f[n - 1] \in V
    BY <1>5, <1>6
  <2>2. QED
    BY <2>1
<1>8. f = Steps(f)
  <2>1. \A n \in 0 .. l : f[n] = Steps(f)[n]
    <3>1. \A n \in 0 .. l : n = 0 \/ n \in 1 .. l
      BY <1>1
    <3>2. QED
      BY <1>5, <1>7, <3>1
  <2>2. QED
    BY <2>1
<1> DEFINE g == DocsUpTo(parts)
<1>9. g = Steps(g)
  BY <1>8 DEF DocsUpTo
<1>10. /\ g[0] = <<>>
       /\ \A n \in 1 .. l : g[n] = g[n - 1] \o parts[n].docs
  <2> HIDE DEF g
  <2>1. 0 \in 0 .. l
    BY <1>1
  <2>2. \A n \in 0 .. l : g[n] = Steps(g)[n]
    BY <1>9
  <2>3. QED
    BY <1>6, <2>1, <2>2
<1>11. \A n \in 0 .. l : g[n] \in V
  <2> DEFINE S == {n \in 0 .. l : g[n] \in V}
  <2> HIDE DEF g
  <2>1. 0 \in S
    <3> HIDE DEF V, l
    <3>1. 0 \in 0 .. l
      BY <1>1
    <3>2. QED
      BY <1>3, <1>10, <3>1
  <2>2. ASSUME NEW n \in 0 .. l - 1, n \in S PROVE n + 1 \in S
    <3>1. n + 1 \in 1 .. l /\ n + 1 - 1 = n /\ n + 1 \in 0 .. l
      BY <1>1
    <3> DEFINE before == g[n]
               d == parts[n + 1].docs
    <3>2. g[n + 1] = before \o d
      BY <1>10, <3>1
    <3>3. before \in V /\ d \in V
      BY <1>1, <2>2, <3>1
    <3> HIDE DEF before, d
    <3>4. before \o d \in V
      BY <3>3
    <3>5. QED
      BY <3>1, <3>2, <3>4
  <2> HIDE DEF S
  <2>3. 0 .. l \subseteq S
    BY <1>1, <2>1, <2>2, InductionUpTo
  <2>4. QED
    BY <2>3 DEF S
<1>12. DocsOf(parts) = g[l]
  BY DEF DocsOf, DocsUpTo
<1>13. QED
  BY <1>10, <1>11, <1>12

(* Sequences that begin with trees of the same here-documents pass through *)
(* the same ones.                                                          *)
LEMMA DocsOfPrefix ==
  ASSUME NEW T, HaveDocs(T), NEW parts \in Seq(T), NEW longer \in Seq(T),
         Len(parts) <= Len(longer),
         \A i \in 1 .. Len(parts) : longer[i].docs = parts[i].docs
  PROVE  DocsUpTo(longer)[Len(parts)] = DocsOf(parts)
<1> DEFINE f == DocsUpTo(parts)
           g == DocsUpTo(longer)
           l == Len(parts)
           m == Len(longer)
           S == {n \in 0 .. l : g[n] = f[n]}
<1>1. l \in Nat /\ m \in Nat /\ l <= m
  BY LenProperties
<1>2. /\ DocsOf(parts) = f[l] /\ f[0] = <<>>
      /\ \A n \in 1 .. l : f[n] = f[n - 1] \o parts[n].docs
  BY DocsSteps
<1>3. g[0] = <<>> /\ \A n \in 1 .. m : g[n] = g[n - 1] \o longer[n].docs
  BY DocsSteps
<1>4. \A n \in 1 .. l : longer[n].docs = parts[n].docs
  OBVIOUS
<1> HIDE DEF f, g, l, m
<1>5. 0 \in S
  BY <1>1, <1>2, <1>3
<1>6. ASSUME NEW n \in 0 .. l - 1, n \in S PROVE n + 1 \in S
  <2> DEFINE k == n + 1
  <2>1. k \in 1 .. l /\ k \in 1 .. m /\ k - 1 = n /\ k \in 0 .. l
    BY <1>1
  <2> HIDE DEF k
  <2>2. f[k] = f[k - 1] \o parts[k].docs /\ g[k] = g[k - 1] \o longer[k].docs
    BY <1>2, <1>3, <2>1, Zenon
  <2>3. g[n] = f[n] /\ longer[k].docs = parts[k].docs
    BY <1>4, <1>6, <2>1
  <2>4. f[k] = g[k]
    BY <2>1, <2>2, <2>3, Zenon
  <2>5. QED
    BY <2>1, <2>4 DEF k
<1> HIDE DEF S
<1>7. 0 .. l \subseteq S
  BY <1>1, <1>5, <1>6, InductionUpTo
<1>8. l \in S
  BY <1>1, <1>7
<1>9. QED
  BY <1>2, <1>8 DEF S, g, l

LEMMA SameDocs ==
  ASSUME NEW T, HaveDocs(T), NEW p \in Seq(T), NEW q \in Seq(T),
         Len(p) = Len(q), \A i \in 1 .. Len(p) : q[i].docs = p[i].docs
  PROVE  DocsOf(q) = DocsOf(p)
<1>1. Len(p) \in Nat /\ Len(p) <= Len(q)
  BY LenProperties
<1>2. DocsUpTo(q)[Len(p)] = DocsOf(p)
  BY <1>1, DocsOfPrefix
<1>3. DocsOf(q) = DocsUpTo(q)[Len(q)]
  BY DocsSteps
<1>4. QED
  BY <1>2, <1>3

LEMMA DocsType ==
  ASSUME NEW T, HaveDocs(T), NEW parts \in Seq(T)
  PROVE  DocsOf(parts) \in Seq(Nat)
<1>1. Len(parts) \in 0 .. Len(parts)
  BY LenProperties
<1>2. QED
  BY <1>1, DocsSteps

LEMMA DocsOfNone == DocsOf(<<>>) = <<>>
<1> DEFINE T == {}
<1>1. HaveDocs(T) /\ <<>> \in Seq(T) /\ Len(<<>>) = 0
  BY DEF HaveDocs
<1>2. QED
  BY <1>1, DocsSteps

LEMMA DocsAssociative == \A d, e, f \in Seq(Nat) : (d \o e) \o f = d \o (e \o f)
BY ConcatAssociative

(* A tree comes after the others.                                          *)
LEMMA DocsOfAppend ==
  ASSUME NEW T, HaveDocs(T), NEW parts \in Seq(T), NEW t \in T
  PROVE  DocsOf(Append(parts, t)) = DocsOf(parts) \o t.docs
<1> DEFINE q == Append(parts, t)
           l == Len(parts)
<1>1. /\ q \in Seq(T) /\ l \in Nat /\ Len(q) = l + 1 /\ q[l + 1] = t
      /\ \A i \in 1 .. l : q[i] = parts[i]
  BY LenProperties
<1> HIDE DEF q
<1>2. l <= Len(q) /\ \A i \in 1 .. l : q[i].docs = parts[i].docs
  BY <1>1
<1>3. DocsUpTo(q)[l] = DocsOf(parts)
  BY <1>1, <1>2, DocsOfPrefix
<1> HIDE DEF l
<1>4. DocsOf(q) = DocsUpTo(q)[l + 1]
  BY <1>1, DocsSteps
<1>5. l + 1 \in 1 .. Len(q) /\ l + 1 - 1 = l
  BY <1>1
<1>6. DocsUpTo(q)[l + 1] = DocsUpTo(q)[l] \o q[l + 1].docs
  <2>1. \A n \in 1 .. Len(q) : DocsUpTo(q)[n] = DocsUpTo(q)[n - 1] \o q[n].docs
    BY <1>1, DocsSteps
  <2> DEFINE k == l + 1
  <2>2. k \in 1 .. Len(q)
    BY <1>5
  <2>a. k - 1 = l
    BY <1>1
  <2> HIDE DEF k
  <2>3. DocsUpTo(q)[k] = DocsUpTo(q)[l] \o q[k].docs
    BY <2>1, <2>2, <2>a, Zenon
  <2>4. QED
    BY <2>3 DEF k
<1>7. QED
  BY <1>1, <1>3, <1>4, <1>6 DEF q

LEMMA DocsOfOne ==
  ASSUME NEW t, t.docs \in Seq(Nat)
  PROVE  DocsOf(<<t>>) = t.docs
<1> DEFINE T == {t}
           d == t.docs
<1>1. HaveDocs(T) /\ <<>> \in Seq(T) /\ t \in T
  BY DEF HaveDocs
<1>2. <<t>> = Append(<<>>, t)
  OBVIOUS
<1>3. d \in Seq(Nat)
  OBVIOUS
<1> HIDE DEF T, d
<1>4. DocsOf(Append(<<>>, t)) = DocsOf(<<>>) \o t.docs
  BY <1>1, DocsOfAppend
<1>5. <<>> \o d = d
  BY <1>3, ConcatEmptySeq
<1>6. QED
  BY <1>2, <1>4, <1>5, DocsOfNone DEF d

(* One sequence of trees comes after the other.                            *)
LEMMA DocsOfConcat ==
  ASSUME NEW T, HaveDocs(T), NEW p \in Seq(T), NEW q \in Seq(T)
  PROVE  DocsOf(p \o q) = DocsOf(p) \o DocsOf(q)
<1> DEFINE r == p \o q
           f == DocsUpTo(r)
           g == DocsUpTo(q)
           l == Len(p)
           m == Len(q)
           d == DocsOf(p)
           S == {n \in 0 .. m : f[l + n] = d \o g[n]}
<1>1. /\ r \in Seq(T) /\ l \in Nat /\ m \in Nat /\ Len(r) = l + m
      /\ \A i \in 1 .. l + m : r[i] = IF i <= l THEN p[i] ELSE q[i - l]
  BY ConcatProperties, LenProperties
<1> HIDE DEF r
<1>2. /\ DocsOf(r) = f[l + m]
      /\ \A n \in 1 .. l + m : f[n] = f[n - 1] \o r[n].docs
  <2>1. /\ DocsOf(r) = f[Len(r)]
        /\ \A n \in 1 .. Len(r) : f[n] = f[n - 1] \o r[n].docs
    BY <1>1, DocsSteps
  <2>2. QED
    BY <1>1, <2>1
<1>3. /\ DocsOf(q) = g[m] /\ g[0] = <<>>
      /\ \A n \in 1 .. m : g[n] = g[n - 1] \o q[n].docs
      /\ \A n \in 0 .. m : g[n] \in Seq(Nat)
  BY DocsSteps
<1>4. d \in Seq(Nat)
  BY DocsType
<1>5. f[l] = d
  <2>1. l <= Len(r) /\ \A i \in 1 .. l : r[i].docs = p[i].docs
    BY <1>1
  <2>2. QED
    BY <1>1, <2>1, DocsOfPrefix
<1>6. \A n \in 1 .. m : q[n].docs \in Seq(Nat)
  BY LenProperties, ElementOfSeq DEF HaveDocs
<1> HIDE DEF f, g, l, m, d
<1>7. 0 \in S
  <2>1. d \o <<>> = d
    BY <1>4, ConcatEmptySeq
  <2>2. l + 0 = l /\ 0 \in 0 .. m
    BY <1>1
  <2>3. QED
    BY <1>3, <1>5, <2>1, <2>2
<1>8. ASSUME NEW n \in 0 .. m - 1, n \in S PROVE n + 1 \in S
  <2>1. /\ n + 1 \in 1 .. m /\ n + 1 \in 0 .. m /\ n \in 0 .. m /\ n + 1 - 1 = n
        /\ l + (n + 1) \in 1 .. l + m /\ ~(l + (n + 1) <= l)
        /\ l + (n + 1) - l = n + 1 /\ l + (n + 1) - 1 = l + n
    BY <1>1
  <2> DEFINE k == n + 1
             j == l + k
             i == l + n
             e == q[k].docs
             before == g[n]
  <2>2. r[j] = q[k]
    BY <1>1, <2>1
  <2>3. k \in 1 .. m /\ k - 1 = n /\ j \in 1 .. l + m /\ j - 1 = i /\ k \in 0 .. m
    BY <1>1, <2>1
  <2> HIDE DEF k, j, i
  <2>4. f[j] = f[i] \o e
    BY <1>2, <2>2, <2>3, Zenon
  <2>5. g[k] = before \o e
    BY <1>3, <2>3, Zenon
  <2>6. f[i] = d \o before
    BY <1>8 DEF i
  <2>7. e \in Seq(Nat) /\ before \in Seq(Nat)
    BY <1>3, <1>6, <2>1, <2>3
  <2> HIDE DEF e, before
  <2>8. (d \o before) \o e = d \o (before \o e)
    BY <1>4, <2>7, DocsAssociative, Zenon
  <2>9. f[j] = d \o g[k]
    BY <2>4, <2>5, <2>6, <2>8, Zenon
  <2>10. QED
    BY <2>3, <2>9 DEF k, j
<1> HIDE DEF S
<1>9. 0 .. m \subseteq S
  BY <1>1, <1>7, <1>8, InductionUpTo
<1>10. m \in S
  BY <1>1, <1>9
<1>11. QED
  BY <1>2, <1>3, <1>10 DEF S, r, d

-----------------------------------------------------------------------------
(* The trees that Selected passes through                                  *)
SelectedUpTo(parts, those) ==
  CHOOSE selected : selected = [n \in 0 .. Len(parts) |->
    IF n = 0 THEN <<>>
    ELSE IF parts[n] \in those THEN Append(selected[n - 1], parts[n]) ELSE selected[n - 1]]

LEMMA SelectedSteps ==
  ASSUME NEW T, NEW parts \in Seq(T), NEW those
  PROVE  LET f == SelectedUpTo(parts, those)
         IN /\ Selected(parts, those) = f[Len(parts)]
            /\ f[0] = <<>>
            /\ \A n \in 1 .. Len(parts) :
                 f[n] = IF parts[n] \in those THEN Append(f[n - 1], parts[n]) ELSE f[n - 1]
<1> DEFINE l == Len(parts)
           V == Seq(T)
           step == [n \in 1 .. l |-> [before \in V |->
                      IF parts[n] \in those THEN Append(before, parts[n]) ELSE before]]
           Steps(f) == [n \in 0 .. l |->
                          IF n = 0 THEN <<>>
                          ELSE IF parts[n] \in those THEN Append(f[n - 1], parts[n]) ELSE f[n - 1]]
           first == <<>>
<1>1. l \in Nat /\ \A n \in 1 .. l : parts[n] \in T
  BY LenProperties, ElementOfSeq
<1>2. step \in [1 .. l -> [V -> V]]
  BY <1>1
<1>3. \E f \in [0 .. l -> V] : f[0] = <<>> /\ \A n \in 1 .. l : f[n] = step[n][f[n - 1]]
  <2>1. first \in V
    OBVIOUS
  <2> HIDE DEF step, V, first, l
  <2>2. \E f \in [0 .. l -> V] : Recursive(f, l, first, step)
    BY <1>1, <1>2, <2>1, RecursionUpTo
  <2>3. QED
    BY <2>2 DEF first, Recursive
<1>4. PICK f \in [0 .. l -> V] : f[0] = <<>> /\ \A n \in 1 .. l : f[n] = step[n][f[n - 1]]
  BY <1>3
<1>5. \A n \in 1 .. l : n - 1 \in 0 .. l /\ n \in 0 .. l /\ n # 0
  BY <1>1
<1>6. \A n \in 1 .. l :
        f[n] = IF parts[n] \in those THEN Append(f[n - 1], parts[n]) ELSE f[n - 1]
  <2> SUFFICES ASSUME NEW n \in 1 .. l
               PROVE  f[n] = IF parts[n] \in those THEN Append(f[n - 1], parts[n]) ELSE f[n - 1]
    OBVIOUS
  <2>1. f[n] = step[n][f[n - 1]] /\ f[n - 1] \in V
    BY <1>4, <1>5
  <2>2. QED
    BY <2>1
<1>7. f = Steps(f)
  <2>1. \A n \in 0 .. l : f[n] = Steps(f)[n]
    <3>1. \A n \in 0 .. l : n = 0 \/ n \in 1 .. l
      BY <1>1
    <3>2. QED
      BY <1>4, <1>6, <3>1
  <2>2. QED
    BY <2>1
<1> DEFINE g == SelectedUpTo(parts, those)
<1>8. g = Steps(g)
  BY <1>7 DEF SelectedUpTo
<1>9. /\ g[0] = <<>>
      /\ \A n \in 1 .. l :
           g[n] = IF parts[n] \in those THEN Append(g[n - 1], parts[n]) ELSE g[n - 1]
  <2> HIDE DEF g
  <2>1. 0 \in 0 .. l
    BY <1>1
  <2>2. \A n \in 0 .. l : g[n] = Steps(g)[n]
    BY <1>8
  <2>3. QED
    BY <1>5, <2>1, <2>2
<1>10. Selected(parts, those) = g[l]
  BY DEF Selected, SelectedUpTo
<1>11. QED
  BY <1>9, <1>10

(* Selected leaves out no here-document if the parts it leaves out have    *)
(* none, and finds none if those that it selects have none.                *)
LEMMA SelectedDocs ==
  ASSUME NEW T, HaveDocs(T), NEW parts \in Seq(T), NEW those
  PROVE  /\ Selected(parts, those) \in Seq(T)
         /\ (\A i \in 1 .. Len(parts) : parts[i] \in those => parts[i].docs = <<>>)
              => DocsOf(Selected(parts, those)) = <<>>
         /\ (\A i \in 1 .. Len(parts) : parts[i] \notin those => parts[i].docs = <<>>)
              => DocsOf(Selected(parts, those)) = DocsOf(parts)
<1> DEFINE f == SelectedUpTo(parts, those)
           g == DocsUpTo(parts)
           l == Len(parts)
           NoneSelected == \A i \in 1 .. l : parts[i] \in those => parts[i].docs = <<>>
           NoneOmitted == \A i \in 1 .. l : parts[i] \notin those => parts[i].docs = <<>>
           S == {n \in 0 .. l : /\ f[n] \in Seq(T)
                                /\ NoneSelected => DocsOf(f[n]) = <<>>
                                /\ NoneOmitted => DocsOf(f[n]) = g[n]}
<1>1. l \in Nat /\ \A n \in 1 .. l : parts[n] \in T
  BY LenProperties, ElementOfSeq
<1>2. /\ Selected(parts, those) = f[l] /\ f[0] = <<>>
      /\ \A n \in 1 .. l :
           f[n] = IF parts[n] \in those THEN Append(f[n - 1], parts[n]) ELSE f[n - 1]
  BY SelectedSteps
<1>3. /\ DocsOf(parts) = g[l] /\ g[0] = <<>>
      /\ \A n \in 1 .. l : g[n] = g[n - 1] \o parts[n].docs
      /\ \A n \in 0 .. l : g[n] \in Seq(Nat)
  BY DocsSteps
<1> HIDE DEF f, g, l, NoneSelected, NoneOmitted
<1>4. 0 \in S
  BY <1>1, <1>2, <1>3, DocsOfNone, EmptySeq
<1>5. ASSUME NEW n \in 0 .. l - 1, n \in S PROVE n + 1 \in S
  <2> DEFINE k == n + 1
             t == parts[k]
             chosen == f[n]
             docs == DocsOf(f[n])
             before == g[n]
  <2>1. k \in 1 .. l /\ k \in 0 .. l /\ k - 1 = n /\ n \in 0 .. l
    BY <1>1
  <2> HIDE DEF k
  <2>2. t \in T
    BY <1>1, <2>1
  <2>3. f[k] = IF t \in those THEN Append(chosen, t) ELSE chosen
    BY <1>2, <2>1
  <2>4. g[k] = before \o t.docs
    BY <1>3, <2>1, Zenon
  <2>5. before \in Seq(Nat)
    BY <1>3, <2>1
  <2>6. /\ chosen \in Seq(T)
        /\ NoneSelected => docs = <<>>
        /\ NoneOmitted => docs = before
    BY <1>5
  <2>7. NoneSelected /\ t \in those => t.docs = <<>>
    BY <2>1 DEF NoneSelected
  <2>8. NoneOmitted /\ t \notin those => t.docs = <<>>
    BY <2>1 DEF NoneOmitted
  <2> DEFINE longer == Append(chosen, t)
             e == t.docs
  <2>9. DocsOf(longer) = docs \o e /\ longer \in Seq(T)
    <3> HIDE DEF chosen, t, docs
    <3>1. DocsOf(Append(chosen, t)) = DocsOf(chosen) \o t.docs
      BY <2>2, <2>6, DocsOfAppend
    <3>2. QED
      BY <2>2, <2>6, <3>1, AppendProperties DEF docs, chosen
  <2>10. before \o <<>> = before
    BY <2>5, ConcatEmptySeq
  <2>11. <<>> \o <<>> = <<>>
    OBVIOUS
  <2> HIDE DEF t, longer, docs, before
  <2>12. f[k] \in Seq(T)
    BY <2>3, <2>6, <2>9 DEF longer
  <2>13. NoneSelected => DocsOf(f[k]) = <<>>
    <3>1. CASE t \in those
      BY <2>3, <2>6, <2>7, <2>9, <2>11, <3>1 DEF longer
    <3>2. CASE t \notin those
      BY <2>3, <2>6, <3>2 DEF docs
    <3>3. QED
      BY <3>1, <3>2
  <2>14. NoneOmitted => DocsOf(f[k]) = g[k]
    <3>1. CASE t \in those
      BY <2>3, <2>4, <2>6, <2>9, <3>1 DEF longer
    <3>2. CASE t \notin those
      BY <2>3, <2>4, <2>6, <2>8, <2>10, <3>2 DEF docs
    <3>3. QED
      BY <3>1, <3>2
  <2>15. QED
    BY <2>1, <2>12, <2>13, <2>14 DEF k
<1> HIDE DEF S
<1>6. 0 .. l \subseteq S
  BY <1>1, <1>4, <1>5, InductionUpTo
<1>7. l \in S
  BY <1>1, <1>6
<1>8. QED
  BY <1>2, <1>3, <1>7 DEF S, l, NoneSelected, NoneOmitted

(* A simple command has the here-documents of its redirections, in their   *)
(* order, if its other parts have none.                                    *)
LEMMA SimpleNodeDocs ==
  ASSUME NEW T, HaveDocs(T), NEW parts \in Seq(T),
         \A i \in 1 .. Len(parts) : IsRedir(parts[i]) \/ parts[i].docs = <<>>
  PROVE  /\ SimpleNode(parts).parts \in Seq(T)
         /\ SimpleNode(parts) = Node("simple", SimpleNode(parts).parts)
         /\ DocsOf(SimpleNode(parts).parts) = DocsOf(parts)
<1> DEFINE all == Range(parts)
           A == {t \in all : IsAssign(t)}
           W == {t \in all : IsWord(t)}
           R == {t \in all : IsRedir(t)}
           a == Selected(parts, A)
           w == Selected(parts, W)
           r == Selected(parts, R)
           d == DocsOf(parts)
<1>1. \A i \in 1 .. Len(parts) : parts[i] \in all
  BY LenProperties DEF Range
<1>2. a \in Seq(T) /\ w \in Seq(T) /\ r \in Seq(T)
  <2> HIDE DEF A, W, R
  <2>1. QED
    BY SelectedDocs
<1>3. DocsOf(a) = <<>>
  <2>1. \A i \in 1 .. Len(parts) : parts[i] \in A => ~IsRedir(parts[i])
    BY DEF IsAssign, IsRedir, RedirOp
  <2> HIDE DEF A
  <2>2. \A i \in 1 .. Len(parts) : parts[i] \in A => parts[i].docs = <<>>
    BY <2>1
  <2>3. QED
    BY <2>2, SelectedDocs
<1>4. DocsOf(w) = <<>>
  <2>1. \A i \in 1 .. Len(parts) : parts[i] \in W => ~IsRedir(parts[i])
    BY DEF IsWord
  <2> HIDE DEF W
  <2>2. \A i \in 1 .. Len(parts) : parts[i] \in W => parts[i].docs = <<>>
    BY <2>1
  <2>3. QED
    BY <2>2, SelectedDocs
<1>5. DocsOf(r) = d
  <2>1. \A i \in 1 .. Len(parts) : parts[i] \notin R => ~IsRedir(parts[i])
    BY <1>1
  <2> HIDE DEF R
  <2>2. \A i \in 1 .. Len(parts) : parts[i] \notin R => parts[i].docs = <<>>
    BY <2>1
  <2>3. QED
    BY <2>2, SelectedDocs
<1>6. d \in Seq(Nat)
  BY DocsType
<1>7. SimpleNode(parts) = Node("simple", a \o w \o r)
  BY DEF SimpleNode
<1> HIDE DEF a, w, r, d
<1>8. a \o w \in Seq(T) /\ (a \o w) \o r \in Seq(T)
  BY <1>2, ConcatProperties
<1>9. DocsOf(a \o w) = <<>> \o <<>>
  BY <1>2, <1>3, <1>4, DocsOfConcat
<1>10. DocsOf((a \o w) \o r) = (<<>> \o <<>>) \o d
  <2> DEFINE b == a \o w
  <2> HIDE DEF b
  <2>1. DocsOf(b \o r) = DocsOf(b) \o DocsOf(r)
    BY <1>2, <1>8, DocsOfConcat DEF b
  <2>2. QED
    BY <1>5, <1>9, <2>1 DEF b
<1>11. (<<>> \o <<>>) \o d = d
  <2>1. <<>> \o <<>> = <<>>
    OBVIOUS
  <2>2. <<>> \o d = d
    BY <1>6, ConcatEmptySeq
  <2>3. QED
    BY <2>1, <2>2
<1>12. SimpleNode(parts).parts = (a \o w) \o r
  BY <1>7 DEF Node
<1>13. QED
  BY <1>7, <1>8, <1>10, <1>11, <1>12 DEF d
=============================================================================
