--------------------------- MODULE PeerListsProofs ---------------------------
(***************************************************************************)
(* Proofs about PeerLists, for every set of peers, threads and lists of    *)
(* files, and every number of calls.  What the loops over lists and texts  *)
(* do is proved by induction on the length; the provers take an induction  *)
(* over a set of numbers, not over a predicate.                            *)
(***************************************************************************)
EXTENDS PeerLists, SequenceTheorems, FiniteSetTheorems, WellFoundedInduction, TLAPS

-----------------------------------------------------------------------------
(* Induction *)

LEMMA LeastNatural ==
    ASSUME NEW T \in SUBSET Nat, T # {}
    PROVE  \E x \in T : \A y \in T : x <= y
<1> DEFINE R == OpToRel(<, Nat)
<1>1. IsWellFoundedOn(R, Nat)
  BY NatLessThanWellFounded
<1>2. \A x, y \in Nat : y < x => <<y, x>> \in R
  BY DEF OpToRel
<1> HIDE DEF R
<1>3. \E x \in T : \A y \in T : ~(<<y, x>> \in R)
  BY <1>1, WFMin
<1>4. PICK x \in T : \A y \in T : ~(<<y, x>> \in R)
  BY <1>3
<1>5. ASSUME NEW y \in T
      PROVE  x <= y
  <2>1. x \in Nat /\ y \in Nat
    OBVIOUS
  <2>2. ~(y < x)
    BY <1>2, <1>4, <2>1
  <2> QED
    BY <2>1, <2>2
<1> QED
  BY <1>5

LEMMA SetInduction ==
    ASSUME NEW S, 0 \in S, \A n \in Nat : n \in S => n + 1 \in S
    PROVE  Nat \subseteq S
<1> DEFINE T == Nat \ S
<1>1. SUFFICES ASSUME T # {} PROVE FALSE
  OBVIOUS
<1>2. PICK x \in T : \A y \in T : x <= y
  BY <1>1, LeastNatural
<1>3. x # 0
  OBVIOUS
<1>4. x - 1 \in Nat /\ x - 1 < x
  BY <1>3
<1>5. x - 1 \in S
  BY <1>2, <1>4
<1>6. (x - 1) + 1 \in S
  BY <1>4, <1>5
<1> QED
  BY <1>6

\* The same for the numbers up to n.
LEMMA BoundedInduction ==
    ASSUME NEW n \in Nat, NEW S, 0 \in S, \A i \in 1 .. n : i - 1 \in S => i \in S
    PROVE  0 .. n \subseteq S
<1> DEFINE T == {i \in Nat : i <= n => i \in S}
<1>1. 0 \in T
  OBVIOUS
<1>2. ASSUME NEW i \in Nat, i \in T
      PROVE  i + 1 \in T
  <2>1. CASE i + 1 <= n
    <3>1. i \in S /\ i + 1 \in 1 .. n /\ (i + 1) - 1 = i
      BY <1>2, <2>1
    <3> QED
      BY <3>1
  <2>2. CASE ~(i + 1 <= n)
    BY <2>2
  <2> QED
    BY <2>1, <2>2
<1> HIDE DEF T
<1>3. Nat \subseteq T
  BY <1>1, <1>2, SetInduction
<1> QED
  BY <1>3 DEF T

\* A loop of n rounds on X: what each round does, and the values after them.
Rounds(n, X) == [1 .. n -> [X -> X]]
Values(base, n, X, step) ==
    {f \in [0 .. n -> X] : f[0] = base /\ \A i \in 1 .. n : f[i] = step[i][f[i - 1]]}

LEMMA Iterate ==
    ASSUME NEW X, NEW base \in X, NEW n \in Nat, NEW step \in Rounds(n, X)
    PROVE  Values(base, n, X, step) # {}
<1> USE DEF Rounds
<1> DEFINE Runs(m, f) == f[0] = base /\ \A i \in 1 .. m : f[i] = step[i][f[i - 1]]
           S == {m \in 0 .. n : \E f \in [0 .. m -> X] : Runs(m, f)}
<1>1. 0 \in S
  <2> DEFINE f == [i \in 0 .. 0 |-> base]
  <2>1. f \in [0 .. 0 -> X] /\ Runs(0, f)
    OBVIOUS
  <2> HIDE DEF f
  <2> QED
    BY <2>1
<1>2. ASSUME NEW m \in 1 .. n, m - 1 \in S
      PROVE  m \in S
  <2>1. PICK f \in [0 .. m - 1 -> X] : Runs(m - 1, f)
    BY <1>2
  <2> DEFINE g == [i \in 0 .. m |-> IF i = m THEN step[m][f[m - 1]] ELSE f[i]]
  <2>2. m - 1 \in 0 .. m - 1 /\ step[m] \in [X -> X] /\ f[m - 1] \in X
    OBVIOUS
  <2>3. g \in [0 .. m -> X]
    <3>1. \A i \in 0 .. m : i # m => i \in 0 .. m - 1
      OBVIOUS
    <3> QED
      BY <2>2, <3>1
  <2>4. g[0] = base
    BY <2>1
  <2>5. ASSUME NEW i \in 1 .. m
        PROVE  g[i] = step[i][g[i - 1]]
    <3>1. i - 1 \in 0 .. m /\ i - 1 # m /\ g[i - 1] = f[i - 1]
      OBVIOUS
    <3>2. CASE i = m
      BY <3>1, <3>2
    <3>3. CASE i # m
      <4>1. i \in 1 .. m - 1 /\ g[i] = f[i]
        BY <3>3
      <4> QED
        BY <2>1, <3>1, <4>1
    <3> QED
      BY <3>2, <3>3
  <2> HIDE DEF g
  <2>6. Runs(m, g)
    BY <2>4, <2>5
  <2> QED
    BY <2>3, <2>6
<1>3. 0 .. n \subseteq S
  <2> HIDE DEF S
  <2> QED
    BY <1>1, <1>2, BoundedInduction
<1>4. n \in S
  BY <1>3
<1>5. \E f \in [0 .. n -> X] : Runs(n, f)
  BY <1>4
<1> QED
  BY <1>5 DEF Values

-----------------------------------------------------------------------------
(* What the operations on a list do *)

\* No name is in the list twice.
Once(s) == \A i, j \in 1 .. Len(s) : s[i].name = s[j].name => i = j

\* Range of a sequence, by positions.
LEMMA RangeSeq ==
    ASSUME NEW S, NEW s \in Seq(S)
    PROVE  /\ Len(s) \in Nat /\ DOMAIN s = 1 .. Len(s)
           /\ Range(s) = {s[i] : i \in 1 .. Len(s)}
           /\ Names(s) = {s[i].name : i \in 1 .. Len(s)}
           /\ Range(s) \subseteq S
<1>1. Len(s) \in Nat /\ DOMAIN s = 1 .. Len(s) /\ \A i \in 1 .. Len(s) : s[i] \in S
  BY LenProperties, ElementOfSeq
<1>2. Range(s) = {s[i] : i \in 1 .. Len(s)}
  BY <1>1 DEF Range
<1>3. Names(s) = {s[i].name : i \in 1 .. Len(s)}
  BY <1>2 DEF Names
<1> QED
  BY <1>1, <1>2, <1>3

\* find_if: 0, or where the name is.
LEMMA NamedFinds ==
    ASSUME NEW S, NEW s \in Seq(S), NEW n
    PROVE  /\ Named(s, n) \in 0 .. Len(s)
           /\ Named(s, n) # 0 => s[Named(s, n)].name = n
           /\ Named(s, n) = 0 => \A i \in 1 .. Len(s) : s[i].name # n
<1> DEFINE I == {i \in 1 .. Len(s) : s[i].name = n}
<1>1. Named(s, n) = IF I # {} THEN Min(I) ELSE 0
  BY DEF Named, SelectInSeq
<1>2. Len(s) \in Nat
  BY LenProperties
<1>3. CASE I = {}
  BY <1>1, <1>2, <1>3
<1>4. CASE I # {}
  <2>1. I \in SUBSET Nat
    OBVIOUS
  <2> HIDE DEF I
  <2>2. \E x \in I : \A y \in I : x <= y
    BY <1>4, <2>1, LeastNatural
  <2>3. Min(I) \in I
    BY <2>2 DEF Min
  <2> QED
    BY <1>1, <1>2, <1>4, <2>3 DEF I
<1> QED
  BY <1>3, <1>4

\* addFile changes the file of this name, or puts it behind the others.
LEMMA AddFileList ==
    ASSUME NEW S, NEW s \in Seq(S), NEW f \in S
    PROVE  /\ addFile(s, f) \in Seq(S)
           /\ Range(addFile(s, f)) \subseteq Range(s) \cup {f}
           /\ Names(addFile(s, f)) = Names(s) \cup {f.name}
           /\ Once(s) => Once(addFile(s, f))
<1> DEFINE k == Named(s, f.name)
           r == addFile(s, f)
<1>1. /\ k \in 0 .. Len(s)
      /\ k # 0 => s[k].name = f.name
      /\ k = 0 => \A i \in 1 .. Len(s) : s[i].name # f.name
  BY NamedFinds
<1>2. r = IF k # 0 THEN [s EXCEPT ![k] = f] ELSE Append(s, f)
  BY DEF addFile, ReplaceAt
<1>3. Len(s) \in Nat /\ DOMAIN s = 1 .. Len(s) /\ Range(s) = {s[i] : i \in 1 .. Len(s)}
      /\ Names(s) = {s[i].name : i \in 1 .. Len(s)}
  BY RangeSeq
<1> HIDE DEF k, r
<1>4. CASE k # 0
  <2>1. r \in Seq(S) /\ Len(r) = Len(s) /\ r[k] = f /\ k \in 1 .. Len(s)
        /\ \A i \in 1 .. Len(s) : i # k => r[i] = s[i]
    BY <1>1, <1>2, <1>3, <1>4, ExceptSeq
  <2>2. \A i \in 1 .. Len(s) : r[i].name = s[i].name
    BY <1>1, <1>4, <2>1
  <2>3. /\ Range(r) = {r[i] : i \in 1 .. Len(s)}
        /\ Names(r) = {r[i].name : i \in 1 .. Len(s)}
    BY <2>1, RangeSeq
  <2>4. Range(r) \subseteq Range(s) \cup {f}
    BY <1>3, <2>1, <2>3
  <2>5. Names(r) = Names(s) \cup {f.name}
    BY <1>1, <1>3, <1>4, <2>1, <2>2, <2>3
  <2>6. Once(s) => Once(r)
    BY <2>1, <2>2 DEF Once
  <2> QED
    BY <2>1, <2>4, <2>5, <2>6 DEF r
<1>5. CASE k = 0
  <2>1. r \in Seq(S) /\ Len(r) = Len(s) + 1 /\ r[Len(s) + 1] = f
        /\ \A i \in 1 .. Len(s) : r[i] = s[i]
    BY <1>2, <1>5, AppendProperties
  <2>2. /\ Range(r) = {r[i] : i \in 1 .. Len(s) + 1}
        /\ Names(r) = {r[i].name : i \in 1 .. Len(s) + 1}
    BY <2>1, RangeSeq
  <2>3. \A i \in 1 .. Len(s) + 1 : i \in 1 .. Len(s) \/ i = Len(s) + 1
    BY <1>3
  <2>4. \A i \in 1 .. Len(s) : i \in 1 .. Len(s) + 1
    BY <1>3
  <2>5. Len(s) + 1 \in 1 .. Len(s) + 1
    BY <1>3
  <2>6. Range(r) \subseteq Range(s) \cup {f}
    BY <1>3, <2>1, <2>2, <2>3
  <2>7. Names(r) = Names(s) \cup {f.name}
    BY <1>3, <2>1, <2>2, <2>3, <2>4, <2>5
  <2>8. ASSUME Once(s)
        PROVE  Once(r)
    <3> SUFFICES ASSUME NEW i \in 1 .. Len(s) + 1, NEW j \in 1 .. Len(s) + 1,
                        r[i].name = r[j].name
                 PROVE  i = j
      BY <2>1 DEF Once
    <3>1. \A l \in 1 .. Len(s) : r[l].name # f.name
      BY <1>1, <1>5, <2>1
    <3>2. CASE i = Len(s) + 1
      BY <2>1, <2>3, <3>1, <3>2
    <3>3. CASE j = Len(s) + 1
      BY <2>1, <2>3, <3>1, <3>3
    <3>4. CASE i \in 1 .. Len(s) /\ j \in 1 .. Len(s)
      BY <2>1, <2>8, <3>4 DEF Once
    <3> QED
      BY <2>3, <3>2, <3>3, <3>4
  <2> QED
    BY <2>1, <2>6, <2>7, <2>8 DEF r
<1> QED
  BY <1>4, <1>5

\* addFiles is what the last round of its loop leaves.
AddLoop(g, S, s, new) ==
    /\ g \in [0 .. Len(new) -> Seq(S)]
    /\ g[0] = s
    /\ \A i \in 1 .. Len(new) : g[i] = addFile(g[i - 1], new[i])
    /\ addFiles(s, new) = g[Len(new)]

LEMMA AddFilesRuns ==
    ASSUME NEW S, NEW s \in Seq(S), NEW new \in Seq(S)
    PROVE  \E g : AddLoop(g, S, s, new)
<1> DEFINE n == Len(new)
           Loop(g) == [i \in 0 .. n |-> IF i = 0 THEN s ELSE addFile(g[i - 1], new[i])]
           step == [i \in 1 .. n |-> [t \in Seq(S) |-> addFile(t, new[i])]]
           added == CHOOSE g : g = Loop(g)
<1>1. n \in Nat /\ \A i \in 1 .. n : new[i] \in S
  BY RangeSeq, ElementOfSeq
<1>2. \A i \in 1 .. n : \A t \in Seq(S) : addFile(t, new[i]) \in Seq(S)
  BY <1>1, AddFileList
<1>3. step \in [1 .. n -> [Seq(S) -> Seq(S)]]
  BY <1>2
<1>4. addFiles(s, new) = added[n]
  BY DEF addFiles
<1> HIDE DEF n
<1>5. \E f \in [0 .. n -> Seq(S)] :
        f[0] = s /\ \A i \in 1 .. n : f[i] = step[i][f[i - 1]]
  <2> DEFINE X == Seq(S)
  <2>1. n \in Nat /\ s \in X /\ step \in Rounds(n, X)
    BY <1>1, <1>3 DEF Rounds
  <2> HIDE DEF step, X
  <2>2. Values(s, n, X, step) # {}
    BY <2>1, Iterate
  <2> QED
    BY <2>2 DEF Values, X
<1>6. PICK f \in [0 .. n -> Seq(S)] :
        f[0] = s /\ \A i \in 1 .. n : f[i] = step[i][f[i - 1]]
  BY <1>5
<1>7. \A i \in 1 .. n : i - 1 \in 0 .. n /\ f[i] = addFile(f[i - 1], new[i])
  <2>1. ASSUME NEW i \in 1 .. n
        PROVE  i - 1 \in 0 .. n /\ f[i] = addFile(f[i - 1], new[i])
    <3>1. i - 1 \in 0 .. n /\ f[i - 1] \in Seq(S)
      BY <1>1
    <3>2. step[i][f[i - 1]] = addFile(f[i - 1], new[i])
      BY <3>1
    <3> QED
      BY <1>6, <3>1, <3>2
  <2> QED
    BY <2>1
<1>8. f = Loop(f)
  <2>1. ASSUME NEW i \in 0 .. n
        PROVE  f[i] = Loop(f)[i]
    <3>1. i = 0 \/ i \in 1 .. n
      BY <1>1
    <3> QED
      BY <1>6, <1>7, <3>1
  <2> QED
    BY <2>1
<1>9. added = Loop(added)
  <2> HIDE DEF Loop
  <2> QED
    BY <1>8
<1> HIDE DEF added
<1>10. added \in [0 .. n -> Seq(S)]
  <2> DEFINE T == {i \in 0 .. n : added[i] \in Seq(S)}
  <2>1. 0 \in T
    BY <1>1, <1>9
  <2>2. ASSUME NEW i \in 1 .. n, i - 1 \in T
        PROVE  i \in T
    <3>1. i \in 0 .. n /\ i # 0
      BY <1>1
    <3>2. added[i] = addFile(added[i - 1], new[i])
      BY <1>9, <3>1
    <3> QED
      BY <1>2, <2>2, <3>1, <3>2
  <2> HIDE DEF T
  <2>3. 0 .. n \subseteq T
    BY <1>1, <2>1, <2>2, BoundedInduction
  <2>4. \A i \in 0 .. n : added[i] \in Seq(S)
    BY <2>3 DEF T
  <2>5. added = [i \in 0 .. n |-> added[i]]
    BY <1>9
  <2> QED
    BY <2>4, <2>5
<1>11. added[0] = s
  BY <1>1, <1>9
<1>12. ASSUME NEW i \in 1 .. n
       PROVE  added[i] = addFile(added[i - 1], new[i])
  <2>1. i \in 0 .. n /\ i # 0
    BY <1>1
  <2> QED
    BY <1>9, <2>1
<1>13. AddLoop(added, S, s, new)
  BY <1>4, <1>10, <1>11, <1>12 DEF AddLoop, n
<1> QED
  BY <1>13

LEMMA AddFilesNone ==
    ASSUME NEW S, NEW s \in Seq(S)
    PROVE  addFiles(s, <<>>) = s
<1>1. <<>> \in Seq(S) /\ Len(<<>>) = 0
  BY EmptySeq
<1>2. PICK g : AddLoop(g, S, s, <<>>)
  BY <1>1, AddFilesRuns
<1> QED
  BY <1>1, <1>2 DEF AddLoop

\* The loop may begin with its first round.
LEMMA AddFilesFirst ==
    ASSUME NEW S, NEW s \in Seq(S), NEW new \in Seq(S), new # <<>>
    PROVE  addFiles(addFile(s, Head(new)), Tail(new)) = addFiles(s, new)
<1> DEFINE n == Len(new)
           t == addFile(s, Head(new))
           rest == Tail(new)
<1>1. /\ n \in Nat \ {0} /\ Head(new) = new[1] /\ Head(new) \in S
      /\ rest \in Seq(S) /\ Len(rest) = n - 1
      /\ \A i \in 1 .. n - 1 : rest[i] = new[i + 1]
  BY HeadTailProperties, EmptySeq, LenProperties
<1>2. t \in Seq(S)
  BY <1>1, AddFileList
<1> HIDE DEF t, rest
<1>g. PICK g : AddLoop(g, S, s, new)
  BY AddFilesRuns
<1>h. PICK h : AddLoop(h, S, t, rest)
  BY <1>1, <1>2, AddFilesRuns
<1>3. /\ g[0] = s
      /\ \A i \in 1 .. n : g[i] = addFile(g[i - 1], new[i])
      /\ addFiles(s, new) = g[n]
  BY <1>g DEF AddLoop
<1>4. /\ h[0] = t
      /\ \A i \in 1 .. Len(rest) : h[i] = addFile(h[i - 1], rest[i])
      /\ addFiles(t, rest) = h[Len(rest)]
  BY <1>h DEF AddLoop
<1> HIDE DEF n
<1> DEFINE T == {i \in 0 .. n - 1 : h[i] = g[i + 1]}
<1>5. 0 \in T
  <2>1. 0 \in 0 .. n - 1 /\ 1 \in 1 .. n /\ 1 - 1 = 0 /\ 0 + 1 = 1
    BY <1>1
  <2>2. g[1] = addFile(g[0], new[1])
    BY <1>3, <2>1
  <2> QED
    BY <1>1, <1>3, <1>4, <2>1, <2>2 DEF t
<1>6. ASSUME NEW i \in 1 .. n - 1, i - 1 \in T
      PROVE  i \in T
  <2>1. i \in 0 .. n - 1 /\ i \in 1 .. Len(rest) /\ i + 1 \in 1 .. n
        /\ (i + 1) - 1 = i /\ (i - 1) + 1 = i
    BY <1>1
  <2>2. h[i - 1] = g[i]
    BY <1>6, <2>1
  <2>3. h[i] = addFile(g[i], new[i + 1])
    BY <1>1, <1>4, <2>1, <2>2
  <2>4. g[i + 1] = addFile(g[i], new[i + 1])
    BY <1>3, <2>1
  <2> QED
    BY <2>1, <2>3, <2>4
<1> HIDE DEF T
<1>7. 0 .. n - 1 \subseteq T
  <2> DEFINE m == n - 1
  <2>1. m \in Nat /\ 0 \in T /\ \A i \in 1 .. m : i - 1 \in T => i \in T
    BY <1>1, <1>5, <1>6
  <2> HIDE DEF m
  <2>2. 0 .. m \subseteq T
    BY <2>1, BoundedInduction
  <2> QED
    BY <2>2 DEF m
<1>8. h[n - 1] = g[(n - 1) + 1] /\ (n - 1) + 1 = n
  <2>1. n - 1 \in 0 .. n - 1 /\ (n - 1) + 1 = n
    BY <1>1
  <2> QED
    BY <1>7, <2>1 DEF T
<1> QED
  BY <1>1, <1>3, <1>4, <1>8 DEF t, rest

\* A new list has the names that were brought, each once.
LEMMA AddFilesList ==
    ASSUME NEW S, NEW new \in Seq(S)
    PROVE  /\ addFiles(<<>>, new) \in Seq(S)
           /\ Range(addFiles(<<>>, new)) \subseteq Range(new)
           /\ Names(addFiles(<<>>, new)) = Names(new)
           /\ Once(addFiles(<<>>, new))
<1> DEFINE n == Len(new)
<1>1. /\ n \in Nat
      /\ Range(new) = {new[i] : i \in 1 .. n}
      /\ Names(new) = {new[i].name : i \in 1 .. n}
      /\ \A i \in 1 .. n : new[i] \in S
  BY RangeSeq, ElementOfSeq
<1>2. <<>> \in Seq(S) /\ Len(<<>>) = 0
  BY EmptySeq
<1>g. PICK g : AddLoop(g, S, <<>>, new)
  BY <1>2, AddFilesRuns
<1>3. /\ g \in [0 .. n -> Seq(S)]
      /\ g[0] = <<>>
      /\ \A i \in 1 .. n : g[i] = addFile(g[i - 1], new[i])
      /\ addFiles(<<>>, new) = g[n]
  BY <1>g DEF AddLoop
<1> HIDE DEF n
<1> DEFINE T == {i \in 0 .. n : /\ Range(g[i]) \subseteq Range(new)
                                /\ Names(g[i]) = {new[j].name : j \in 1 .. i}
                                /\ Once(g[i])}
<1>4. 0 \in T
  <2>1. Range(g[0]) = {} /\ Names(g[0]) = {} /\ Once(g[0])
    <3> DEFINE e == g[0]
    <3>1. e \in Seq(S) /\ 1 .. Len(e) = {}
      BY <1>2, <1>3
    <3> HIDE DEF e
    <3>2. Range(e) = {e[i] : i \in 1 .. Len(e)} /\ Names(e) = {e[i].name : i \in 1 .. Len(e)}
      BY <3>1, RangeSeq
    <3>3. Range(e) = {} /\ Names(e) = {} /\ Once(e)
      BY <3>1, <3>2 DEF Once
    <3> QED
      BY <3>3 DEF e
  <2>2. {new[j].name : j \in 1 .. 0} = {}
    OBVIOUS
  <2> QED
    BY <1>1, <2>1, <2>2
<1>5. ASSUME NEW i \in 1 .. n, i - 1 \in T
      PROVE  i \in T
  <2>1. i \in 0 .. n /\ i - 1 \in 0 .. n /\ i - 1 \in Nat
    BY <1>1
  <2>2. g[i] = addFile(g[i - 1], new[i]) /\ g[i - 1] \in Seq(S) /\ new[i] \in S
    BY <1>1, <1>3, <2>1
  <2>3. /\ Range(g[i]) \subseteq Range(g[i - 1]) \cup {new[i]}
        /\ Names(g[i]) = Names(g[i - 1]) \cup {new[i].name}
        /\ Once(g[i - 1]) => Once(g[i])
    <3> DEFINE t == g[i - 1]
               e == new[i]
    <3>1. t \in Seq(S) /\ e \in S /\ g[i] = addFile(t, e)
      BY <2>2
    <3> HIDE DEF t, e
    <3>2. /\ Range(g[i]) \subseteq Range(t) \cup {e}
          /\ Names(g[i]) = Names(t) \cup {e.name}
          /\ Once(t) => Once(g[i])
      BY <3>1, AddFileList
    <3> QED
      BY <3>2 DEF t, e
  <2>4. {new[j].name : j \in 1 .. i} = {new[j].name : j \in 1 .. i - 1} \cup {new[i].name}
    <3>1. \A j : j \in 1 .. i <=> j \in 1 .. i - 1 \/ j = i
      BY <2>1
    <3> QED
      BY <3>1
  <2>5. new[i] \in Range(new)
    BY <1>1
  <2> QED
    BY <1>5, <2>1, <2>3, <2>4, <2>5
<1> HIDE DEF T
<1>6. 0 .. n \subseteq T
  BY <1>1, <1>4, <1>5, BoundedInduction
<1>7. n \in T /\ n \in 0 .. n
  BY <1>1, <1>6
<1> QED
  BY <1>1, <1>3, <1>7 DEF T

\* Picked likewise.
PickLoop(g, S, s, W) ==
    /\ g \in [0 .. Len(s) -> Seq(S)]
    /\ g[0] = <<>>
    /\ \A i \in 1 .. Len(s) :
         g[i] = IF i \in W THEN Append(g[i - 1], s[i]) ELSE g[i - 1]
    /\ Picked(s, W) = g[Len(s)]

LEMMA PickedRuns ==
    ASSUME NEW S, NEW s \in Seq(S), NEW W
    PROVE  \E g : PickLoop(g, S, s, W)
<1> DEFINE n == Len(s)
           Round(i, t) == IF i \in W THEN Append(t, s[i]) ELSE t
           Loop(g) == [i \in 0 .. n |-> IF i = 0 THEN <<>>
                                        ELSE IF i \in W THEN Append(g[i - 1], s[i])
                                        ELSE g[i - 1]]
           step == [i \in 1 .. n |-> [t \in Seq(S) |-> Round(i, t)]]
           kept == CHOOSE g : g = Loop(g)
<1>1. n \in Nat /\ \A i \in 1 .. n : s[i] \in S
  BY RangeSeq, ElementOfSeq
<1>2. <<>> \in Seq(S) /\ \A i \in 1 .. n : \A t \in Seq(S) : Round(i, t) \in Seq(S)
  BY <1>1, EmptySeq, AppendProperties
<1>3. step \in [1 .. n -> [Seq(S) -> Seq(S)]]
  <2> HIDE DEF Round
  <2> QED
    BY <1>2
<1>4. Picked(s, W) = kept[n]
  BY DEF Picked
<1> HIDE DEF n
<1>5. \E f \in [0 .. n -> Seq(S)] :
        f[0] = <<>> /\ \A i \in 1 .. n : f[i] = step[i][f[i - 1]]
  <2> DEFINE X == Seq(S)
             e == <<>>
  <2>1. n \in Nat /\ e \in X /\ step \in Rounds(n, X)
    BY <1>1, <1>2, <1>3 DEF Rounds
  <2> HIDE DEF step, X, e
  <2>2. Values(e, n, X, step) # {}
    BY <2>1, Iterate
  <2> QED
    BY <2>2 DEF Values, X, e
<1>6. PICK f \in [0 .. n -> Seq(S)] :
        f[0] = <<>> /\ \A i \in 1 .. n : f[i] = step[i][f[i - 1]]
  BY <1>5
<1>7. \A i \in 1 .. n : i - 1 \in 0 .. n /\ f[i] = Round(i, f[i - 1])
  <2>1. ASSUME NEW i \in 1 .. n
        PROVE  i - 1 \in 0 .. n /\ f[i] = Round(i, f[i - 1])
    <3>1. i - 1 \in 0 .. n /\ f[i - 1] \in Seq(S)
      BY <1>1
    <3> HIDE DEF Round
    <3>2. step[i][f[i - 1]] = Round(i, f[i - 1])
      BY <3>1
    <3> QED
      BY <1>6, <3>1, <3>2
  <2> QED
    BY <2>1
<1>8. f = Loop(f)
  <2>1. ASSUME NEW i \in 0 .. n
        PROVE  f[i] = Loop(f)[i]
    <3>1. i = 0 \/ i \in 1 .. n
      BY <1>1
    <3> QED
      BY <1>6, <1>7, <3>1
  <2> QED
    BY <2>1
<1>9. kept = Loop(kept)
  <2> HIDE DEF Loop
  <2> QED
    BY <1>8
<1> HIDE DEF kept
<1>10. ASSUME NEW i \in 1 .. n
       PROVE  kept[i] = Round(i, kept[i - 1])
  <2>1. i \in 0 .. n /\ i # 0
    BY <1>1
  <2> QED
    BY <1>9, <2>1
<1>11. kept[0] = <<>>
  BY <1>1, <1>9
<1>12. kept \in [0 .. n -> Seq(S)]
  <2> DEFINE T == {i \in 0 .. n : kept[i] \in Seq(S)}
  <2>1. 0 \in T
    <3>1. kept[0] \in Seq(S)
      BY <1>11, EmptySeq
    <3>2. 0 \in 0 .. n
      BY <1>1
    <3> QED
      BY <3>1, <3>2
  <2>2. ASSUME NEW i \in 1 .. n, i - 1 \in T
        PROVE  i \in T
    <3>1. i \in 0 .. n /\ kept[i - 1] \in Seq(S)
      BY <1>1, <2>2
    <3> HIDE DEF Round
    <3> QED
      BY <1>2, <1>10, <3>1
  <2> HIDE DEF T
  <2>3. 0 .. n \subseteq T
    BY <1>1, <2>1, <2>2, BoundedInduction
  <2>4. \A i \in 0 .. n : kept[i] \in Seq(S)
    BY <2>3 DEF T
  <2>5. kept = [i \in 0 .. n |-> kept[i]]
    BY <1>9
  <2> QED
    BY <2>4, <2>5
<1>13. PickLoop(kept, S, s, W)
  BY <1>4, <1>10, <1>11, <1>12 DEF PickLoop, n
<1> QED
  BY <1>13

\* What is at these positions is kept.
LEMMA PickedList ==
    ASSUME NEW S, NEW s \in Seq(S), NEW W
    PROVE  /\ Picked(s, W) \in Seq(S)
           /\ Range(Picked(s, W)) = {s[i] : i \in {k \in 1 .. Len(s) : k \in W}}
           /\ Once(s) => Once(Picked(s, W))
<1> DEFINE n == Len(s)
           r == Picked(s, W)
<1>1. n \in Nat /\ Range(s) = {s[i] : i \in 1 .. n} /\ \A i \in 1 .. n : s[i] \in S
  BY RangeSeq, ElementOfSeq
<1>2. PICK g : PickLoop(g, S, s, W)
  BY PickedRuns
<1>3. /\ g \in [0 .. n -> Seq(S)]
      /\ g[0] = <<>>
      /\ \A i \in 1 .. n :
           g[i] = IF i \in W THEN Append(g[i - 1], s[i]) ELSE g[i - 1]
      /\ r = g[n]
  BY <1>2 DEF PickLoop
<1> HIDE DEF n, r
<1> DEFINE Left(i) == {s[j] : j \in {k \in 1 .. i : k \in W}}
           T == {i \in 0 .. n : /\ Range(g[i]) = Left(i)
                                /\ Once(s) => Once(g[i])}
<1>4. 0 \in T
  <2>1. Left(0) = {}
    OBVIOUS
  <2> DEFINE e == g[0]
  <2>2. e \in Seq(S) /\ 1 .. Len(e) = {}
    BY <1>3, EmptySeq
  <2> HIDE DEF e, Left
  <2>3. Range(e) = {e[i] : i \in 1 .. Len(e)}
    BY <2>2, RangeSeq
  <2>4. Range(e) = {} /\ Once(e)
    BY <2>2, <2>3 DEF Once
  <2>5. Range(g[0]) = Left(0) /\ Once(g[0])
    BY <2>1, <2>4 DEF e
  <2>6. 0 \in 0 .. n
    BY <1>1
  <2> QED
    BY <2>5, <2>6
<1>5. ASSUME NEW i \in 1 .. n, i - 1 \in T
      PROVE  i \in T
  <2> DEFINE t == g[i - 1]
  <2>1. i \in 0 .. n /\ i - 1 \in 0 .. n /\ i \in Nat /\ t \in Seq(S) /\ s[i] \in S
        /\ Range(t) = Left(i - 1) /\ (Once(s) => Once(t))
        /\ g[i] = IF i \in W THEN Append(t, s[i]) ELSE t
    BY <1>1, <1>3, <1>5
  <2>2. \A j : j \in 1 .. i <=> j \in 1 .. i - 1 \/ j = i
    BY <2>1
  <2> HIDE DEF t
  <2>3. CASE i \notin W
    <3>1. g[i] = t /\ Left(i) = Left(i - 1)
      BY <2>1, <2>2, <2>3
    <3> HIDE DEF Left
    <3> QED
      BY <2>1, <3>1
  <2>4. CASE i \in W
    <3> DEFINE a == Append(t, s[i])
    <3>1. g[i] = a /\ Left(i) = Left(i - 1) \cup {s[i]}
      BY <2>1, <2>2, <2>4
    <3>2. Len(t) \in Nat /\ Range(t) = {t[k] : k \in 1 .. Len(t)}
      BY <2>1, RangeSeq
    <3>3. a \in Seq(S) /\ Len(a) = Len(t) + 1 /\ a[Len(t) + 1] = s[i]
          /\ \A k \in 1 .. Len(t) : a[k] = t[k]
      BY <2>1, AppendProperties
    <3> HIDE DEF a
    <3>4. Range(a) = {a[k] : k \in 1 .. Len(t) + 1}
      BY <3>3, RangeSeq
    <3>5. \A k : k \in 1 .. Len(t) + 1 <=> k \in 1 .. Len(t) \/ k = Len(t) + 1
      BY <3>2
    <3>6. Range(a) = Range(t) \cup {s[i]}
      BY <3>2, <3>3, <3>4, <3>5
    <3>7. ASSUME Once(s)
          PROVE  Once(a)
      <4>1. ASSUME NEW k \in 1 .. Len(t)
            PROVE  a[k].name # s[i].name
        <5>1. t[k] \in Left(i - 1)
          BY <2>1, <3>2
        <5>2. PICK j \in 1 .. i - 1 : t[k] = s[j]
          BY <5>1
        <5>3. j \in 1 .. n /\ j # i
          BY <1>1, <2>1, <5>2
        <5> QED
          BY <3>3, <3>7, <5>2, <5>3 DEF Once, n
      <4> SUFFICES ASSUME NEW k \in 1 .. Len(t) + 1, NEW l \in 1 .. Len(t) + 1,
                          a[k].name = a[l].name
                   PROVE  k = l
        BY <3>3 DEF Once
      <4>2. CASE k = Len(t) + 1
        BY <3>3, <3>5, <4>1, <4>2
      <4>3. CASE l = Len(t) + 1
        BY <3>3, <3>5, <4>1, <4>3
      <4>4. CASE k \in 1 .. Len(t) /\ l \in 1 .. Len(t)
        BY <2>1, <3>3, <3>7, <4>4 DEF Once
      <4> QED
        BY <3>5, <4>2, <4>3, <4>4
    <3> HIDE DEF Left
    <3> QED
      BY <2>1, <3>1, <3>6, <3>7
  <2> QED
    BY <2>3, <2>4
<1> HIDE DEF T
<1>6. 0 .. n \subseteq T
  BY <1>1, <1>4, <1>5, BoundedInduction
<1>7. n \in T /\ n \in 0 .. n
  BY <1>1, <1>6
<1>8. r \in Seq(S) /\ Range(r) = Left(n) /\ (Once(s) => Once(r))
  BY <1>3, <1>7 DEF T
<1> QED
  BY <1>8 DEF r, n

LEMMA RemoveFileList ==
    ASSUME NEW S, NEW s \in Seq(S), NEW name
    PROVE  /\ removeFile(s, name) \in Seq(S)
           /\ Range(removeFile(s, name)) = {f \in Range(s) : f.name # name}
           /\ Names(removeFile(s, name)) = Names(s) \ {name}
           /\ Once(s) => Once(removeFile(s, name))
<1> DEFINE r == removeFile(s, name)
           W == {i \in DOMAIN s : s[i].name # name}
<1>1. DOMAIN s = 1 .. Len(s) /\ Range(s) = {s[i] : i \in 1 .. Len(s)}
  BY RangeSeq
<1>2. r = Picked(s, W)
  BY DEF removeFile
<1> HIDE DEF r, W
<1>3. /\ r \in Seq(S) /\ (Once(s) => Once(r))
      /\ Range(r) = {s[i] : i \in {k \in 1 .. Len(s) : k \in W}}
  BY <1>2, PickedList
<1>4. Range(r) = {f \in Range(s) : f.name # name}
  BY <1>1, <1>3 DEF W
<1>5. Names(r) = Names(s) \ {name}
  BY <1>4 DEF Names
<1> QED
  BY <1>3, <1>4, <1>5 DEF r

LEMMA SeqParts ==
    ASSUME NEW S, NEW s \in Seq(S), s # <<>>
    PROVE  /\ Head(s) \in S /\ Tail(s) \in Seq(S)
           /\ Range(s) = {Head(s)} \cup Range(Tail(s))
           /\ Names(s) = {Head(s).name} \cup Names(Tail(s))
<1> DEFINE t == Tail(s)
<1>1. /\ Len(s) \in Nat \ {0} /\ Head(s) = s[1] /\ Head(s) \in S
      /\ t \in Seq(S) /\ Len(t) = Len(s) - 1
      /\ \A i \in 1 .. Len(t) : t[i] = s[i + 1]
  BY HeadTailProperties, EmptySeq, LenProperties
<1> HIDE DEF t
<1>2. Range(s) = {s[i] : i \in 1 .. Len(s)} /\ Range(t) = {t[i] : i \in 1 .. Len(t)}
  BY <1>1, RangeSeq
<1>3. \A i \in 1 .. Len(s) : i = 1 \/ (i - 1 \in 1 .. Len(t) /\ (i - 1) + 1 = i)
  BY <1>1
<1>4. 1 \in 1 .. Len(s) /\ \A i \in 1 .. Len(t) : i + 1 \in 1 .. Len(s)
  BY <1>1
<1>5. Range(s) = {Head(s)} \cup Range(t)
  <2>1. ASSUME NEW f \in Range(s)
        PROVE  f \in {Head(s)} \cup Range(t)
    <3>1. PICK i \in 1 .. Len(s) : f = s[i]
      BY <1>2
    <3>2. CASE i = 1
      BY <1>1, <3>1, <3>2
    <3>3. CASE i # 1
      <4>1. i - 1 \in 1 .. Len(t) /\ t[i - 1] = f
        BY <1>1, <1>3, <3>1, <3>3
      <4> QED
        BY <1>2, <4>1
    <3> QED
      BY <3>2, <3>3
  <2>2. Range(t) \subseteq Range(s)
    BY <1>1, <1>2, <1>4
  <2>3. Head(s) \in Range(s)
    BY <1>1, <1>2, <1>4
  <2> QED
    BY <2>1, <2>2, <2>3
<1>6. Names(s) = {Head(s).name} \cup Names(t)
  BY <1>5 DEF Names
<1> QED
  BY <1>1, <1>5, <1>6 DEF t

\* A list without names is empty.
LEMMA NoNames ==
    ASSUME NEW S, NEW s \in Seq(S)
    PROVE  Names(s) = {} => s = <<>>
<1>1. Len(s) \in Nat /\ Names(s) = {s[i].name : i \in 1 .. Len(s)}
  BY RangeSeq
<1>2. Len(s) # 0 => Names(s) # {}
  <2>1. Len(s) # 0 => 1 \in 1 .. Len(s)
    BY <1>1
  <2> QED
    BY <1>1, <2>1
<1> QED
  BY <1>2, EmptySeq

-----------------------------------------------------------------------------
(* Inductive invariants *)

\* A thread without an object is in no call.
TypeInv ==
    /\ TypeOK
    /\ \A u \in Updaters : upd[u].obj = NoObj => upd[u] = Idle

OnceInv == \A o \in Objs : Once(files[o])

\* What the calls that overlapped last on o brought, and the names that all
\* of them brought.
Calls(o) == Range(group[o])
Brought(o) == UNION {Range(l) : l \in Calls(o)}
Common(o) == {n \in UNION {Names(l) : l \in Calls(o)} : \A l \in Calls(o) : n \in Names(l)}

\* Calls add what they brought, and have added nothing while they remove.
AddsOf(o) ==
    \A u \in Updating(o) :
        /\ group[o] # <<>>
        /\ Range(upd[u].add) \subseteq Brought(o)
        /\ upd[u].remove # <<>> => upd[u].add \in Calls(o)

\* A file that nobody brought will be removed.
OldOf(o) ==
    \A f \in Range(files[o]) :
        f \in Brought(o) \/ \E u \in Updating(o) : f.name \in Range(upd[u].remove)

\* A name that all have brought is there, or will be added.
CommonOf(o) ==
    \A n \in Common(o) :
        n \in Names(files[o]) \/ \E u \in Updating(o) : n \in Names(upd[u].add)

\* A call that has the list for itself: first it removes all names, then it is
\* on its way to the list that it brought.
AloneOf(o) ==
    Len(group[o]) = 1 =>
        /\ Updating(o) = {} => files[o] = addFiles(<<>>, group[o][1])
        /\ \A u \in Updating(o) :
             /\ Updating(o) = {u}
             /\ upd[u].remove # <<>> =>
                  upd[u].add = group[o][1] /\ Names(files[o]) \subseteq Range(upd[u].remove)
             /\ upd[u].remove = <<>> =>
                  addFiles(files[o], upd[u].add) = addFiles(<<>>, group[o][1])

MergeOf(o) == AddsOf(o) /\ OldOf(o) /\ CommonOf(o) /\ AloneOf(o)

MergeInv == \A o \in Objs : MergeOf(o)

-----------------------------------------------------------------------------
(* Types *)

AllNames == {f.name : f \in Entries}
CallsOn(objs) == [obj : objs \cup {NoObj}, remove : Seq(AllNames), add : Seq(Entries)]

LEMMA NoObject == NoObj \notin Objs
BY PeerListsAssumption DEF NoObj, Objs

LEMMA ListTypes ==
    ASSUME NEW list \in FileLists
    PROVE  list \in Seq(Entries) /\ <<list>> \in Seq(FileLists)
BY PeerListsAssumption

\* What the types say of one call and one object.
LEMMA CallTypes ==
    ASSUME TypeInv
    PROVE  /\ \A u \in Updaters :
                /\ upd[u] \in CallsOn(table)
                /\ upd[u].obj \in table \cup {NoObj}
                /\ upd[u].remove \in Seq(AllNames) /\ upd[u].add \in Seq(Entries)
                /\ upd[u] # Idle => upd[u].obj \in table /\ upd[u].obj \in Objs
           /\ \A o \in Objs : files[o] \in Seq(Entries) /\ group[o] \in Seq(FileLists)
<1>1. upd \in [Updaters -> CallsOn(table)]
  BY DEF TypeInv, TypeOK, CallsOn, AllNames
<1>2. ASSUME NEW u \in Updaters
      PROVE  /\ upd[u] \in CallsOn(table)
             /\ upd[u].obj \in table \cup {NoObj}
             /\ upd[u].remove \in Seq(AllNames) /\ upd[u].add \in Seq(Entries)
             /\ upd[u] # Idle => upd[u].obj \in table /\ upd[u].obj \in Objs
  <2>1. upd[u] \in CallsOn(table)
    BY <1>1
  <2>2. /\ upd[u].obj \in table \cup {NoObj}
        /\ upd[u].remove \in Seq(AllNames) /\ upd[u].add \in Seq(Entries)
    BY <2>1 DEF CallsOn
  <2>3. upd[u] # Idle => upd[u].obj \in table
    BY <2>2 DEF TypeInv
  <2> QED
    BY <2>1, <2>2, <2>3 DEF TypeInv, TypeOK
<1>3. \A o \in Objs : files[o] \in Seq(Entries) /\ group[o] \in Seq(FileLists)
  BY DEF TypeInv, TypeOK
<1> QED
  BY <1>2, <1>3

LEMMA IdleType ==
    ASSUME NEW objs
    PROVE  Idle \in CallsOn(objs) /\ Idle.obj = NoObj
BY EmptySeq DEF Idle, CallsOn

\* The names of a list, as updatePeerFileList copies them.
LEMMA NamesCopied ==
    ASSUME NEW s \in Seq(Entries)
    PROVE  LET r == [k \in DOMAIN s |-> s[k].name]
           IN  r \in Seq(AllNames) /\ Range(r) = Names(s) /\ (r = <<>> => s = <<>>)
<1> DEFINE r == [k \in DOMAIN s |-> s[k].name]
<1>1. Len(s) \in Nat /\ DOMAIN s = 1 .. Len(s) /\ \A k \in 1 .. Len(s) : s[k] \in Entries
  BY LenProperties, ElementOfSeq
<1>2. r = [k \in 1 .. Len(s) |-> s[k].name] /\ \A k \in 1 .. Len(s) : s[k].name \in AllNames
  BY <1>1 DEF AllNames
<1>3. r \in Seq(AllNames) /\ Len(r) = Len(s)
  <2>1. r \in [1 .. Len(s) -> AllNames]
    BY <1>2
  <2> HIDE DEF r
  <2> QED
    BY <1>1, <2>1, SeqDef, LenProperties
<1>4. Range(r) = Names(s)
  BY <1>1 DEF Range, Names
<1>5. r = <<>> => s = <<>>
  <2> HIDE DEF r
  <2>1. r = <<>> => Len(s) = 0
    BY <1>3, EmptySeq
  <2> QED
    BY <2>1, EmptySeq
<1> QED
  BY <1>3, <1>4, <1>5

LEMMA TypeInit == Init => TypeInv /\ OnceInv /\ MergeInv
<1> SUFFICES ASSUME Init
             PROVE  TypeInv /\ OnceInv /\ MergeInv
  OBVIOUS
<1>1. TypeInv
  <2>1. files \in [Objs -> Seq(Entries)] /\ group \in [Objs -> Seq(FileLists)]
    BY EmptySeq DEF Init
  <2>2. upd \in [Updaters -> CallsOn(table)] /\ \A u \in Updaters : upd[u] = Idle
    BY IdleType DEF Init
  <2>3. table = {} /\ updates \in 0 .. MaxUpdates /\ adds \in 0 .. MaxAdds
        /\ stage \in {"idle", "writing", "peers", "files"}
    BY PeerListsAssumption DEF Init
  <2> QED
    BY <2>1, <2>2, <2>3 DEF TypeInv, TypeOK, CallsOn, AllNames
<1>2. ASSUME NEW o \in Objs
      PROVE  Once(files[o]) /\ MergeOf(o)
  <2>1. /\ files[o] = <<>> /\ group[o] = <<>> /\ Len(files[o]) = 0 /\ Len(group[o]) = 0
        /\ <<>> \in Seq(Entries)
    BY EmptySeq DEF Init
  <2>2. Updating(o) = {}
    BY NoObject, IdleType DEF Init, Updating
  <2>3. Range(files[o]) = {} /\ Calls(o) = {}
    BY <2>1 DEF Range, Calls
  <2>4. Common(o) = {}
    BY <2>3 DEF Common
  <2> QED
    BY <2>1, <2>2, <2>3, <2>4 DEF Once, MergeOf, AddsOf, OldOf, CommonOf, AloneOf
<1> QED
  BY <1>1, <1>2 DEF OnceInv, MergeInv

\* A step that leaves the calls and the lists alone.
LEMMA TypeKept ==
    ASSUME TypeInv, UNCHANGED <<table, files, upd, group, updates, adds>>,
           stage' \in {"idle", "writing", "peers", "files"}
    PROVE  TypeInv'
BY DEF TypeInv, TypeOK

LEMMA TypeStep == TypeInv /\ [Next]_vars => TypeInv'
<1> SUFFICES ASSUME TypeInv, [Next]_vars
             PROVE  TypeInv'
  OBVIOUS
<1>0. /\ table \subseteq Objs /\ \A o, p \in table : o[1] = p[1] => o = p
      /\ files \in [Objs -> Seq(Entries)] /\ group \in [Objs -> Seq(FileLists)]
      /\ upd \in [Updaters -> CallsOn(table)]
      /\ updates \in 0 .. MaxUpdates /\ adds \in 0 .. MaxAdds
      /\ stage \in {"idle", "writing", "peers", "files"}
      /\ \A u \in Updaters : upd[u].obj = NoObj => upd[u] = Idle
  BY DEF TypeInv, TypeOK, CallsOn, AllNames
<1>1. ASSUME NEW o \in Objs, NEW list \in FileLists, AddPeer(o, list)
      PROVE  TypeInv'
  <2>1. table' = {p \in table : p[1] # o[1]} \cup {o}
    BY <1>1 DEF AddPeer
  <2>2. table' \subseteq Objs /\ \A p, q \in table' : p[1] = q[1] => p = q
    BY <1>0, <2>1
  <2>3. files' \in [Objs -> Seq(Entries)]
    <3>1. addFiles(<<>>, list) \in Seq(Entries)
      BY ListTypes, AddFilesList
    <3> QED
      BY <1>0, <1>1, <3>1 DEF AddPeer
  <2>4. group' \in [Objs -> Seq(FileLists)]
    BY <1>0, <1>1, ListTypes DEF AddPeer
  <2>5. upd' \in [Updaters -> CallsOn(table')] /\ \A u \in Updaters : upd'[u] = Idle
    <3>1. upd' = upd /\ \A u \in Updaters : upd[u] = Idle
      BY <1>1 DEF AddPeer, NoReaders
    <3>2. Idle \in CallsOn(table')
      BY IdleType
    <3> QED
      BY <1>0, <3>1, <3>2
  <2>6. updates' = updates /\ adds' \in 0 .. MaxAdds /\ stage' = stage
    BY <1>0, <1>1, PeerListsAssumption DEF AddPeer, answerVars
  <2> QED
    BY <1>0, <2>2, <2>3, <2>4, <2>5, <2>6 DEF TypeInv, TypeOK, CallsOn, AllNames
<1>2. ASSUME NEW o \in Objs, RemovePeer(o)
      PROVE  TypeInv'
  <2>1. table' \subseteq table
    BY <1>2 DEF RemovePeer
  <2>2. files' \in [Objs -> Seq(Entries)] /\ group' \in [Objs -> Seq(FileLists)]
    <3>1. CASE UNCHANGED <<files, group>>
      BY <1>0, <3>1
    <3>2. CASE /\ files' = [files EXCEPT ![o] = <<>>]
               /\ group' = [group EXCEPT ![o] = <<>>]
      BY <1>0, <3>2, EmptySeq
    <3> QED
      BY <1>2, <3>1, <3>2 DEF RemovePeer
  <2>3. upd' \in [Updaters -> CallsOn(table')] /\ \A u \in Updaters : upd'[u] = Idle
    <3>1. upd' = upd /\ \A u \in Updaters : upd[u] = Idle
      BY <1>2 DEF RemovePeer, NoReaders
    <3>2. Idle \in CallsOn(table')
      BY IdleType
    <3> QED
      BY <1>0, <3>1, <3>2
  <2>4. updates' = updates /\ adds' = adds /\ stage' = stage
    BY <1>2 DEF RemovePeer, answerVars
  <2> QED
    BY <1>0, <2>1, <2>2, <2>3, <2>4 DEF TypeInv, TypeOK, CallsOn, AllNames
<1>3. ASSUME NEW u \in Updaters, NEW o \in Objs, NEW list \in FileLists,
             UpdateStarts(u, o, list)
      PROVE  TypeInv'
  <2> DEFINE r == [k \in DOMAIN files[o] |-> files[o][k].name]
             c == [obj |-> o, remove |-> r, add |-> list]
  <2>1. /\ table' = table /\ files' = files /\ o \in table
        /\ upd' = [upd EXCEPT ![u] = c]
        /\ updates < MaxUpdates /\ updates' = updates + 1 /\ adds' = adds /\ stage' = stage
    BY <1>3 DEF UpdateStarts, answerVars
  <2>2. r \in Seq(AllNames)
    <3>1. files[o] \in Seq(Entries)
      BY <1>0
    <3> QED
      BY <3>1, NamesCopied
  <2> HIDE DEF r
  <2>3. c \in CallsOn(table) /\ c.obj = o /\ o # NoObj
    BY <2>1, <2>2, ListTypes, NoObject DEF CallsOn
  <2> HIDE DEF c
  <2>4. upd' \in [Updaters -> CallsOn(table')]
    BY <1>0, <2>1, <2>3
  <2>5. \A v \in Updaters : upd'[v].obj = NoObj => upd'[v] = Idle
    BY <1>0, <2>1, <2>3
  <2>6. group' \in [Objs -> Seq(FileLists)]
    <3> DEFINE before == IF Updating(o) = {} THEN <<>> ELSE group[o]
    <3>1. before \in Seq(FileLists)
      BY <1>0, EmptySeq
    <3>2. group' = [group EXCEPT ![o] = Append(before, list)]
      BY <1>0, <1>3 DEF UpdateStarts
    <3> HIDE DEF before
    <3> QED
      BY <1>0, <3>1, <3>2, AppendProperties
  <2>7. updates' \in 0 .. MaxUpdates
    BY <1>0, <2>1, PeerListsAssumption
  <2> QED
    BY <1>0, <2>1, <2>4, <2>5, <2>6, <2>7 DEF TypeInv, TypeOK, CallsOn, AllNames
<1>4. ASSUME NEW u \in Updaters, RemoveNext(u)
      PROVE  TypeInv'
  <2> DEFINE o == upd[u].obj
             c == [upd[u] EXCEPT !.remove = Tail(@)]
  <2>1. /\ table' = table /\ group' = group /\ updates' = updates /\ adds' = adds
        /\ stage' = stage /\ upd[u].remove # <<>>
        /\ files' = [files EXCEPT ![o] = removeFile(@, Head(upd[u].remove))]
        /\ upd' = [upd EXCEPT ![u] = c]
    BY <1>0, <1>4 DEF RemoveNext, answerVars
  <2>2. upd[u].remove \in Seq(AllNames) /\ upd[u] \in CallsOn(table) /\ upd[u] # Idle
        /\ o \in table /\ o \in Objs
    BY <2>1, CallTypes DEF Idle
  <2>3. Tail(upd[u].remove) \in Seq(AllNames)
    BY <2>1, <2>2, SeqParts
  <2>4. c \in CallsOn(table) /\ c.obj = o
    BY <2>2, <2>3 DEF CallsOn
  <2>5. removeFile(files[o], Head(upd[u].remove)) \in Seq(Entries)
    BY <1>0, <2>2, RemoveFileList
  <2> HIDE DEF c, o
  <2>6. files' \in [Objs -> Seq(Entries)]
    BY <1>0, <2>1, <2>2, <2>5
  <2>7. upd' \in [Updaters -> CallsOn(table')]
    BY <1>0, <2>1, <2>4
  <2>8. \A v \in Updaters : upd'[v].obj = NoObj => upd'[v] = Idle
    <3>1. o # NoObj
      BY <2>2, NoObject
    <3> QED
      BY <1>0, <2>1, <2>4, <3>1
  <2> QED
    BY <1>0, <2>1, <2>6, <2>7, <2>8 DEF TypeInv, TypeOK, CallsOn, AllNames
<1>5. ASSUME NEW u \in Updaters, AddNext(u)
      PROVE  TypeInv'
  <2> DEFINE o == upd[u].obj
             c == [upd[u] EXCEPT !.add = Tail(@)]
  <2>1. /\ table' = table /\ group' = group /\ updates' = updates /\ adds' = adds
        /\ stage' = stage /\ upd[u].add # <<>>
        /\ files' = [files EXCEPT ![o] = addFile(@, Head(upd[u].add))]
        /\ upd' = [upd EXCEPT ![u] = c]
    BY <1>0, <1>5 DEF AddNext, answerVars
  <2>2. upd[u].add \in Seq(Entries) /\ upd[u] \in CallsOn(table) /\ upd[u] # Idle
        /\ o \in table /\ o \in Objs
    BY <2>1, CallTypes DEF Idle
  <2>3. Tail(upd[u].add) \in Seq(Entries) /\ Head(upd[u].add) \in Entries
    BY <2>1, <2>2, SeqParts
  <2>4. c \in CallsOn(table) /\ c.obj = o
    BY <2>2, <2>3 DEF CallsOn
  <2>5. addFile(files[o], Head(upd[u].add)) \in Seq(Entries)
    <3> DEFINE s == files[o]
               f == Head(upd[u].add)
    <3>1. s \in Seq(Entries) /\ f \in Entries
      BY <1>0, <2>2, <2>3
    <3> HIDE DEF s, f
    <3>2. addFile(s, f) \in Seq(Entries)
      BY <3>1, AddFileList
    <3> QED
      BY <3>2 DEF s, f
  <2> HIDE DEF c, o
  <2>6. files' \in [Objs -> Seq(Entries)]
    BY <1>0, <2>1, <2>2, <2>5
  <2>7. upd' \in [Updaters -> CallsOn(table')]
    BY <1>0, <2>1, <2>4
  <2>8. \A v \in Updaters : upd'[v].obj = NoObj => upd'[v] = Idle
    <3>1. o # NoObj
      BY <2>2, NoObject
    <3> QED
      BY <1>0, <2>1, <2>4, <3>1
  <2> QED
    BY <1>0, <2>1, <2>6, <2>7, <2>8 DEF TypeInv, TypeOK, CallsOn, AllNames
<1>6. ASSUME NEW u \in Updaters, UpdateEnds(u)
      PROVE  TypeInv'
  <2>1. UNCHANGED <<table, files, group, updates, adds, stage>>
        /\ upd' = [upd EXCEPT ![u] = Idle]
    BY <1>6 DEF UpdateEnds, answerVars
  <2>2. Idle \in CallsOn(table')
    BY IdleType
  <2>3. upd' \in [Updaters -> CallsOn(table')]
        /\ \A v \in Updaters : upd'[v].obj = NoObj => upd'[v] = Idle
    BY <1>0, <2>1, <2>2
  <2> QED
    BY <1>0, <2>1, <2>3 DEF TypeInv, TypeOK, CallsOn, AllNames
<1>7. ASSUME AnswerStarts
      PROVE  TypeInv'
  BY <1>7, TypeKept DEF AnswerStarts, tableVars
<1>8. ASSUME WritePeer
      PROVE  TypeInv'
  BY <1>0, <1>8, TypeKept DEF WritePeer, tableVars
<1>9. ASSUME ReceivePeers
      PROVE  TypeInv'
  BY <1>9, TypeKept DEF ReceivePeers, tableVars
<1>10. ASSUME NEW list \in FileLists \cup {<<>>}, ReceiveFiles(list)
       PROVE  TypeInv'
  BY <1>10, TypeKept DEF ReceiveFiles, tableVars
<1>11. CASE UNCHANGED vars
  BY <1>0, <1>11, TypeKept DEF vars, tableVars, answerVars
<1> QED
  BY <1>1, <1>2, <1>3, <1>4, <1>5, <1>6, <1>7, <1>8, <1>9, <1>10, <1>11 DEF Next

\* The table has one object for an id, calls work on objects of the table, and
\* lists and calls have what the callers brought, however calls, additions and
\* removals of peers follow each other.
THEOREM TypeCorrect == Spec => []TypeOK
<1>1. Init => TypeInv
  BY TypeInit
<1>2. TypeInv /\ [Next]_vars => TypeInv'
  BY TypeStep
<1>3. TypeInv => TypeOK
  BY DEF TypeInv
<1> QED
  BY <1>1, <1>2, <1>3, PTL DEF Spec

-----------------------------------------------------------------------------
(* What overlapping calls leave *)

\* An object whose list, group and calls a step leaves alone.
LEMMA MergeKept ==
    ASSUME NEW o \in Objs, MergeOf(o), files'[o] = files[o], group'[o] = group[o],
           \A u \in Updaters : upd[u].obj = o \/ upd'[u].obj = o => upd'[u] = upd[u]
    PROVE  MergeOf(o)'
<1>1. Updating(o)' = Updating(o) /\ \A u \in Updating(o) : upd'[u] = upd[u]
  BY DEF Updating
<1>2. /\ Calls(o)' = Calls(o) /\ Brought(o)' = Brought(o) /\ Common(o)' = Common(o)
  BY DEF Calls, Brought, Common
<1>3. AddsOf(o)'
  BY <1>1, <1>2 DEF MergeOf, AddsOf
<1>4. OldOf(o)'
  BY <1>1, <1>2 DEF MergeOf, OldOf
<1>5. CommonOf(o)'
  BY <1>1, <1>2 DEF MergeOf, CommonOf
<1>6. AloneOf(o)'
  BY <1>1, <1>2 DEF MergeOf, AloneOf
<1> QED
  BY <1>3, <1>4, <1>5, <1>6 DEF MergeOf

\* A step that touches neither lists nor calls.
LEMMA AllKept ==
    ASSUME OnceInv, MergeInv, UNCHANGED <<files, group, upd>>
    PROVE  OnceInv' /\ MergeInv'
<1>1. OnceInv'
  BY DEF OnceInv, Once
<1>2. ASSUME NEW o \in Objs
      PROVE  MergeOf(o)'
  <2>1. MergeOf(o)
    BY DEF MergeInv
  <2> QED
    BY <2>1, MergeKept
<1> QED
  BY <1>1, <1>2 DEF MergeInv

\* A step of a call on o: it is enough to look at o.
LEMMA OneObject ==
    ASSUME TypeInv, OnceInv, MergeInv, NEW o \in Objs, Once(files'[o]), MergeOf(o)',
           \A p \in Objs : p # o =>
             /\ files'[p] = files[p] /\ group'[p] = group[p]
             /\ \A u \in Updaters : upd[u].obj = p \/ upd'[u].obj = p => upd'[u] = upd[u]
    PROVE  OnceInv' /\ MergeInv'
<1>1. ASSUME NEW p \in Objs
      PROVE  Once(files[p])' /\ MergeOf(p)'
  <2>1. CASE p = o
    BY <2>1 DEF Once
  <2>2. CASE p # o
    <3>1. MergeOf(p) /\ Once(files[p])
      BY DEF MergeInv, OnceInv
    <3>2. MergeOf(p)'
      BY <2>2, <3>1, MergeKept
    <3>3. Once(files[p])'
      BY <2>2, <3>1 DEF Once
    <3> QED
      BY <3>2, <3>3
  <2> QED
    BY <2>1, <2>2
<1> QED
  BY <1>1 DEF OnceInv, MergeInv

\* An object with a list of its own and no call.
LEMMA MergeFresh ==
    ASSUME NEW o \in Objs, NEW list \in FileLists, Updating(o)' = {},
           files'[o] = addFiles(<<>>, list), group'[o] = <<list>>
    PROVE  Once(files'[o]) /\ MergeOf(o)'
<1>1. /\ Range(addFiles(<<>>, list)) \subseteq Range(list)
      /\ Names(addFiles(<<>>, list)) = Names(list)
      /\ Once(addFiles(<<>>, list))
  BY ListTypes, AddFilesList
<1>2. Calls(o)' = {list}
  <2>1. <<list>> \in Seq(FileLists) /\ Len(<<list>>) = 1 /\ <<list>>[1] = list
    BY ListTypes
  <2>2. Range(<<list>>) = {list}
    BY <2>1 DEF Range
  <2> QED
    BY <2>2 DEF Calls
<1>3. Brought(o)' = Range(list) /\ Common(o)' \subseteq Names(list)
  BY <1>2 DEF Brought, Common
<1>4. AddsOf(o)'
  BY DEF AddsOf
<1>5. OldOf(o)'
  BY <1>1, <1>3 DEF OldOf
<1>6. CommonOf(o)'
  BY <1>1, <1>3 DEF CommonOf
<1>7. AloneOf(o)'
  BY DEF AloneOf
<1> QED
  BY <1>1, <1>4, <1>5, <1>6, <1>7 DEF MergeOf

\* An object without a list.
LEMMA MergeEmpty ==
    ASSUME NEW o \in Objs, Updating(o)' = {}, files'[o] = <<>>, group'[o] = <<>>
    PROVE  Once(files'[o]) /\ MergeOf(o)'
<1>1. Len(<<>>) = 0 /\ Range(<<>>) = {}
  BY DEF Range
<1>2. Calls(o)' = {} /\ Common(o)' = {}
  BY <1>1 DEF Calls, Common
<1> QED
  BY <1>1, <1>2 DEF Once, MergeOf, AddsOf, OldOf, CommonOf, AloneOf

LEMMA MergeAddPeer ==
    ASSUME TypeInv, OnceInv, MergeInv, NEW o \in Objs, NEW list \in FileLists, AddPeer(o, list)
    PROVE  OnceInv' /\ MergeInv'
<1>1. /\ upd' = upd /\ \A u \in Updaters : upd[u] = Idle
      /\ files' = [files EXCEPT ![o] = addFiles(<<>>, list)]
      /\ group' = [group EXCEPT ![o] = <<list>>]
  BY DEF AddPeer, NoReaders
<1>2. Updating(o)' = {}
  BY <1>1, NoObject, IdleType DEF Updating
<1>3. files'[o] = addFiles(<<>>, list) /\ group'[o] = <<list>>
      /\ \A p \in Objs : p # o => files'[p] = files[p] /\ group'[p] = group[p]
  BY <1>1 DEF TypeInv, TypeOK
<1>4. Once(files'[o]) /\ MergeOf(o)'
  BY <1>2, <1>3, MergeFresh
<1> QED
  BY <1>1, <1>3, <1>4, OneObject

LEMMA MergeRemovePeer ==
    ASSUME TypeInv, OnceInv, MergeInv, NEW o \in Objs, RemovePeer(o)
    PROVE  OnceInv' /\ MergeInv'
<1>1. upd' = upd /\ \A u \in Updaters : upd[u] = Idle
  BY DEF RemovePeer, NoReaders
<1>2. CASE Contains(pending, o)
  <2>1. UNCHANGED <<files, group, upd>>
    BY <1>1, <1>2 DEF RemovePeer
  <2> QED
    BY <2>1, AllKept
<1>3. CASE ~ Contains(pending, o)
  <2>1. files' = [files EXCEPT ![o] = <<>>] /\ group' = [group EXCEPT ![o] = <<>>]
    BY <1>3 DEF RemovePeer
  <2>2. Updating(o)' = {}
    BY <1>1, NoObject, IdleType DEF Updating
  <2>3. files'[o] = <<>> /\ group'[o] = <<>>
        /\ \A p \in Objs : p # o => files'[p] = files[p] /\ group'[p] = group[p]
    BY <2>1 DEF TypeInv, TypeOK
  <2>4. Once(files'[o]) /\ MergeOf(o)'
    BY <2>2, <2>3, MergeEmpty
  <2> QED
    BY <1>1, <2>3, <2>4, OneObject
<1> QED
  BY <1>2, <1>3

\* The call removes a file.  When all calls have brought its name, this one
\* will put it back.
LEMMA MergeRemoveNext ==
    ASSUME TypeInv, OnceInv, MergeInv, NEW u \in Updaters, RemoveNext(u),
           NEW o \in Objs, upd[u].obj = o
    PROVE  OnceInv' /\ MergeInv'
<1> DEFINE s == files[o]
           t == files'[o]
           name == Head(upd[u].remove)
           rest == Tail(upd[u].remove)
<1>1. /\ upd[u].remove # <<>> /\ group' = group
      /\ files' = [files EXCEPT ![o] = removeFile(@, name)]
      /\ upd' = [upd EXCEPT ![u].remove = rest]
  BY DEF RemoveNext
<1>2. /\ upd[u].remove \in Seq(AllNames) /\ upd[u].add \in Seq(Entries)
      /\ s \in Seq(Entries)
  BY <1>1, CallTypes DEF Idle
<1>3. /\ t = removeFile(s, name)
      /\ \A p \in Objs : p # o => files'[p] = files[p] /\ group'[p] = group[p]
  BY <1>1, <1>2 DEF TypeInv, TypeOK
<1>4. /\ upd'[u].obj = o /\ upd'[u].remove = rest /\ upd'[u].add = upd[u].add
      /\ \A v \in Updaters : v # u => upd'[v] = upd[v]
  <2>1. upd \in [Updaters -> CallsOn(table)] /\ upd[u] \in CallsOn(table)
    BY CallTypes DEF TypeInv, TypeOK, CallsOn, AllNames
  <2> QED
    BY <1>1, <2>1 DEF CallsOn
<1>5. Range(upd[u].remove) = {name} \cup Range(rest)
  BY <1>1, <1>2, SeqParts
<1> HIDE DEF name, rest, s
<1>6. /\ t \in Seq(Entries)
      /\ Range(t) = {f \in Range(s) : f.name # name}
      /\ Names(t) = Names(s) \ {name}
      /\ Once(s) => Once(t)
  BY <1>2, <1>3, RemoveFileList
<1>7. MergeOf(o) /\ Once(s)
  BY <1>2 DEF MergeInv, OnceInv, s
<1>8. u \in Updating(o) /\ Updating(o)' = Updating(o)
  BY <1>4 DEF Updating
<1>9. group'[o] = group[o] /\ Calls(o)' = Calls(o) /\ Brought(o)' = Brought(o)
      /\ Common(o)' = Common(o)
  BY <1>1 DEF Calls, Brought, Common
<1>10. upd[u].add \in Calls(o)
  BY <1>1, <1>7, <1>8 DEF MergeOf, AddsOf
<1>11. \A v \in Updating(o) : v \in Updaters /\ upd'[v].add = upd[v].add
  BY <1>4 DEF Updating
<1>12. AddsOf(o)'
  <2>1. \A v \in Updating(o) :
          /\ group[o] # <<>>
          /\ Range(upd[v].add) \subseteq Brought(o)
          /\ upd[v].remove # <<>> => upd[v].add \in Calls(o)
    BY <1>7 DEF MergeOf, AddsOf
  <2>2. ASSUME NEW v \in Updating(o)
        PROVE  /\ group'[o] # <<>>
               /\ Range(upd'[v].add) \subseteq Brought(o)'
               /\ upd'[v].remove # <<>> => upd'[v].add \in Calls(o)'
    <3>1. CASE v = u
      BY <1>4, <1>9, <1>10, <2>1, <3>1
    <3>2. CASE v # u
      BY <1>4, <1>9, <1>11, <2>1, <3>2
    <3> QED
      BY <3>1, <3>2
  <2> QED
    BY <1>8, <2>2 DEF AddsOf
<1>13. OldOf(o)'
  <2>1. ASSUME NEW f \in Range(t), f \notin Brought(o)
        PROVE  \E v \in Updating(o) : f.name \in Range(upd'[v].remove)
    <3>1. f \in Range(s) /\ f.name # name
      BY <1>6
    <3>2. PICK v \in Updating(o) : f.name \in Range(upd[v].remove)
      BY <1>7, <2>1, <3>1 DEF MergeOf, OldOf, s
    <3>3. CASE v = u
      BY <1>4, <1>5, <3>1, <3>2, <3>3
    <3>4. CASE v # u
      BY <1>4, <1>11, <3>2, <3>4
    <3> QED
      BY <3>3, <3>4
  <2> QED
    BY <1>8, <1>9, <2>1 DEF OldOf
<1>14. CommonOf(o)'
  <2>1. ASSUME NEW n \in Common(o), n \notin Names(t)
        PROVE  \E v \in Updating(o) : n \in Names(upd'[v].add)
    <3>1. CASE n = name
      <4>1. n \in Names(upd[u].add)
        BY <1>10 DEF Common
      <4> QED
        BY <1>8, <1>11, <4>1
    <3>2. CASE n # name
      <4>1. n \notin Names(s)
        BY <1>6, <2>1, <3>2
      <4>2. PICK v \in Updating(o) : n \in Names(upd[v].add)
        BY <1>7, <4>1 DEF MergeOf, CommonOf, s
      <4> QED
        BY <1>11, <4>2
    <3> QED
      BY <3>1, <3>2
  <2> QED
    BY <1>8, <1>9, <2>1 DEF CommonOf
<1>15. AloneOf(o)'
  <2> SUFFICES ASSUME Len(group[o]) = 1
               PROVE  AloneOf(o)'
    BY <1>9 DEF AloneOf
  <2>1. Updating(o) = {u} /\ upd[u].add = group[o][1]
        /\ Names(s) \subseteq Range(upd[u].remove)
    BY <1>1, <1>7, <1>8 DEF MergeOf, AloneOf, s
  <2>2. Names(t) \subseteq Range(rest)
    BY <1>5, <1>6, <2>1
  <2>3. ASSUME rest = <<>>
        PROVE  addFiles(t, upd[u].add) = addFiles(<<>>, group[o][1])
    <3>1. Names(t) = {}
      BY <2>2, <2>3 DEF Range
    <3>2. t = <<>>
      BY <1>6, <3>1, NoNames
    <3> QED
      BY <2>1, <3>2
  <2> QED
    BY <1>4, <1>8, <1>9, <2>1, <2>2, <2>3 DEF AloneOf
<1>16. MergeOf(o)' /\ Once(files'[o])
  BY <1>6, <1>7, <1>12, <1>13, <1>14, <1>15 DEF MergeOf
<1>17. ASSUME NEW p \in Objs, p # o, NEW v \in Updaters, upd[v].obj = p \/ upd'[v].obj = p
       PROVE  upd'[v] = upd[v]
  BY <1>4, <1>17
<1> QED
  BY <1>2, <1>3, <1>16, <1>17, OneObject

\* The call adds a file.
LEMMA MergeAddNext ==
    ASSUME TypeInv, OnceInv, MergeInv, NEW u \in Updaters, AddNext(u),
           NEW o \in Objs, upd[u].obj = o
    PROVE  OnceInv' /\ MergeInv'
<1> DEFINE s == files[o]
           t == files'[o]
           new == upd[u].add
           file == Head(new)
           rest == Tail(new)
<1>1. /\ upd[u].remove = <<>> /\ new # <<>> /\ group' = group
      /\ files' = [files EXCEPT ![o] = addFile(@, file)]
      /\ upd' = [upd EXCEPT ![u].add = rest]
  BY DEF AddNext
<1>2. new \in Seq(Entries) /\ s \in Seq(Entries)
  BY CallTypes
<1>3. /\ t = addFile(s, file)
      /\ \A p \in Objs : p # o => files'[p] = files[p] /\ group'[p] = group[p]
  BY <1>1 DEF TypeInv, TypeOK
<1>4. /\ upd'[u].obj = o /\ upd'[u].remove = <<>> /\ upd'[u].add = rest
      /\ \A v \in Updaters : v # u => upd'[v] = upd[v]
  <2>1. upd \in [Updaters -> CallsOn(table)] /\ upd[u] \in CallsOn(table)
    BY CallTypes DEF TypeInv, TypeOK, CallsOn, AllNames
  <2> QED
    BY <1>1, <2>1 DEF CallsOn
<1>5. /\ file \in Entries /\ rest \in Seq(Entries)
      /\ Range(new) = {file} \cup Range(rest)
      /\ Names(new) = {file.name} \cup Names(rest)
  BY <1>1, <1>2, SeqParts
<1>6. addFiles(addFile(s, file), rest) = addFiles(s, new)
  BY <1>1, <1>2, AddFilesFirst
<1>7. MergeOf(o) /\ Once(s) /\ u \in Updating(o)
  BY DEF MergeInv, OnceInv, Updating
<1>8. AddsOf(o) /\ OldOf(o) /\ CommonOf(o) /\ AloneOf(o)
  BY <1>7 DEF MergeOf
<1>9. Range(new) \subseteq Brought(o)
  BY <1>7, <1>8 DEF AddsOf
<1> HIDE DEF file, rest, s
<1>10. /\ t \in Seq(Entries)
       /\ Range(t) \subseteq Range(s) \cup {file}
       /\ Names(t) = Names(s) \cup {file.name}
       /\ Once(s) => Once(t)
  BY <1>2, <1>3, <1>5, AddFileList
<1>11. Updating(o)' = Updating(o) /\ \A v \in Updating(o) : v \in Updaters
  BY <1>4 DEF Updating
<1>12. group'[o] = group[o] /\ Calls(o)' = Calls(o) /\ Brought(o)' = Brought(o)
       /\ Common(o)' = Common(o)
  BY <1>1 DEF Calls, Brought, Common
<1>13. AddsOf(o)'
  <2>1. \A v \in Updating(o) :
          /\ group[o] # <<>>
          /\ Range(upd[v].add) \subseteq Brought(o)
          /\ upd[v].remove # <<>> => upd[v].add \in Calls(o)
    BY <1>8 DEF AddsOf
  <2>2. ASSUME NEW v \in Updating(o)
        PROVE  /\ group'[o] # <<>>
               /\ Range(upd'[v].add) \subseteq Brought(o)'
               /\ upd'[v].remove # <<>> => upd'[v].add \in Calls(o)'
    <3>1. CASE v = u
      BY <1>4, <1>5, <1>9, <1>12, <2>1, <3>1
    <3>2. CASE v # u
      BY <1>4, <1>11, <1>12, <2>1, <3>2
    <3> QED
      BY <3>1, <3>2
  <2> QED
    BY <1>11, <2>2 DEF AddsOf
<1>14. OldOf(o)'
  <2>1. ASSUME NEW f \in Range(t), f \notin Brought(o)
        PROVE  \E v \in Updating(o) : f.name \in Range(upd'[v].remove)
    <3>1. f \in Range(s)
      BY <1>5, <1>9, <1>10, <2>1
    <3>2. PICK v \in Updating(o) : f.name \in Range(upd[v].remove)
      BY <1>8, <2>1, <3>1 DEF OldOf, s
    <3>3. v # u
      BY <1>1, <3>2 DEF Range
    <3> QED
      BY <1>4, <1>11, <3>2, <3>3
  <2> QED
    BY <1>11, <1>12, <2>1 DEF OldOf
<1>15. CommonOf(o)'
  <2>1. ASSUME NEW n \in Common(o), n \notin Names(t)
        PROVE  \E v \in Updating(o) : n \in Names(upd'[v].add)
    <3>1. n \notin Names(s) /\ n # file.name
      BY <1>10, <2>1
    <3>2. PICK v \in Updating(o) : n \in Names(upd[v].add)
      BY <1>8, <3>1 DEF CommonOf, s
    <3>3. CASE v = u
      BY <1>4, <1>5, <3>1, <3>2, <3>3
    <3>4. CASE v # u
      BY <1>4, <1>11, <3>2, <3>4
    <3> QED
      BY <3>3, <3>4
  <2> QED
    BY <1>11, <1>12, <2>1 DEF CommonOf
<1>16. AloneOf(o)'
  <2> SUFFICES ASSUME Len(group[o]) = 1
               PROVE  AloneOf(o)'
    BY <1>12 DEF AloneOf
  <2>1. Updating(o) = {u} /\ addFiles(s, new) = addFiles(<<>>, group[o][1])
    BY <1>1, <1>7, <1>8 DEF AloneOf, s
  <2>2. addFiles(t, rest) = addFiles(<<>>, group[o][1])
    BY <1>3, <1>6, <2>1
  <2> QED
    BY <1>4, <1>11, <1>12, <2>1, <2>2 DEF AloneOf
<1>17. MergeOf(o)' /\ Once(files'[o])
  BY <1>7, <1>10, <1>13, <1>14, <1>15, <1>16 DEF MergeOf
<1>18. ASSUME NEW p \in Objs, p # o, NEW v \in Updaters, upd[v].obj = p \/ upd'[v].obj = p
       PROVE  upd'[v] = upd[v]
  BY <1>4, <1>18
<1> QED
  BY <1>3, <1>17, <1>18, OneObject

LEMMA MergeUpdateEnds ==
    ASSUME TypeInv, OnceInv, MergeInv, NEW u \in Updaters, UpdateEnds(u),
           NEW o \in Objs, upd[u].obj = o
    PROVE  OnceInv' /\ MergeInv'
<1>1. /\ upd[u].remove = <<>> /\ upd[u].add = <<>> /\ files' = files /\ group' = group
      /\ upd' = [upd EXCEPT ![u] = Idle]
  BY DEF UpdateEnds
<1>2. upd'[u].obj = NoObj /\ NoObj # o /\ \A v \in Updaters : v # u => upd'[v] = upd[v]
  BY <1>1, NoObject, IdleType DEF TypeInv, TypeOK
<1>3. u \in Updating(o) /\ Updating(o)' = Updating(o) \ {u}
      /\ \A v \in Updating(o)' : upd'[v] = upd[v]
  BY <1>2 DEF Updating
<1>4. Range(upd[u].remove) = {} /\ Names(upd[u].add) = {}
  BY <1>1 DEF Range, Names
<1>5. AddsOf(o) /\ OldOf(o) /\ CommonOf(o) /\ AloneOf(o)
  BY DEF MergeInv, MergeOf
<1>6. files'[o] = files[o] /\ group'[o] = group[o] /\ Calls(o)' = Calls(o)
      /\ Brought(o)' = Brought(o) /\ Common(o)' = Common(o)
  BY <1>1 DEF Calls, Brought, Common
<1>7. AddsOf(o)'
  BY <1>3, <1>5, <1>6 DEF AddsOf
<1>8. OldOf(o)'
  <2>1. ASSUME NEW f \in Range(files[o]), f \notin Brought(o)
        PROVE  \E v \in Updating(o)' : f.name \in Range(upd'[v].remove)
    <3>1. PICK v \in Updating(o) : f.name \in Range(upd[v].remove)
      BY <1>5, <2>1 DEF OldOf
    <3> QED
      BY <1>3, <1>4, <3>1
  <2> QED
    BY <1>6, <2>1 DEF OldOf
<1>9. CommonOf(o)'
  <2>1. ASSUME NEW n \in Common(o), n \notin Names(files[o])
        PROVE  \E v \in Updating(o)' : n \in Names(upd'[v].add)
    <3>1. PICK v \in Updating(o) : n \in Names(upd[v].add)
      BY <1>5, <2>1 DEF CommonOf
    <3> QED
      BY <1>3, <1>4, <3>1
  <2> QED
    BY <1>6, <2>1 DEF CommonOf
<1>10. AloneOf(o)'
  <2> SUFFICES ASSUME Len(group[o]) = 1
               PROVE  AloneOf(o)'
    BY <1>6 DEF AloneOf
  <2>1. Updating(o) = {u} /\ addFiles(files[o], <<>>) = addFiles(<<>>, group[o][1])
    BY <1>1, <1>3, <1>5 DEF AloneOf
  <2>2. addFiles(files[o], <<>>) = files[o]
    BY CallTypes, AddFilesNone
  <2> QED
    BY <1>3, <1>6, <2>1, <2>2 DEF AloneOf
<1>11. MergeOf(o)' /\ Once(files'[o])
  BY <1>6, <1>7, <1>8, <1>9, <1>10 DEF MergeOf, OnceInv
<1>12. ASSUME NEW p \in Objs, p # o, NEW v \in Updaters, upd[v].obj = p \/ upd'[v].obj = p
       PROVE  upd'[v] = upd[v]
  BY <1>2, <1>12, NoObject
<1> QED
  BY <1>1, <1>11, <1>12, OneObject

\* The call begins: it will remove every name that the list has now.
LEMMA MergeUpdateStarts ==
    ASSUME TypeInv, OnceInv, MergeInv,
           NEW u \in Updaters, NEW o \in Objs, NEW list \in FileLists,
           UpdateStarts(u, o, list)
    PROVE  OnceInv' /\ MergeInv'
<1> DEFINE r == [k \in DOMAIN files[o] |-> files[o][k].name]
           c == [obj |-> o, remove |-> r, add |-> list]
           before == IF Updating(o) = {} THEN <<>> ELSE group[o]
<1>1. /\ upd[u] = Idle /\ files' = files /\ upd' = [upd EXCEPT ![u] = c]
  BY DEF UpdateStarts
<1>2. group' = [group EXCEPT ![o] = Append(before, list)]
  BY DEF UpdateStarts, TypeInv, TypeOK
<1>3. /\ Range(r) = Names(files[o])
      /\ r = <<>> => files[o] = <<>>
  BY CallTypes, NamesCopied
<1>4. c.obj = o /\ c.remove = r /\ c.add = list
  OBVIOUS
<1>5. before \in Seq(FileLists) /\ Len(before) \in Nat /\ (Updating(o) = {} => Len(before) = 0)
  BY CallTypes, EmptySeq, LenProperties
<1>6. AddsOf(o) /\ Once(files[o])
  BY DEF MergeInv, MergeOf, OnceInv
<1>7. Updating(o) # {} => before = group[o] /\ Len(before) # 0
  BY <1>5, <1>6, EmptySeq DEF AddsOf
<1> HIDE DEF r, c, before
<1>8. /\ upd'[u] = c /\ \A v \in Updaters : v # u => upd'[v] = upd[v]
      /\ files'[o] = files[o] /\ group'[o] = Append(before, list)
      /\ \A p \in Objs : p # o => files'[p] = files[p] /\ group'[p] = group[p]
  BY <1>1, <1>2 DEF TypeInv, TypeOK
<1>9. /\ Len(group'[o]) = Len(before) + 1 /\ group'[o][Len(before) + 1] = list
      /\ group'[o] \in Seq(FileLists)
      /\ \A i \in 1 .. Len(before) : group'[o][i] = before[i]
  BY <1>5, <1>8, AppendProperties
<1>10. Updating(o)' = Updating(o) \cup {u} /\ u \notin Updating(o)
  BY <1>1, <1>4, <1>8, NoObject, IdleType DEF Updating
<1>11. /\ list \in Calls(o)' /\ group'[o] # <<>>
       /\ Updating(o) # {} => Calls(o) \subseteq Calls(o)'
  <2> DEFINE g == group'[o]
  <2>1. Range(g) = {g[i] : i \in 1 .. Len(before) + 1}
    BY <1>9, RangeSeq
  <2>2. Range(before) = {before[i] : i \in 1 .. Len(before)}
    BY <1>5, RangeSeq
  <2>3. Len(before) + 1 \in 1 .. Len(before) + 1
        /\ \A i \in 1 .. Len(before) : i \in 1 .. Len(before) + 1
    BY <1>5
  <2>4. list \in Range(g) /\ Range(before) \subseteq Range(g)
    BY <1>9, <2>1, <2>2, <2>3
  <2>5. g # <<>>
    BY <1>5, <1>9, EmptySeq
  <2> QED
    BY <1>7, <2>4, <2>5 DEF Calls
<1>12. Range(list) \subseteq Brought(o)' /\ Common(o)' \subseteq Names(list)
       /\ (Updating(o) # {} => Brought(o) \subseteq Brought(o)')
  BY <1>11 DEF Brought, Common
<1>13. AddsOf(o)'
  <2>1. ASSUME NEW v \in Updating(o)
        PROVE  /\ Range(upd'[v].add) \subseteq Brought(o)'
               /\ upd'[v].remove # <<>> => upd'[v].add \in Calls(o)'
    <3>1. upd'[v] = upd[v]
      BY <1>8, <1>10 DEF Updating
    <3>2. /\ Range(upd[v].add) \subseteq Brought(o)
          /\ upd[v].remove # <<>> => upd[v].add \in Calls(o)
      BY <1>6 DEF AddsOf
    <3> QED
      BY <1>11, <1>12, <3>1, <3>2
  <2>2. upd'[u].add = list
    BY <1>4, <1>8
  <2> QED
    BY <1>10, <1>11, <1>12, <2>1, <2>2 DEF AddsOf
<1>14. OldOf(o)'
  <2>1. ASSUME NEW f \in Range(files[o])
        PROVE  f.name \in Range(upd'[u].remove)
    BY <1>3, <1>4, <1>8 DEF Names
  <2> QED
    BY <1>8, <1>10, <2>1 DEF OldOf
<1>15. CommonOf(o)'
  <2>1. upd'[u].add = list
    BY <1>4, <1>8
  <2> QED
    BY <1>10, <1>12, <2>1 DEF CommonOf
<1>16. AloneOf(o)'
  <2> SUFFICES ASSUME Len(group'[o]) = 1
               PROVE  AloneOf(o)'
    BY DEF AloneOf
  <2>1. Len(before) = 0 /\ Updating(o)' = {u} /\ group'[o][1] = list
    BY <1>5, <1>7, <1>9, <1>10
  <2>2. upd'[u].add = list /\ upd'[u].remove = r
    BY <1>4, <1>8
  <2> QED
    BY <1>3, <1>8, <2>1, <2>2 DEF AloneOf
<1>17. MergeOf(o)' /\ Once(files'[o])
  BY <1>6, <1>8, <1>13, <1>14, <1>15, <1>16 DEF MergeOf
<1>18. ASSUME NEW p \in Objs, p # o, NEW v \in Updaters, upd[v].obj = p \/ upd'[v].obj = p
       PROVE  upd'[v] = upd[v]
  <2>1. upd[u].obj # p
    BY <1>1, NoObject, IdleType
  <2>2. upd'[u].obj # p
    BY <1>4, <1>8, <1>18
  <2>3. v # u
    BY <1>18, <2>1, <2>2
  <2> QED
    BY <1>8, <2>3
<1> QED
  BY <1>8, <1>17, <1>18, OneObject

LEMMA MergeStep == TypeInv /\ OnceInv /\ MergeInv /\ [Next]_vars => OnceInv' /\ MergeInv'
<1> SUFFICES ASSUME TypeInv, OnceInv, MergeInv, [Next]_vars
             PROVE  OnceInv' /\ MergeInv'
  OBVIOUS
<1>1. ASSUME NEW o \in Objs, NEW list \in FileLists, AddPeer(o, list)
      PROVE  OnceInv' /\ MergeInv'
  BY <1>1, MergeAddPeer
<1>2. ASSUME NEW o \in Objs, RemovePeer(o)
      PROVE  OnceInv' /\ MergeInv'
  BY <1>2, MergeRemovePeer
<1>3. ASSUME NEW u \in Updaters, NEW o \in Objs, NEW list \in FileLists,
             UpdateStarts(u, o, list)
      PROVE  OnceInv' /\ MergeInv'
  BY <1>3, MergeUpdateStarts
<1>4. ASSUME NEW u \in Updaters, upd[u] # Idle
      PROVE  \E o \in Objs : upd[u].obj = o
  BY <1>4, CallTypes
<1>5. ASSUME NEW u \in Updaters, RemoveNext(u)
      PROVE  OnceInv' /\ MergeInv'
  <2>1. upd[u] # Idle
    BY <1>5 DEF RemoveNext, Idle
  <2>2. PICK o \in Objs : upd[u].obj = o
    BY <1>4, <2>1
  <2> QED
    BY <1>5, <2>2, MergeRemoveNext
<1>6. ASSUME NEW u \in Updaters, AddNext(u)
      PROVE  OnceInv' /\ MergeInv'
  <2>1. upd[u] # Idle
    BY <1>6 DEF AddNext, Idle
  <2>2. PICK o \in Objs : upd[u].obj = o
    BY <1>4, <2>1
  <2> QED
    BY <1>6, <2>2, MergeAddNext
<1>7. ASSUME NEW u \in Updaters, UpdateEnds(u)
      PROVE  OnceInv' /\ MergeInv'
  <2>1. upd[u] # Idle
    BY <1>7 DEF UpdateEnds
  <2>2. PICK o \in Objs : upd[u].obj = o
    BY <1>4, <2>1
  <2> QED
    BY <1>7, <2>2, MergeUpdateEnds
<1>8. ASSUME AnswerStarts \/ WritePeer \/ ReceivePeers
             \/ \E list \in FileLists \cup {<<>>} : ReceiveFiles(list)
      PROVE  UNCHANGED <<files, group, upd>>
  BY <1>8 DEF AnswerStarts, WritePeer, ReceivePeers, ReceiveFiles, tableVars
<1>9. CASE UNCHANGED vars
  BY <1>9, AllKept DEF vars, tableVars
<1> QED
  BY <1>1, <1>2, <1>3, <1>5, <1>6, <1>7, <1>8, <1>9, AllKept DEF Next

\* updatePeerFileList holds the table's mutex for reading only: callers rewrite
\* one list at a time.  However their removeFile and addFile mix, no name is in
\* the list twice, and when they are over it has every name that all of them
\* brought and no file that none brought; a call that was alone replaced it.
THEOREM MergeCorrect == Spec => []UpdatesMerge
<1>1. Init => TypeInv /\ OnceInv /\ MergeInv
  BY TypeInit
<1>2. TypeInv /\ OnceInv /\ MergeInv /\ [Next]_vars => TypeInv' /\ OnceInv' /\ MergeInv'
  BY TypeStep, MergeStep
<1>3. TypeInv /\ OnceInv /\ MergeInv => UpdatesMerge
  <2> SUFFICES ASSUME TypeInv, OnceInv, MergeInv
               PROVE  UpdatesMerge
    OBVIOUS
  <2>1. ASSUME NEW o \in Objs
        PROVE  \A i, j \in DOMAIN files[o] : files[o][i].name = files[o][j].name => i = j
    <3>1. files[o] \in Seq(Entries) /\ Once(files[o])
      BY CallTypes DEF OnceInv
    <3> QED
      BY <3>1, LenProperties DEF Once
  <2>2. ASSUME NEW o \in Objs, Updating(o) = {}
        PROVE  /\ Range(files[o]) \subseteq Brought(o)
               /\ \A n \in Common(o) : n \in Names(files[o])
               /\ Len(group[o]) = 1 => files[o] = addFiles(<<>>, group[o][1])
    <3>1. OldOf(o) /\ CommonOf(o) /\ AloneOf(o)
      BY DEF MergeInv, MergeOf
    <3> QED
      BY <2>2, <3>1 DEF OldOf, CommonOf, AloneOf
  <2> QED
    BY <2>1, <2>2 DEF UpdatesMerge, Brought, Common, Calls
<1> QED
  BY <1>1, <1>2, <1>3, PTL DEF Spec

-----------------------------------------------------------------------------
(* Texts *)

\* Two loops that do the same end the same.
LEMMA SameRounds ==
    ASSUME NEW n \in Nat, NEW g, NEW h, g[0] = h[0],
           \A i \in 1 .. n : g[i - 1] = h[i - 1] => g[i] = h[i]
    PROVE  g[n] = h[n]
<1> DEFINE T == {i \in 0 .. n : g[i] = h[i]}
<1>1. 0 \in T
  OBVIOUS
<1>2. ASSUME NEW i \in 1 .. n, i - 1 \in T
      PROVE  i \in T
  <2>1. i \in 0 .. n
    OBVIOUS
  <2> QED
    BY <1>2, <2>1
<1> HIDE DEF T
<1>3. 0 .. n \subseteq T
  BY <1>1, <1>2, BoundedInduction
<1> QED
  BY <1>3 DEF T

\* A sequence without its last element.
LEMMA PrefixGrows ==
    ASSUME NEW S, NEW s \in Seq(S), NEW i \in 1 .. Len(s)
    PROVE  /\ SubSeq(s, 1, i - 1) \in Seq(S) /\ s[i] \in S
           /\ SubSeq(s, 1, i) = Append(SubSeq(s, 1, i - 1), s[i])
<1>1. Len(s) \in Nat /\ i \in Nat /\ 1 <= i /\ i <= Len(s) /\ s[i] \in S
  BY LenProperties, ElementOfSeq
<1>2. \A k \in 1 .. i - 1 : s[k] \in S
  BY <1>1, ElementOfSeq
<1> DEFINE a == SubSeq(s, 1, i - 1)
           b == SubSeq(s, 1, i)
<1>3. /\ a \in Seq(S) /\ Len(a) = i - 1 /\ \A k \in 1 .. i - 1 : a[k] = s[k]
  BY <1>1, <1>2
<1>4. /\ b \in Seq(S) /\ Len(b) = i /\ \A k \in 1 .. i : b[k] = s[k]
  BY <1>1, <1>2
<1> HIDE DEF a, b
<1>5. /\ Append(a, s[i]) \in Seq(S) /\ Len(Append(a, s[i])) = i
      /\ Append(a, s[i])[i] = s[i] /\ \A k \in 1 .. i - 1 : Append(a, s[i])[k] = a[k]
  BY <1>1, <1>3, AppendProperties
<1>6. \A k \in 1 .. i : k \in 1 .. i - 1 \/ k = i
  BY <1>1
<1>7. \A k \in 1 .. i : b[k] = Append(a, s[i])[k]
  BY <1>3, <1>4, <1>5, <1>6
<1>8. b = Append(a, s[i])
  BY <1>4, <1>5, <1>7, SeqEqual
<1> QED
  BY <1>1, <1>3, <1>8 DEF a, b

LEMMA PickedAll ==
    ASSUME NEW S, NEW s \in Seq(S), NEW W, 1 .. Len(s) \subseteq W
    PROVE  Picked(s, W) = s
<1> DEFINE n == Len(s)
           h == [i \in 0 .. n |-> SubSeq(s, 1, i)]
<1>1. n \in Nat
  BY LenProperties
<1>2. PICK g : PickLoop(g, S, s, W)
  BY PickedRuns
<1>3. /\ g[0] = <<>> /\ Picked(s, W) = g[n]
      /\ \A i \in 1 .. n : g[i] = Append(g[i - 1], s[i])
  BY <1>2 DEF PickLoop
<1>4. h[0] = <<>> /\ h[n] = s
  <2>1. SubSeq(s, 1, 0) = <<>> /\ SubSeq(s, 1, n) = s
    BY SubSeqEmpty, SubSeqFull
  <2> QED
    BY <1>1, <2>1
<1>5. ASSUME NEW i \in 1 .. n
      PROVE  h[i] = Append(h[i - 1], s[i])
  <2>1. i \in 0 .. n /\ i - 1 \in 0 .. n
    BY <1>1
  <2>2. SubSeq(s, 1, i) = Append(SubSeq(s, 1, i - 1), s[i])
    BY PrefixGrows
  <2> QED
    BY <2>1, <2>2
<1> HIDE DEF n, h
<1>6. g[0] = h[0] /\ \A i \in 1 .. n : g[i - 1] = h[i - 1] => g[i] = h[i]
  BY <1>3, <1>4, <1>5
<1>7. g[n] = h[n]
  BY <1>1, <1>6, SameRounds
<1> QED
  BY <1>3, <1>4, <1>7

\* What Read does with a symbol.
ReadStart == [tokens |-> <<>>, token |-> <<>>]
ReadNext(r, x, sep) ==
    IF x = sep THEN [tokens |-> Append(r.tokens, r.token), token |-> <<>>]
    ELSE [tokens |-> r.tokens, token |-> Append(r.token, x)]
Readings(S) == [tokens : Seq(Seq(S)), token : Seq(S)]

LEMMA ReadTypes ==
    ASSUME NEW S
    PROVE  /\ ReadStart \in Readings(S)
           /\ \A r \in Readings(S), x \in S : \A sep : ReadNext(r, x, sep) \in Readings(S)
<1>1. <<>> \in Seq(S) /\ <<>> \in Seq(Seq(S))
  BY EmptySeq
<1>2. ReadStart \in Readings(S)
  BY <1>1 DEF ReadStart, Readings
<1>3. ASSUME NEW r \in Readings(S), NEW x \in S, NEW sep
      PROVE  ReadNext(r, x, sep) \in Readings(S)
  <2>1. r.tokens \in Seq(Seq(S)) /\ r.token \in Seq(S)
    BY DEF Readings
  <2> DEFINE T == Seq(S)
             ts == r.tokens
             t == r.token
  <2>2. ts \in Seq(T) /\ t \in T
    BY <2>1
  <2> HIDE DEF T, ts, t
  <2>3. Append(ts, t) \in Seq(T)
    BY <2>2, AppendProperties
  <2>4. Append(r.tokens, r.token) \in Seq(Seq(S))
    BY <2>3 DEF T, ts, t
  <2>5. Append(r.token, x) \in Seq(S)
    BY <2>1, AppendProperties
  <2> QED
    BY <1>1, <2>1, <2>4, <2>5 DEF ReadNext, Readings
<1> QED
  BY <1>2, <1>3

ReadLoop(g, S, text, sep) ==
    /\ g \in [0 .. Len(text) -> Readings(S)]
    /\ g[0] = ReadStart
    /\ \A i \in 1 .. Len(text) : g[i] = ReadNext(g[i - 1], text[i], sep)
    /\ Read(text, sep) = g[Len(text)]

LEMMA ReadRuns ==
    ASSUME NEW S, NEW text \in Seq(S), NEW sep
    PROVE  \E g : ReadLoop(g, S, text, sep)
<1> DEFINE n == Len(text)
           X == Readings(S)
           Loop(g) == [i \in 0 .. n |-> IF i = 0 THEN ReadStart
                                        ELSE ReadNext(g[i - 1], text[i], sep)]
           step == [i \in 1 .. n |-> [r \in X |-> ReadNext(r, text[i], sep)]]
           read == CHOOSE g : g = Loop(g)
<1>1. n \in Nat /\ \A i \in 1 .. n : text[i] \in S
  BY RangeSeq, ElementOfSeq
<1>2. ReadStart \in X /\ \A i \in 1 .. n : \A r \in X : ReadNext(r, text[i], sep) \in X
  BY <1>1, ReadTypes
<1>3. Read(text, sep) = read[n]
  BY DEF Read, ReadStart, ReadNext
<1> HIDE DEF n, X
<1>4. step \in [1 .. n -> [X -> X]]
  BY <1>2
<1>5. \E f \in [0 .. n -> X] :
        f[0] = ReadStart /\ \A i \in 1 .. n : f[i] = step[i][f[i - 1]]
  <2>1. n \in Nat /\ ReadStart \in X /\ step \in Rounds(n, X)
    BY <1>1, <1>2, <1>4 DEF Rounds
  <2> HIDE DEF step
  <2>2. Values(ReadStart, n, X, step) # {}
    BY <2>1, Iterate
  <2> QED
    BY <2>2 DEF Values
<1>6. PICK f \in [0 .. n -> X] :
        f[0] = ReadStart /\ \A i \in 1 .. n : f[i] = step[i][f[i - 1]]
  BY <1>5
<1>7. ASSUME NEW i \in 1 .. n
      PROVE  i - 1 \in 0 .. n /\ f[i] = ReadNext(f[i - 1], text[i], sep)
  <2>1. i - 1 \in 0 .. n /\ f[i - 1] \in X
    BY <1>1
  <2>2. step[i][f[i - 1]] = ReadNext(f[i - 1], text[i], sep)
    BY <2>1
  <2> QED
    BY <1>6, <2>1, <2>2
<1>8. f = Loop(f)
  <2>1. ASSUME NEW i \in 0 .. n
        PROVE  f[i] = Loop(f)[i]
    <3>1. i = 0 \/ i \in 1 .. n
      BY <1>1
    <3> QED
      BY <1>6, <1>7, <3>1
  <2> QED
    BY <2>1
<1>9. read = Loop(read)
  <2> HIDE DEF Loop
  <2> QED
    BY <1>8
<1> HIDE DEF read
<1>10. read[0] = ReadStart
  BY <1>1, <1>9
<1>11. ASSUME NEW i \in 1 .. n
       PROVE  read[i] = ReadNext(read[i - 1], text[i], sep)
  <2>1. i \in 0 .. n /\ i # 0
    BY <1>1
  <2> QED
    BY <1>9, <2>1
<1>12. read \in [0 .. n -> X]
  <2> DEFINE T == {i \in 0 .. n : read[i] \in X}
  <2>1. 0 \in T
    BY <1>1, <1>2, <1>10
  <2>2. ASSUME NEW i \in 1 .. n, i - 1 \in T
        PROVE  i \in T
    <3>1. i \in 0 .. n /\ read[i - 1] \in X
      BY <1>1, <2>2
    <3> QED
      BY <1>2, <1>11, <3>1
  <2> HIDE DEF T
  <2>3. 0 .. n \subseteq T
    BY <1>1, <2>1, <2>2, BoundedInduction
  <2>4. \A i \in 0 .. n : read[i] \in X
    BY <2>3 DEF T
  <2>5. read = [i \in 0 .. n |-> read[i]]
    BY <1>9
  <2> QED
    BY <2>4, <2>5
<1>13. ReadLoop(read, S, text, sep)
  BY <1>3, <1>10, <1>11, <1>12 DEF ReadLoop, n, X
<1> QED
  BY <1>13

LEMMA ReadAppend ==
    ASSUME NEW S, NEW text \in Seq(S), NEW x \in S, NEW sep
    PROVE  /\ Read(<<>>, sep) = ReadStart
           /\ Read(text, sep) \in Readings(S)
           /\ Read(Append(text, x), sep) = ReadNext(Read(text, sep), x, sep)
<1> DEFINE n == Len(text)
           more == Append(text, x)
<1>1. n \in Nat
  BY LenProperties
<1>2. more \in Seq(S) /\ Len(more) = n + 1 /\ more[n + 1] = x
      /\ \A i \in 1 .. n : more[i] = text[i]
  BY AppendProperties
<1> HIDE DEF more
<1>g. PICK g : ReadLoop(g, S, text, sep)
  BY ReadRuns
<1>h. PICK h : ReadLoop(h, S, more, sep)
  BY <1>2, ReadRuns
<1>3. /\ g[0] = ReadStart /\ Read(text, sep) = g[n] /\ g[n] \in Readings(S)
      /\ \A i \in 1 .. n : g[i] = ReadNext(g[i - 1], text[i], sep)
  BY <1>1, <1>g DEF ReadLoop
<1>4. /\ h[0] = ReadStart /\ Read(more, sep) = h[n + 1]
      /\ \A i \in 1 .. n + 1 : h[i] = ReadNext(h[i - 1], more[i], sep)
  BY <1>2, <1>h DEF ReadLoop
<1> HIDE DEF n
<1>5. ASSUME NEW i \in 1 .. n, g[i - 1] = h[i - 1]
      PROVE  g[i] = h[i]
  <2>1. i \in 1 .. n + 1
    BY <1>1
  <2> QED
    BY <1>2, <1>3, <1>4, <1>5, <2>1
<1>6. g[n] = h[n]
  <2>1. g[0] = h[0] /\ \A i \in 1 .. n : g[i - 1] = h[i - 1] => g[i] = h[i]
    BY <1>3, <1>4, <1>5
  <2> QED
    BY <1>1, <2>1, SameRounds
<1>7. Read(more, sep) = ReadNext(Read(text, sep), x, sep)
  <2>1. n + 1 \in 1 .. n + 1 /\ (n + 1) - 1 = n
    BY <1>1
  <2> QED
    BY <1>2, <1>3, <1>4, <1>6, <2>1
<1>8. Read(<<>>, sep) = ReadStart
  <2>1. <<>> \in Seq(S) /\ Len(<<>>) = 0
    BY EmptySeq
  <2>2. PICK f : ReadLoop(f, S, <<>>, sep)
    BY <2>1, ReadRuns
  <2> QED
    BY <2>1, <2>2 DEF ReadLoop
<1> QED
  BY <1>3, <1>7, <1>8 DEF more

LEMMA ConcatAppend ==
    ASSUME NEW S, NEW s \in Seq(S), NEW t \in Seq(S), NEW x \in S
    PROVE  s \o t \in Seq(S) /\ s \o Append(t, x) = Append(s \o t, x)
<1>1. Append(t, x) = t \o <<x>> /\ <<x>> \in Seq(S)
  BY AppendIsConcat
<1>2. s \o t \in Seq(S)
  BY ConcatProperties
<1> DEFINE u == s \o t
<1> HIDE DEF u
<1>3. u \in Seq(S) => Append(u, x) = u \o <<x>>
  BY AppendIsConcat
<1>4. s \o (t \o <<x>>) = (s \o t) \o <<x>>
  BY <1>1, ConcatAssociative
<1> QED
  BY <1>1, <1>2, <1>3, <1>4 DEF u

LEMMA AppendRange ==
    ASSUME NEW S, NEW s \in Seq(S), NEW x \in S
    PROVE  Append(s, x) \in Seq(S) /\ Range(Append(s, x)) = Range(s) \cup {x}
<1> DEFINE a == Append(s, x)
<1>1. Len(s) \in Nat /\ Range(s) = {s[i] : i \in 1 .. Len(s)}
  BY RangeSeq
<1>2. a \in Seq(S) /\ Len(a) = Len(s) + 1 /\ a[Len(s) + 1] = x
      /\ \A i \in 1 .. Len(s) : a[i] = s[i]
  BY AppendProperties
<1> HIDE DEF a
<1>3. Range(a) = {a[i] : i \in 1 .. Len(s) + 1}
  BY <1>2, RangeSeq
<1>4. \A i : i \in 1 .. Len(s) + 1 <=> i \in 1 .. Len(s) \/ i = Len(s) + 1
  BY <1>1
<1> QED
  BY <1>1, <1>2, <1>3, <1>4 DEF a

\* Tokens that have ended stay, and a text without the separator goes to the
\* token that is being read.
LEMMA ReadOn ==
    ASSUME NEW S, NEW text \in Seq(S), NEW more \in Seq(S), NEW sep
    PROVE  /\ Range(Read(text, sep).tokens) \subseteq Range(Read(text \o more, sep).tokens)
           /\ (\A k \in 1 .. Len(more) : more[k] # sep) =>
                Read(text \o more, sep) = [tokens |-> Read(text, sep).tokens,
                                           token  |-> Read(text, sep).token \o more]
<1> DEFINE n == Len(more)
           plain == \A k \in 1 .. n : more[k] # sep
           at == [i \in 0 .. n |-> Read(text \o SubSeq(more, 1, i), sep)]
           before == Read(text, sep)
           T == {i \in 0 .. n :
                   /\ Range(before.tokens) \subseteq Range(at[i].tokens)
                   /\ plain => at[i] = [tokens |-> before.tokens,
                                        token  |-> before.token \o SubSeq(more, 1, i)]}
<1>1. n \in Nat /\ \A k \in 1 .. n : more[k] \in S
  BY LenProperties, ElementOfSeq
<1>2. before \in Readings(S) /\ before.tokens \in Seq(Seq(S)) /\ before.token \in Seq(S)
  <2>1. before \in Readings(S)
    <3>1. PICK g : ReadLoop(g, S, text, sep)
      BY ReadRuns
    <3>2. Len(text) \in Nat
      BY LenProperties
    <3> QED
      BY <3>1, <3>2 DEF ReadLoop
  <2> QED
    BY <2>1 DEF Readings
<1>3. SubSeq(more, 1, 0) = <<>> /\ SubSeq(more, 1, n) = more
  BY SubSeqEmpty, SubSeqFull
<1> HIDE DEF before
<1>4. 0 \in T
  <2>1. text \o <<>> = text /\ before.token \o <<>> = before.token
    BY <1>2, ConcatEmptySeq
  <2>2. at[0] = before
    <3>1. at[0] = Read(text \o SubSeq(more, 1, 0), sep)
      BY <1>1
    <3>2. text \o SubSeq(more, 1, 0) = text
      BY <1>3, <2>1
    <3> HIDE DEF at
    <3> QED
      BY <3>1, <3>2 DEF before
  <2>3. before = [tokens |-> before.tokens, token |-> before.token]
    BY <1>2 DEF Readings
  <2> HIDE DEF at
  <2>4. at[0] = [tokens |-> before.tokens, token |-> before.token \o SubSeq(more, 1, 0)]
    BY <1>3, <2>1, <2>2, <2>3
  <2>5. Range(before.tokens) \subseteq Range(at[0].tokens)
    BY <2>2
  <2> QED
    BY <1>1, <2>4, <2>5
<1>5. ASSUME NEW i \in 1 .. n, i - 1 \in T
      PROVE  i \in T
  <2> DEFINE p == SubSeq(more, 1, i - 1)
             x == more[i]
             r == at[i - 1]
  <2>1. i \in 0 .. n /\ i - 1 \in 0 .. n
    BY <1>1
  <2>2. p \in Seq(S) /\ x \in S /\ SubSeq(more, 1, i) = Append(p, x)
    BY PrefixGrows
  <2>3. r = Read(text \o p, sep) /\ at[i] = Read(text \o SubSeq(more, 1, i), sep)
    BY <2>1
  <2>4. /\ Range(before.tokens) \subseteq Range(r.tokens)
        /\ plain => r = [tokens |-> before.tokens, token |-> before.token \o p]
    BY <1>5
  <2>5. plain => x # sep
    OBVIOUS
  <2> HIDE DEF p, x, r, at, plain
  <2>6. text \o p \in Seq(S) /\ text \o Append(p, x) = Append(text \o p, x)
    BY <2>2, ConcatAppend
  <2>7. r \in Readings(S) /\ at[i] = ReadNext(r, x, sep)
    <3> DEFINE q == text \o p
    <3>1. q \in Seq(S) /\ r = Read(q, sep) /\ at[i] = Read(Append(q, x), sep)
      BY <2>2, <2>3, <2>6
    <3> HIDE DEF q
    <3> QED
      BY <2>2, <3>1, ReadAppend
  <2>8. Range(before.tokens) \subseteq Range(at[i].tokens)
    <3> DEFINE ts == r.tokens
               t == r.token
               X == Seq(S)
    <3>1. ts \in Seq(X) /\ t \in X
      BY <2>7 DEF Readings
    <3>2. at[i].tokens = ts \/ at[i].tokens = Append(ts, t)
      BY <2>7 DEF ReadNext
    <3> HIDE DEF ts, t, X
    <3>3. Range(Append(ts, t)) = Range(ts) \cup {t}
      BY <3>1, AppendRange
    <3>4. Range(before.tokens) \subseteq Range(ts)
      BY <2>4 DEF ts
    <3> QED
      BY <3>2, <3>3, <3>4
  <2>9. ASSUME plain
        PROVE  at[i] = [tokens |-> before.tokens, token |-> before.token \o SubSeq(more, 1, i)]
    <3>1. before.token \o Append(p, x) = Append(before.token \o p, x)
      <4> DEFINE b == before.token
      <4>1. b \in Seq(S)
        BY <1>2
      <4> HIDE DEF b
      <4>2. b \o Append(p, x) = Append(b \o p, x)
        BY <2>2, <4>1, ConcatAppend
      <4> QED
        BY <4>2 DEF b
    <3>2. at[i] = [tokens |-> r.tokens, token |-> Append(r.token, x)]
      BY <2>5, <2>7, <2>9 DEF ReadNext
    <3>3. r.tokens = before.tokens /\ r.token = before.token \o p
      BY <2>4, <2>9
    <3> QED
      BY <2>2, <3>1, <3>2, <3>3
  <2> QED
    BY <2>1, <2>8, <2>9
<1> HIDE DEF T
<1>6. 0 .. n \subseteq T
  BY <1>1, <1>4, <1>5, BoundedInduction
<1>7. n \in T /\ n \in 0 .. n
  BY <1>1, <1>6
<1>8. at[n] = Read(text \o more, sep)
  BY <1>3, <1>7
<1> QED
  BY <1>3, <1>7, <1>8 DEF T, before

\* FlattenSeq, as a loop from the empty text.
FlattenLoop(g, S, parts) ==
    /\ g \in [0 .. Len(parts) -> Seq(S)]
    /\ g[0] = <<>>
    /\ \A i \in 1 .. Len(parts) : g[i] = g[i - 1] \o parts[i]
    /\ FlattenSeq(parts) = g[Len(parts)]

LEMMA FlattenRuns ==
    ASSUME NEW S, NEW parts \in Seq(Seq(S))
    PROVE  \E g : FlattenLoop(g, S, parts)
<1> DEFINE n == Len(parts)
           X == Seq(S)
           Loop(g) == [i \in 1 .. n |-> IF i = 1 THEN parts[i] ELSE g[i - 1] \o parts[i]]
           step == [i \in 1 .. n |-> [t \in X |-> t \o parts[i]]]
           flatten == CHOOSE g : g = Loop(g)
           G == [i \in 0 .. n |-> IF i = 0 THEN <<>> ELSE flatten[i]]
<1>1. n \in Nat /\ \A i \in 1 .. n : parts[i] \in X
  BY RangeSeq, ElementOfSeq
<1>2. <<>> \in X /\ \A i \in 1 .. n : \A t \in X : t \o parts[i] \in X
  BY <1>1, EmptySeq, ConcatProperties
<1>3. FlattenSeq(parts) = IF n = 0 THEN parts ELSE flatten[n]
  BY DEF FlattenSeq
<1>4. n = 0 => parts = <<>>
  BY EmptySeq
<1>5. \A t \in X : <<>> \o t = t
  BY ConcatEmptySeq
<1> HIDE DEF n, X
<1>6. step \in [1 .. n -> [X -> X]]
  BY <1>2
<1>7. \E f \in [0 .. n -> X] :
        f[0] = <<>> /\ \A i \in 1 .. n : f[i] = step[i][f[i - 1]]
  <2> DEFINE e == <<>>
  <2>1. n \in Nat /\ e \in X /\ step \in Rounds(n, X)
    BY <1>1, <1>2, <1>6 DEF Rounds
  <2> HIDE DEF step, e
  <2>2. Values(e, n, X, step) # {}
    BY <2>1, Iterate
  <2> QED
    BY <2>2 DEF Values, e
<1>8. PICK f \in [0 .. n -> X] :
        f[0] = <<>> /\ \A i \in 1 .. n : f[i] = step[i][f[i - 1]]
  BY <1>7
<1>9. ASSUME NEW i \in 1 .. n
      PROVE  i - 1 \in 0 .. n /\ f[i] = f[i - 1] \o parts[i]
  <2>1. i - 1 \in 0 .. n /\ f[i - 1] \in X
    BY <1>1
  <2>2. step[i][f[i - 1]] = f[i - 1] \o parts[i]
    BY <2>1
  <2> QED
    BY <1>8, <2>1, <2>2
<1>10. flatten = Loop(flatten)
  <2> DEFINE h == [i \in 1 .. n |-> f[i]]
  <2>1. ASSUME NEW i \in 1 .. n
        PROVE  h[i] = IF i = 1 THEN parts[i] ELSE h[i - 1] \o parts[i]
    <3>1. CASE i = 1
      <4>1. f[i] = f[i - 1] \o parts[i] /\ parts[i] \in X
        BY <1>1, <1>9
      <4>2. i - 1 = 0
        BY <3>1
      <4>3. f[i - 1] = <<>>
        BY <1>8, <4>2
      <4>4. f[i] = parts[i]
        BY <1>5, <4>1, <4>3
      <4> QED
        BY <3>1, <4>4
    <3>2. CASE i # 1
      <4>1. i - 1 \in 1 .. n
        BY <1>1, <3>2
      <4> QED
        BY <1>9, <3>2, <4>1
    <3> QED
      BY <3>1, <3>2
  <2>2. h = Loop(h)
    <3>1. h = [i \in 1 .. n |-> h[i]]
      OBVIOUS
    <3> HIDE DEF h
    <3> QED
      BY <2>1, <3>1
  <2> HIDE DEF Loop, h
  <2> QED
    BY <2>2
<1> HIDE DEF flatten
<1>11. ASSUME NEW i \in 1 .. n
       PROVE  G[i] = G[i - 1] \o parts[i]
  <2>1. i \in 0 .. n /\ i - 1 \in 0 .. n /\ i # 0 /\ parts[i] \in X
    BY <1>1
  <2>2. flatten[i] = IF i = 1 THEN parts[i] ELSE flatten[i - 1] \o parts[i]
    BY <1>10
  <2>3. CASE i = 1
    <3>1. G[i] = parts[i] /\ G[i - 1] = <<>>
      BY <2>1, <2>2, <2>3
    <3> HIDE DEF G
    <3> QED
      BY <1>5, <2>1, <3>1
  <2>4. CASE i # 1
    <3>1. G[i] = flatten[i] /\ G[i - 1] = flatten[i - 1]
      BY <2>1, <2>4
    <3> QED
      BY <2>2, <2>4, <3>1
  <2> QED
    BY <2>3, <2>4
<1>12. G[0] = <<>> /\ FlattenSeq(parts) = G[n]
  <2>1. 0 \in 0 .. n /\ n \in 0 .. n
    BY <1>1
  <2> QED
    BY <1>3, <1>4, <2>1
<1>13. G \in [0 .. n -> X]
  <2> DEFINE T == {i \in 0 .. n : G[i] \in X}
  <2>0. G = [i \in 0 .. n |-> G[i]]
    OBVIOUS
  <2> HIDE DEF G
  <2>1. 0 \in T
    BY <1>1, <1>2, <1>12
  <2>2. ASSUME NEW i \in 1 .. n, i - 1 \in T
        PROVE  i \in T
    <3>1. i \in 0 .. n /\ G[i - 1] \in X
      BY <1>1, <2>2
    <3> QED
      BY <1>2, <1>11, <3>1
  <2> HIDE DEF T
  <2>3. 0 .. n \subseteq T
    BY <1>1, <2>1, <2>2, BoundedInduction
  <2>4. \A i \in 0 .. n : G[i] \in X
    BY <2>3 DEF T
  <2> QED
    BY <2>0, <2>4
<1> HIDE DEF G
<1>14. FlattenLoop(G, S, parts)
  BY <1>11, <1>12, <1>13 DEF FlattenLoop, n, X
<1> QED
  BY <1>14

LEMMA FlattenAppend ==
    ASSUME NEW S, NEW parts \in Seq(Seq(S)), NEW t \in Seq(S)
    PROVE  /\ FlattenSeq(<<>>) = <<>>
           /\ FlattenSeq(parts) \in Seq(S)
           /\ FlattenSeq(Append(parts, t)) = FlattenSeq(parts) \o t
<1> DEFINE n == Len(parts)
           X == Seq(S)
           more == Append(parts, t)
<1>1. n \in Nat /\ parts \in Seq(X) /\ t \in X
  BY LenProperties
<1>2. more \in Seq(X) /\ Len(more) = n + 1 /\ more[n + 1] = t
      /\ \A i \in 1 .. n : more[i] = parts[i]
  <2> HIDE DEF X
  <2> QED
    BY <1>1, AppendProperties
<1> HIDE DEF more
<1>g. PICK g : FlattenLoop(g, S, parts)
  BY FlattenRuns
<1>h. PICK h : FlattenLoop(h, S, more)
  BY <1>2, FlattenRuns
<1>3. /\ g[0] = <<>> /\ FlattenSeq(parts) = g[n] /\ g[n] \in X
      /\ \A i \in 1 .. n : g[i] = g[i - 1] \o parts[i]
  BY <1>1, <1>g DEF FlattenLoop
<1>4. /\ h[0] = <<>> /\ FlattenSeq(more) = h[n + 1]
      /\ \A i \in 1 .. n + 1 : h[i] = h[i - 1] \o more[i]
  BY <1>2, <1>h DEF FlattenLoop
<1> HIDE DEF n, X
<1>5. ASSUME NEW i \in 1 .. n, g[i - 1] = h[i - 1]
      PROVE  g[i] = h[i]
  <2>1. i \in 1 .. n + 1
    BY <1>1
  <2> QED
    BY <1>2, <1>3, <1>4, <1>5, <2>1
<1>6. g[n] = h[n]
  <2>1. g[0] = h[0] /\ \A i \in 1 .. n : g[i - 1] = h[i - 1] => g[i] = h[i]
    BY <1>3, <1>4, <1>5
  <2> QED
    BY <1>1, <2>1, SameRounds
<1>7. FlattenSeq(more) = FlattenSeq(parts) \o t
  <2>1. n + 1 \in 1 .. n + 1 /\ (n + 1) - 1 = n
    BY <1>1
  <2> QED
    BY <1>2, <1>3, <1>4, <1>6, <2>1
<1>8. FlattenSeq(<<>>) = <<>>
  BY DEF FlattenSeq
<1> QED
  BY <1>3, <1>7, <1>8 DEF more, X

\* A token that follows a separator.
NextToken(r, t) == [tokens |-> Append(r.tokens, r.token), token |-> t]

LEMMA ReadToken ==
    ASSUME NEW S, NEW text \in Seq(S), NEW sep \in S, NEW m, m = <<sep>>, NEW t \in Seq(S),
           \A k \in 1 .. Len(t) : t[k] # sep
    PROVE  /\ text \o (m \o t) \in Seq(S)
           /\ Read(text \o (m \o t), sep) = NextToken(Read(text, sep), t)
<1> DEFINE a == Append(text, sep)
<1>1. a = text \o <<sep>> /\ <<sep>> \in Seq(S) /\ a \in Seq(S)
  BY AppendIsConcat, AppendProperties
<1>2. text \o (m \o t) = a \o t
  BY <1>1, ConcatAssociative
<1>3. Read(a, sep) = [tokens |-> Append(Read(text, sep).tokens, Read(text, sep).token),
                      token  |-> <<>>]
  BY ReadAppend DEF ReadNext
<1> HIDE DEF a
<1>4. Read(a \o t, sep) = [tokens |-> Read(a, sep).tokens, token |-> Read(a, sep).token \o t]
  BY <1>1, ReadOn
<1>5. <<>> \o t = t
  BY ConcatEmptySeq
<1>6. Read(a, sep).tokens = Append(Read(text, sep).tokens, Read(text, sep).token)
      /\ Read(a, sep).token = <<>>
  BY <1>3
<1>7. a \o t \in Seq(S)
  BY <1>1, ConcatProperties
<1> QED
  BY <1>2, <1>4, <1>5, <1>6, <1>7 DEF NextToken

LEMMA ReadFirst ==
    ASSUME NEW S, NEW sep, NEW t \in Seq(S), \A k \in 1 .. Len(t) : t[k] # sep
    PROVE  Read(t, sep) = [tokens |-> <<>>, token |-> t]
<1> DEFINE e == <<>>
<1>1. e \in Seq(S) /\ e \o t = t
  BY EmptySeq, ConcatEmptySeq
<1>2. Read(e, sep).tokens = <<>> /\ Read(e, sep).token = <<>>
  <2>1. PICK g : ReadLoop(g, S, e, sep)
    BY <1>1, ReadRuns
  <2> QED
    BY <2>1 DEF ReadLoop, ReadStart
<1> HIDE DEF e
<1>3. Read(e \o t, sep) = [tokens |-> Read(e, sep).tokens, token |-> Read(e, sep).token \o t]
  BY <1>1, ReadOn
<1>4. <<>> \o t = t
  BY ConcatEmptySeq
<1> QED
  BY <1>1, <1>2, <1>3, <1>4

\* Tokens without the separator are read as they were written.
LEMMA ReadJoined ==
    ASSUME NEW S, "|" \in S, NEW tokens \in Seq(Seq(S)), tokens # <<>>,
           \A i \in 1 .. Len(tokens) : \A k \in 1 .. Len(tokens[i]) : tokens[i][k] # "|"
    PROVE  /\ Joined(tokens) \in Seq(S)
           /\ Read(Joined(tokens), "|") = [tokens |-> SubSeq(tokens, 1, Len(tokens) - 1),
                                           token  |-> tokens[Len(tokens)]]
<1> DEFINE n == Len(tokens)
           X == Seq(S)
           parts == [i \in DOMAIN tokens |-> IF i = 1 THEN tokens[i] ELSE <<"|">> \o tokens[i]]
           J == [i \in 0 .. n |-> FlattenSeq(SubSeq(parts, 1, i))]
           T == {i \in 0 .. n - 1 :
                   /\ J[i + 1] \in Seq(S)
                   /\ Read(J[i + 1], "|") = [tokens |-> SubSeq(tokens, 1, i),
                                             token  |-> tokens[i + 1]]}
<1>1. n \in Nat \ {0} /\ DOMAIN tokens = 1 .. n /\ \A i \in 1 .. n : tokens[i] \in X
  BY RangeSeq, ElementOfSeq, EmptySeq
<1>2. <<"|">> \in X
  OBVIOUS
<1>3. parts \in Seq(X) /\ Len(parts) = n
      /\ \A i \in 1 .. n : parts[i] = IF i = 1 THEN tokens[i] ELSE <<"|">> \o tokens[i]
  <2>1. ASSUME NEW i \in 1 .. n
        PROVE  (IF i = 1 THEN tokens[i] ELSE <<"|">> \o tokens[i]) \in X
    BY <1>1, <1>2, ConcatProperties
  <2> HIDE DEF X, n
  <2>2. parts \in [1 .. n -> X]
        /\ \A i \in 1 .. n : parts[i] = IF i = 1 THEN tokens[i] ELSE <<"|">> \o tokens[i]
    BY <1>1, <2>1
  <2> HIDE DEF parts
  <2> QED
    BY <1>1, <2>2, SeqDef, LenProperties
<1>4. Joined(tokens) = FlattenSeq(parts)
  BY DEF Joined
<1> HIDE DEF parts
<1>5. J[n] = Joined(tokens)
  <2>1. SubSeq(parts, 1, n) = parts
    BY <1>3, SubSeqFull
  <2> HIDE DEF n
  <2>2. J[n] = FlattenSeq(SubSeq(parts, 1, n))
    BY <1>1
  <2> HIDE DEF J
  <2> QED
    BY <1>4, <2>1, <2>2
<1>6. J[0] = <<>> /\ \A i \in 1 .. n : J[i] = J[i - 1] \o parts[i]
  <2>1. SubSeq(parts, 1, 0) = <<>>
    BY SubSeqEmpty
  <2>2. FlattenSeq(<<>>) = <<>>
    BY DEF FlattenSeq
  <2>3. J[0] = <<>>
    <3>1. J[0] = FlattenSeq(SubSeq(parts, 1, 0))
      BY <1>1
    <3> HIDE DEF J
    <3> QED
      BY <2>1, <2>2, <3>1
  <2>4. ASSUME NEW i \in 1 .. n
        PROVE  J[i] = J[i - 1] \o parts[i]
    <3> DEFINE p == SubSeq(parts, 1, i - 1)
               t == parts[i]
    <3>1. i \in 0 .. n /\ i - 1 \in 0 .. n
      BY <1>1
    <3>2. p \in Seq(X) /\ t \in X /\ SubSeq(parts, 1, i) = Append(p, t)
      <4> HIDE DEF X
      <4> QED
        BY <1>3, PrefixGrows
    <3>3. J[i - 1] = FlattenSeq(p) /\ J[i] = FlattenSeq(SubSeq(parts, 1, i))
      BY <3>1
    <3> HIDE DEF p, t, J
    <3>4. FlattenSeq(Append(p, t)) = FlattenSeq(p) \o t
      BY <3>2, FlattenAppend
    <3> QED
      BY <3>2, <3>3, <3>4 DEF t
  <2> QED
    BY <2>3, <2>4
<1> HIDE DEF J
<1>7. 0 \in T
  <2> DEFINE t == tokens[1]
             e == <<>>
  <2>1. 1 \in 1 .. n /\ 1 - 1 = 0 /\ 0 + 1 = 1 /\ 0 \in 0 .. n - 1
    BY <1>1
  <2>2. t \in Seq(S) /\ parts[1] = t /\ \A k \in 1 .. Len(t) : t[k] # "|"
    BY <1>1, <1>3, <2>1
  <2>3. e \o t = t
    BY <2>2, ConcatEmptySeq
  <2>4. J[1] = t
    BY <1>6, <2>1, <2>2, <2>3
  <2> HIDE DEF t
  <2>7. Read(t, "|") = [tokens |-> <<>>, token |-> t]
    BY <2>2, ReadFirst
  <2>8. SubSeq(tokens, 1, 0) = <<>>
    BY SubSeqEmpty
  <2> QED
    BY <2>1, <2>2, <2>4, <2>7, <2>8 DEF t
<1>8. ASSUME NEW i \in 1 .. n - 1, i - 1 \in T
      PROVE  i \in T
  <2> DEFINE text == J[i]
             t == tokens[i + 1]
  <2>1. i \in 0 .. n - 1 /\ i \in 1 .. n /\ i + 1 \in 1 .. n /\ (i - 1) + 1 = i
        /\ (i + 1) - 1 = i /\ i + 1 # 1
    BY <1>1
  <2>2. text \in Seq(S)
        /\ Read(text, "|") = [tokens |-> SubSeq(tokens, 1, i - 1), token |-> tokens[i]]
    BY <1>8, <2>1
  <2>3. J[i + 1] = text \o (<<"|">> \o t)
    BY <1>3, <1>6, <2>1
  <2>4. t \in Seq(S) /\ \A k \in 1 .. Len(t) : t[k] # "|"
    BY <1>1, <2>1
  <2>5. SubSeq(tokens, 1, i) = Append(SubSeq(tokens, 1, i - 1), tokens[i])
    BY <2>1, PrefixGrows
  <2> HIDE DEF text, t
  <2>6. J[i + 1] \in Seq(S) /\ Read(J[i + 1], "|") = NextToken(Read(text, "|"), t)
    <3> DEFINE bar == "|"
               m == <<bar>>
    <3>1. J[i + 1] = text \o (m \o t)
      BY <2>3
    <3>2. /\ m = <<bar>> /\ text \in Seq(S) /\ bar \in S /\ t \in Seq(S)
          /\ \A k \in 1 .. Len(t) : t[k] # bar
      BY <2>2, <2>4
    <3> HIDE DEF bar, m
    <3>3. /\ text \o (m \o t) \in Seq(S)
          /\ Read(text \o (m \o t), bar) = NextToken(Read(text, bar), t)
      BY <3>2, ReadToken
    <3> QED
      BY <3>1, <3>3 DEF bar
  <2>7. Read(text, "|").tokens = SubSeq(tokens, 1, i - 1) /\ Read(text, "|").token = tokens[i]
    BY <2>2
  <2> QED
    BY <2>1, <2>5, <2>6, <2>7 DEF t, NextToken
<1> HIDE DEF T
<1>9. 0 .. n - 1 \subseteq T
  <2> DEFINE m == n - 1
  <2>1. m \in Nat /\ 0 \in T /\ \A i \in 1 .. m : i - 1 \in T => i \in T
    BY <1>1, <1>7, <1>8
  <2> HIDE DEF m
  <2>2. 0 .. m \subseteq T
    BY <2>1, BoundedInduction
  <2> QED
    BY <2>2 DEF m
<1>10. n - 1 \in T /\ (n - 1) + 1 = n
  BY <1>1, <1>9
<1> QED
  BY <1>5, <1>10 DEF T

LEMMA SplitJoined ==
    ASSUME NEW S, "|" \in S, NEW tokens \in Seq(Seq(S)), tokens # <<>>,
           \A i \in 1 .. Len(tokens) : \A k \in 1 .. Len(tokens[i]) : tokens[i][k] # "|",
           tokens[Len(tokens)] # <<>>
    PROVE  Joined(tokens) \in Seq(S) /\ Split(Joined(tokens), "|") = tokens
<1> DEFINE n == Len(tokens)
           X == Seq(S)
<1>1. /\ Joined(tokens) \in Seq(S)
      /\ Read(Joined(tokens), "|") = [tokens |-> SubSeq(tokens, 1, n - 1), token |-> tokens[n]]
  BY ReadJoined
<1>2. Split(Joined(tokens), "|") = Append(SubSeq(tokens, 1, n - 1), tokens[n])
  <2> DEFINE r == Read(Joined(tokens), "|")
  <2>1. r.tokens = SubSeq(tokens, 1, n - 1) /\ r.token = tokens[n] /\ tokens[n] # <<>>
    BY <1>1
  <2>2. Split(Joined(tokens), "|")
          = IF r.token = <<>> THEN r.tokens ELSE Append(r.tokens, r.token)
    BY DEF Split
  <2> HIDE DEF r
  <2> QED
    BY <2>1, <2>2
<1>3. tokens \in Seq(X) /\ n \in 1 .. Len(tokens)
  BY LenProperties, EmptySeq
<1> HIDE DEF X
<1>4. SubSeq(tokens, 1, n) = Append(SubSeq(tokens, 1, n - 1), tokens[n])
  BY <1>3, PrefixGrows
<1>5. SubSeq(tokens, 1, n) = tokens
  BY <1>3, SubSeqFull
<1> QED
  BY <1>1, <1>2, <1>4, <1>5

Whole(line, sep) == \A k \in 1 .. Len(line) : line[k] # sep
LineRead(S, line, sep, before, after) ==
    /\ after.tokens \in Seq(Seq(S)) /\ after.token = <<>>
    /\ Range(before.tokens) \subseteq Range(after.tokens)
    /\ Whole(line, sep) => after.tokens = Append(before.tokens, line)

\* A line is one token, if it has no other end in it; the next begins behind it.
LEMMA ReadLine ==
    ASSUME NEW S, NEW text \in Seq(S), NEW line \in Seq(S), NEW sep \in S, NEW m, m = <<sep>>,
           Read(text, sep).token = <<>>
    PROVE  /\ text \o (line \o m) \in Seq(S)
           /\ LineRead(S, line, sep, Read(text, sep), Read(text \o (line \o m), sep))
<1> DEFINE u == text \o line
           a == Append(u, sep)
           before == Read(text, sep)
           r == Read(u, sep)
<1>1. u \in Seq(S) /\ m \in Seq(S)
  BY ConcatProperties
<1>2. text \o (line \o m) = u \o m
  BY <1>1, ConcatAssociative
<1>3. Range(before.tokens) \subseteq Range(r.tokens)
      /\ ((\A k \in 1 .. Len(line) : line[k] # sep) =>
            r = [tokens |-> before.tokens, token |-> before.token \o line])
  BY ReadOn
<1>4. <<>> \o line = line
  BY ConcatEmptySeq
<1> HIDE DEF u, before
<1>5. a = u \o m /\ a \in Seq(S)
  BY <1>1, AppendIsConcat, AppendProperties
<1>6. r \in Readings(S) /\ Read(a, sep) = ReadNext(r, sep, sep) /\ Read(a, sep) \in Readings(S)
  <2>1. r \in Readings(S) /\ Read(a, sep) = ReadNext(r, sep, sep)
    BY <1>1, ReadAppend
  <2>2. ReadNext(r, sep, sep) \in Readings(S)
    BY <2>1, ReadTypes
  <2> QED
    BY <2>1, <2>2
<1> HIDE DEF r, a
<1>7. Read(a, sep).tokens = Append(r.tokens, r.token) /\ Read(a, sep).token = <<>>
      /\ Read(a, sep).tokens \in Seq(Seq(S)) /\ r.tokens \in Seq(Seq(S)) /\ r.token \in Seq(S)
  BY <1>6 DEF ReadNext, Readings
<1>8. Range(before.tokens) \subseteq Range(Read(a, sep).tokens)
  <2> DEFINE ts == r.tokens
             t == r.token
             X == Seq(S)
  <2>1. ts \in Seq(X) /\ t \in X /\ Read(a, sep).tokens = Append(ts, t)
        /\ Range(before.tokens) \subseteq Range(ts)
    BY <1>3, <1>7
  <2> HIDE DEF ts, t, X
  <2>2. Range(Append(ts, t)) = Range(ts) \cup {t}
    BY <2>1, AppendRange
  <2> QED
    BY <2>1, <2>2
<1>9. ASSUME Whole(line, sep)
      PROVE  Read(a, sep).tokens = Append(before.tokens, line)
  <2>1. r.tokens = before.tokens /\ r.token = before.token \o line /\ before.token = <<>>
    BY <1>3, <1>9 DEF before, Whole
  <2> QED
    BY <1>4, <1>7, <2>1
<1>10. text \o (line \o m) = a
  BY <1>2, <1>5
<1> QED
  BY <1>5, <1>7, <1>8, <1>9, <1>10 DEF before, LineRead

\* Lines, each with its end.
Ended(lines, sep) == FlattenSeq([k \in DOMAIN lines |-> lines[k] \o <<sep>>])

LEMMA ReadEnded ==
    ASSUME NEW S, NEW sep \in S, NEW lines \in Seq(Seq(S))
    PROVE  LET r == Read(Ended(lines, sep), sep) IN
           /\ r.token = <<>> /\ r.tokens \in Seq(Seq(S))
           /\ \A k \in 1 .. Len(lines) : Whole(lines[k], sep) => lines[k] \in Range(r.tokens)
           /\ (\A k \in 1 .. Len(lines) : Whole(lines[k], sep)) => r.tokens = lines
<1> DEFINE n == Len(lines)
           X == Seq(S)
           m == <<sep>>
           parts == [k \in DOMAIN lines |-> lines[k] \o m]
           J == [i \in 0 .. n |-> FlattenSeq(SubSeq(parts, 1, i))]
           all == \A k \in 1 .. n : Whole(lines[k], sep)
           Good(i, r) ==
               /\ r.token = <<>> /\ r.tokens \in Seq(Seq(S))
               /\ \A k \in 1 .. i : Whole(lines[k], sep) => lines[k] \in Range(r.tokens)
               /\ all => r.tokens = SubSeq(lines, 1, i)
           T == {i \in 0 .. n : J[i] \in Seq(S) /\ Good(i, Read(J[i], sep))}
<1>1. n \in Nat /\ DOMAIN lines = 1 .. n /\ \A i \in 1 .. n : lines[i] \in X
  BY RangeSeq, ElementOfSeq
<1>2. m \in X /\ m = <<sep>> /\ \A i \in 1 .. n : lines[i] \o m \in X
  BY <1>1, ConcatProperties
<1>3. parts \in Seq(X) /\ Len(parts) = n /\ \A i \in 1 .. n : parts[i] = lines[i] \o m
  <2> HIDE DEF X, n, m
  <2>1. parts \in [1 .. n -> X] /\ \A i \in 1 .. n : parts[i] = lines[i] \o m
    BY <1>1, <1>2
  <2> HIDE DEF parts
  <2> QED
    BY <1>1, <2>1, SeqDef, LenProperties
<1>4. Ended(lines, sep) = FlattenSeq(parts)
  BY DEF Ended
<1> HIDE DEF parts, m
<1>5. J[n] = Ended(lines, sep)
  <2>1. SubSeq(parts, 1, n) = parts
    BY <1>3, SubSeqFull
  <2> HIDE DEF n
  <2>2. J[n] = FlattenSeq(SubSeq(parts, 1, n))
    BY <1>1
  <2> HIDE DEF J
  <2> QED
    BY <1>4, <2>1, <2>2
<1>6. J[0] = <<>> /\ \A i \in 1 .. n : J[i] = J[i - 1] \o (lines[i] \o m)
  <2>1. SubSeq(parts, 1, 0) = <<>> /\ FlattenSeq(<<>>) = <<>>
    BY SubSeqEmpty DEF FlattenSeq
  <2>2. J[0] = <<>>
    <3>1. J[0] = FlattenSeq(SubSeq(parts, 1, 0))
      BY <1>1
    <3> HIDE DEF J
    <3> QED
      BY <2>1, <3>1
  <2>3. ASSUME NEW i \in 1 .. n
        PROVE  J[i] = J[i - 1] \o (lines[i] \o m)
    <3> DEFINE p == SubSeq(parts, 1, i - 1)
               t == parts[i]
    <3>1. i \in 0 .. n /\ i - 1 \in 0 .. n
      BY <1>1
    <3>2. p \in Seq(X) /\ t \in X /\ SubSeq(parts, 1, i) = Append(p, t)
      <4> HIDE DEF X
      <4> QED
        BY <1>3, PrefixGrows
    <3>3. J[i - 1] = FlattenSeq(p) /\ J[i] = FlattenSeq(SubSeq(parts, 1, i))
      BY <3>1
    <3>4. t = lines[i] \o m
      BY <1>3
    <3> HIDE DEF p, t, J
    <3>5. FlattenSeq(Append(p, t)) = FlattenSeq(p) \o t
      BY <3>2, FlattenAppend
    <3> QED
      BY <3>2, <3>3, <3>4, <3>5
  <2> QED
    BY <2>2, <2>3
<1> HIDE DEF J
<1>7. 0 \in T
  <2>1. <<>> \in Seq(S) /\ <<>> \in Seq(Seq(S))
    BY EmptySeq
  <2>2. Read(<<>>, sep) = ReadStart
    BY <2>1, ReadAppend
  <2>3. Read(J[0], sep).token = <<>> /\ Read(J[0], sep).tokens = <<>>
    BY <1>6, <2>2 DEF ReadStart
  <2>4. SubSeq(lines, 1, 0) = <<>> /\ 1 .. 0 = {} /\ 0 \in 0 .. n
    BY <1>1, SubSeqEmpty
  <2>5. Good(0, Read(J[0], sep))
    BY <2>1, <2>3, <2>4
  <2> HIDE DEF Good
  <2> QED
    BY <1>6, <2>1, <2>4, <2>5
<1>8. ASSUME NEW i \in 1 .. n, i - 1 \in T
      PROVE  i \in T
  <2> DEFINE text == J[i - 1]
             line == lines[i]
             old == Read(text, sep)
             new == Read(J[i], sep)
  <2>1. i \in 0 .. n /\ i \in Nat /\ line \in Seq(S)
    BY <1>1
  <2>2. text \in Seq(S) /\ Good(i - 1, old)
    BY <1>8
  <2>3. J[i] = text \o (line \o m)
    BY <1>6
  <2>4. SubSeq(lines, 1, i) = Append(SubSeq(lines, 1, i - 1), line)
    BY PrefixGrows
  <2>5. \A k \in 1 .. i : k \in 1 .. i - 1 \/ k = i
    BY <2>1
  <2> HIDE DEF line, text
  <2>6. old.token = <<>> /\ old.tokens \in Seq(Seq(S))
        /\ (\A k \in 1 .. i - 1 : Whole(lines[k], sep) => lines[k] \in Range(old.tokens))
        /\ (all => old.tokens = SubSeq(lines, 1, i - 1))
    BY <2>2
  <2>7. /\ J[i] \in Seq(S)
        /\ new.tokens \in Seq(Seq(S)) /\ new.token = <<>>
        /\ Range(old.tokens) \subseteq Range(new.tokens)
        /\ Whole(line, sep) => new.tokens = Append(old.tokens, line)
    <3>1. text \in Seq(S) /\ line \in Seq(S) /\ m = <<sep>> /\ Read(text, sep).token = <<>>
      BY <1>2, <2>1, <2>2, <2>6
    <3> HIDE DEF Good
    <3>2. /\ text \o (line \o m) \in Seq(S)
          /\ LineRead(S, line, sep, Read(text, sep), Read(text \o (line \o m), sep))
      BY <3>1, ReadLine
    <3> QED
      BY <2>3, <3>2 DEF LineRead
  <2> HIDE DEF old, new
  <2>8. Whole(line, sep) => line \in Range(new.tokens)
    <3> DEFINE ts == old.tokens
    <3>1. ts \in Seq(X) /\ line \in X /\ (Whole(line, sep) => new.tokens = Append(ts, line))
      BY <2>1, <2>6, <2>7
    <3> HIDE DEF ts, X
    <3>2. Range(Append(ts, line)) = Range(ts) \cup {line}
      BY <3>1, AppendRange
    <3> QED
      BY <3>1, <3>2
  <2>9. ASSUME NEW k \in 1 .. i, Whole(lines[k], sep)
        PROVE  lines[k] \in Range(new.tokens)
    <3>1. CASE k = i
      BY <2>8, <2>9, <3>1 DEF line
    <3>2. CASE k # i
      BY <2>5, <2>6, <2>7, <2>9, <3>2
    <3> QED
      BY <3>1, <3>2
  <2>10. all => new.tokens = SubSeq(lines, 1, i)
    BY <2>4, <2>6, <2>7 DEF line
  <2>11. Good(i, new)
    BY <2>7, <2>9, <2>10
  <2> HIDE DEF Good
  <2> QED
    BY <2>1, <2>7, <2>11 DEF new
<1> HIDE DEF T
<1>9. 0 .. n \subseteq T
  BY <1>1, <1>7, <1>8, BoundedInduction
<1>10. n \in T
  BY <1>1, <1>9
<1>11. SubSeq(lines, 1, n) = lines
  BY SubSeqFull
<1>12. Good(n, Read(J[n], sep))
  BY <1>10 DEF T
<1> QED
  BY <1>5, <1>11, <1>12

LEMMA JoinedType ==
    ASSUME NEW S, "|" \in S, NEW tokens \in Seq(Seq(S))
    PROVE  Joined(tokens) \in Seq(S)
<1> DEFINE n == Len(tokens)
           X == Seq(S)
           bar == <<"|">>
           parts == [i \in DOMAIN tokens |-> IF i = 1 THEN tokens[i] ELSE bar \o tokens[i]]
<1>1. n \in Nat /\ DOMAIN tokens = 1 .. n /\ \A i \in 1 .. n : tokens[i] \in X
  BY RangeSeq, ElementOfSeq
<1>2. bar \in X
  OBVIOUS
<1>3. \A i \in 1 .. n : bar \o tokens[i] \in X
  BY <1>1, <1>2, ConcatProperties
<1>4. Joined(tokens) = FlattenSeq(parts)
  BY DEF Joined
<1>5. parts \in Seq(X)
  <2> HIDE DEF X, n, bar
  <2>1. parts \in [1 .. n -> X]
    BY <1>1, <1>3
  <2> HIDE DEF parts
  <2> QED
    BY <1>1, <2>1, SeqDef
<1> HIDE DEF parts
<1>6. PICK g : FlattenLoop(g, S, parts)
  BY <1>5, FlattenRuns
<1>7. Len(parts) \in Nat
  BY <1>5, LenProperties
<1> QED
  BY <1>4, <1>6, <1>7 DEF FlattenLoop

\* The end of a text.
LEMMA SubSeqEnd ==
    ASSUME NEW S, NEW u \in Seq(S), NEW c \in Seq(S)
    PROVE  SubSeq(u \o c, Len(u) + 1, Len(u \o c)) = c
<1> DEFINE t == u \o c
           m == Len(u) + 1
           n == Len(t)
           e == SubSeq(t, m, n)
<1>1. Len(u) \in Nat /\ Len(c) \in Nat
  BY LenProperties
<1>2. t \in Seq(S) /\ Len(t) = Len(u) + Len(c)
      /\ \A i \in 1 .. Len(u) + Len(c) : t[i] = IF i <= Len(u) THEN u[i] ELSE c[i - Len(u)]
  BY ConcatProperties
<1>3. m \in Int /\ n \in Int /\ n - m + 1 = Len(c)
  BY <1>1, <1>2
<1>4. \A i \in m .. n : t[i] \in S
  BY <1>1, <1>2, ElementOfSeq
<1>5. \A i \in 1 .. Len(c) : t[m + i - 1] = c[i]
  <2>1. ASSUME NEW i \in 1 .. Len(c)
        PROVE  t[m + i - 1] = c[i]
    <3> DEFINE j == m + i - 1
    <3>1. j \in 1 .. Len(u) + Len(c) /\ ~(j <= Len(u)) /\ j - Len(u) = i
      BY <1>1
    <3> HIDE DEF j, t
    <3>2. t[j] = c[j - Len(u)]
      BY <1>2, <3>1
    <3> QED
      BY <3>1, <3>2 DEF j
  <2> QED
    BY <2>1
<1> HIDE DEF t, m, n
<1>6. /\ e \in Seq(S)
      /\ Len(e) = IF m <= n THEN n - m + 1 ELSE 0
      /\ \A i \in 1 .. n - m + 1 : e[i] = t[m + i - 1]
  BY <1>3, <1>4, SubSeqProperties
<1>7. Len(e) = Len(c) /\ \A i \in 1 .. Len(c) : e[i] = c[i]
  BY <1>1, <1>3, <1>5, <1>6
<1> HIDE DEF e
<1>8. e = c
  BY <1>6, <1>7, SeqEqual
<1> QED
  BY <1>8 DEF e, t, m, n

\* Three tokens: what comes before the last one.
LEMMA ThreeJoined ==
    ASSUME NEW S, "|" \in S, NEW a \in Seq(S), NEW b \in Seq(S), NEW c \in Seq(S)
    PROVE  \E u \in Seq(S) : /\ Len(u) = Len(a) + Len(b) + 2
                             /\ Joined(<<a, b, c>>) = u \o c
<1> DEFINE bar == <<"|">>
           parts == <<a, bar \o b, bar \o c>>
           X == Seq(S)
<1>1. bar \in Seq(S) /\ Len(bar) = 1 /\ Len(a) \in Nat /\ Len(b) \in Nat
  BY LenProperties
<1>2. bar \o b \in Seq(S) /\ bar \o c \in Seq(S) /\ Len(bar \o b) = Len(b) + 1
  BY <1>1, ConcatProperties
<1>3. Joined(<<a, b, c>>) = FlattenSeq(parts)
  <2> DEFINE t == <<a, b, c>>
  <2>1. [i \in DOMAIN t |-> IF i = 1 THEN t[i] ELSE bar \o t[i]] = parts
    OBVIOUS
  <2>2. Joined(t) = FlattenSeq([i \in DOMAIN t |-> IF i = 1 THEN t[i] ELSE bar \o t[i]])
    BY DEF Joined
  <2> QED
    BY <2>1, <2>2
<1> HIDE DEF bar
<1>4. parts \in Seq(X) /\ Len(parts) = 3
      /\ parts[1] = a /\ parts[2] = bar \o b /\ parts[3] = bar \o c
  BY <1>2
<1> HIDE DEF parts
<1>5. PICK g : FlattenLoop(g, S, parts)
  BY <1>4, FlattenRuns
<1>6. g[0] = <<>> /\ g[3] = FlattenSeq(parts) /\ \A i \in 1 .. 3 : g[i] = g[i - 1] \o parts[i]
  BY <1>4, <1>5 DEF FlattenLoop
<1>7. g[1] = g[0] \o a /\ g[2] = g[1] \o (bar \o b) /\ g[3] = g[2] \o (bar \o c)
  <2>1. 1 \in 1 .. 3 /\ 2 \in 1 .. 3 /\ 3 \in 1 .. 3 /\ 1 - 1 = 0 /\ 2 - 1 = 1 /\ 3 - 1 = 2
    OBVIOUS
  <2>2. /\ g[1] = g[1 - 1] \o parts[1] /\ g[2] = g[2 - 1] \o parts[2]
        /\ g[3] = g[3 - 1] \o parts[3]
    BY <1>6, <2>1
  <2> QED
    BY <1>4, <2>1, <2>2
<1>8. g[1] = a
  BY <1>6, <1>7, ConcatEmptySeq
<1> DEFINE w == bar \o b
           v == a \o w
           u == v \o bar
<1>9. g[2] = v /\ w \in Seq(S) /\ Len(w) = Len(b) + 1
  BY <1>2, <1>7, <1>8
<1> HIDE DEF w
<1>10. v \in Seq(S) /\ Len(v) = Len(a) + Len(w)
  <2>1. w \in Seq(S)
    BY <1>9
  <2> QED
    BY <2>1, ConcatProperties
<1> HIDE DEF v
<1>11. u \in Seq(S) /\ Len(u) = Len(v) + Len(bar)
  <2>1. v \in Seq(S) /\ bar \in Seq(S)
    BY <1>1, <1>10
  <2> QED
    BY <2>1, ConcatProperties
<1>12. v \o (bar \o c) = u \o c
  <2>1. v \in Seq(S) /\ bar \in Seq(S) /\ c \in Seq(S)
    BY <1>1, <1>10
  <2> HIDE DEF bar
  <2>2. (v \o bar) \o c = v \o (bar \o c)
    BY <2>1, ConcatAssociative, SMTT(30)
  <2> QED
    BY <2>2
<1> HIDE DEF u
<1>13. Len(u) = Len(a) + Len(b) + 2
  BY <1>1, <1>9, <1>10, <1>11
<1>14. Joined(<<a, b, c>>) = u \o c
  BY <1>3, <1>6, <1>7, <1>9, <1>12
<1> QED
  BY <1>11, <1>13, <1>14

\* A number is one symbol, which is read as that number.
LEMMA NumberRead ==
    ASSUME NEW n \in 0 .. Len(Digits) - 1
    PROVE  /\ Number(n) \in Texts /\ Number(n) # <<>> /\ Len(Number(n)) = 1
           /\ Number(n)[1] \in Symbols \ Separators
           /\ IsNumber(Number(n)) /\ NumberOf(Number(n)) = n
<1> DEFINE d == Digits[n + 1]
<1>1. Len(Digits) \in Nat /\ DOMAIN Digits = 1 .. Len(Digits)
      /\ \A i \in 1 .. Len(Digits) : Digits[i] \in Symbols
  BY PeerTextAssumption, LenProperties, ElementOfSeq DEF Texts
<1>2. n + 1 \in 1 .. Len(Digits) /\ d \in Symbols /\ d \notin Separators
  BY <1>1, PeerTextAssumption
<1>3. \A i \in DOMAIN Digits : Digits[i] = d => i = n + 1
  BY <1>1, <1>2, PeerTextAssumption
<1> HIDE DEF d
<1>4. Number(n) = <<d>>
  BY DEF Number, d
<1>5. <<d>> \in Texts /\ Len(<<d>>) = 1 /\ <<d>>[1] = d /\ <<d>> # <<>>
  <2>1. <<d>> \in Seq(Symbols) /\ Len(<<d>>) = 1 /\ <<d>>[1] = d
    <3> DEFINE A == Symbols
    <3>1. d \in A
      BY <1>2
    <3> HIDE DEF A
    <3>2. <<d>> \in Seq(A) /\ Len(<<d>>) = 1 /\ <<d>>[1] = d
      BY <3>1
    <3> QED
      BY <3>2 DEF A
  <2>2. <<d>> # <<>>
    OBVIOUS
  <2> QED
    BY <2>1, <2>2 DEF Texts
<1>6. IsNumber(Number(n))
  BY <1>2, <1>4, <1>5 DEF IsNumber, Contains, d
<1>7. (CHOOSE i \in DOMAIN Digits : Digits[i] = d) = n + 1
  <2> DEFINE c == CHOOSE i \in DOMAIN Digits : Digits[i] = d
  <2>1. c \in DOMAIN Digits /\ Digits[c] = d
    BY <1>1, <1>2 DEF d
  <2> HIDE DEF c
  <2>2. c = n + 1
    BY <1>3, <2>1
  <2> QED
    BY <2>2 DEF c
<1>8. NumberOf(Number(n)) = (n + 1) - 1
  BY <1>4, <1>5, <1>7 DEF NumberOf
<1>9. (n + 1) - 1 = n
  BY <1>1
<1>10. Number(n)[1] \in Symbols \ Separators
  BY <1>2, <1>4, <1>5
<1> QED
  BY <1>4, <1>5, <1>6, <1>8, <1>9, <1>10

LEMMA SeqOver ==
    ASSUME NEW S, NEW t \in Seq(S), NEW N, \A k \in 1 .. Len(t) : t[k] \in N
    PROVE  t \in Seq(N)
<1>1. Len(t) \in Nat /\ t = [k \in 1 .. Len(t) |-> t[k]]
  BY LenProperties
<1> DEFINE n == Len(t)
<1>2. t \in [1 .. n -> N]
  BY <1>1
<1> QED
  BY <1>1, <1>2, SeqDef

\* A text in which nothing is a separator.
PlainText(t) == t \in Texts /\ \A k \in 1 .. Len(t) : t[k] \notin Separators

LEMMA PlainFile ==
    ASSUME NEW f \in Entries
    PROVE  /\ f.name \in Texts /\ f.hash \in Texts /\ f.size \in 0 .. Len(Digits) - 1
           /\ f = [name |-> f.name, size |-> f.size, hash |-> f.hash]
           /\ PlainText(Number(f.size)) /\ Number(f.size) # <<>>
           /\ IsPlain(f) => /\ PlainText(f.name) /\ f.name # <<>>
                            /\ PlainText(f.hash) /\ f.hash # <<>>
<1>1. f \in [name : Texts, size : 0 .. Len(Digits) - 1, hash : Texts]
  BY PeerListsAssumption
<1>2. /\ f.name \in Texts /\ f.hash \in Texts /\ f.size \in 0 .. Len(Digits) - 1
      /\ f = [name |-> f.name, size |-> f.size, hash |-> f.hash]
  BY <1>1
<1>3. PlainText(Number(f.size)) /\ Number(f.size) # <<>>
  <2> DEFINE t == Number(f.size)
  <2>1. t \in Texts /\ t # <<>> /\ Len(t) = 1 /\ t[1] \notin Separators
    BY <1>2, NumberRead
  <2> HIDE DEF t
  <2>2. \A k \in 1 .. Len(t) : k = 1
    BY <2>1
  <2>3. PlainText(t) /\ t # <<>>
    BY <2>1, <2>2 DEF PlainText
  <2> QED
    BY <2>3 DEF t
<1>4. \A t \in Texts : DOMAIN t = 1 .. Len(t)
  BY LenProperties DEF Texts
<1>5. IsPlain(f) => PlainText(f.name) /\ f.name # <<>> /\ PlainText(f.hash) /\ f.hash # <<>>
  BY <1>2, <1>4 DEF IsPlain, PlainText
<1> QED
  BY <1>2, <1>3, <1>5

\* Tokens in which nothing is a separator make one line.
LEMMA PlainLine ==
    ASSUME NEW tokens \in Seq(Texts), \A i \in 1 .. Len(tokens) : PlainText(tokens[i])
    PROVE  Joined(tokens) \in Texts /\ Whole(Joined(tokens), "\n")
<1> DEFINE N == Symbols \ {"\n"}
           X == Seq(N)
           line == Joined(tokens)
<1>1. "|" \in N
  BY PeerTextAssumption DEF Separators
<1>2. ASSUME NEW i \in 1 .. Len(tokens)
      PROVE  tokens[i] \in X
  <2> DEFINE t == tokens[i]
             A == Symbols
  <2>1. t \in Seq(A) /\ \A k \in 1 .. Len(t) : t[k] \notin Separators
    BY DEF PlainText, Texts
  <2>2. \A k \in 1 .. Len(t) : t[k] \in A
    <3> HIDE DEF t, A
    <3> QED
      BY <2>1, ElementOfSeq
  <2>3. \A k \in 1 .. Len(t) : t[k] \in N
    BY <2>1, <2>2 DEF Separators
  <2> HIDE DEF t, A, N
  <2>4. t \in Seq(N)
    BY <2>1, <2>3, SeqOver
  <2> QED
    BY <2>4 DEF t
<1>3. tokens \in Seq(X)
  <2> HIDE DEF X
  <2> QED
    BY <1>2, SeqOver
<1>4. "\n" \notin N /\ \A x \in N : x \in Symbols
  OBVIOUS
<1> HIDE DEF N
<1>5. line \in Seq(N)
  BY <1>1, <1>3, JoinedType
<1> HIDE DEF line
<1>6. \A k \in 1 .. Len(line) : line[k] \in N
  BY <1>5, ElementOfSeq
<1>7. Whole(line, "\n")
  BY <1>4, <1>6 DEF Whole
<1>8. line \in Texts
  <2> DEFINE A == Symbols
  <2>1. \A k \in 1 .. Len(line) : line[k] \in A
    BY <1>4, <1>6
  <2> HIDE DEF A
  <2>2. line \in Seq(A)
    BY <1>5, <2>1, SeqOver
  <2> QED
    BY <2>2 DEF A, Texts
<1> QED
  BY <1>7, <1>8 DEF line

\* A text of lines that are not empty is read as these lines; other lines do
\* not keep them from being read.
Arrives(line, lines) == Whole(line, "\n") /\ line # <<>> => line \in Range(lines)
AllArrive(sent, lines) ==
    (\A k \in 1 .. Len(sent) : Whole(sent[k], "\n") /\ sent[k] # <<>>) => lines = sent

LEMMA LinesEnded ==
    ASSUME NEW sent \in Seq(Texts)
    PROVE  /\ Lines(Ended(sent, "\n")) \in Seq(Texts)
           /\ \A k \in 1 .. Len(sent) : Arrives(sent[k], Lines(Ended(sent, "\n")))
           /\ AllArrive(sent, Lines(Ended(sent, "\n")))
<1> DEFINE sep == "\n"
           text == Ended(sent, sep)
           r == Read(text, sep)
           tokens == Split(text, sep)
           W == {i \in DOMAIN tokens : tokens[i] # <<>>}
           lines == Picked(tokens, W)
           X == Seq(Symbols)
<1>1. sep \in Symbols /\ sent \in Seq(Seq(Symbols)) /\ sent \in Seq(X)
  BY PeerTextAssumption DEF Separators, Texts
<1>2. Lines(text) = lines
  BY DEF Lines
<1>3. tokens = IF r.token = <<>> THEN r.tokens ELSE Append(r.tokens, r.token)
  BY DEF Split
<1> HIDE DEF sep
<1>4. /\ r.token = <<>> /\ r.tokens \in Seq(Seq(Symbols))
      /\ \A k \in 1 .. Len(sent) : Whole(sent[k], sep) => sent[k] \in Range(r.tokens)
      /\ (\A k \in 1 .. Len(sent) : Whole(sent[k], sep)) => r.tokens = sent
  BY <1>1, ReadEnded
<1> HIDE DEF text, r
<1>5. tokens = r.tokens
  BY <1>3, <1>4
<1> HIDE DEF tokens
<1>6. tokens \in Seq(X)
  BY <1>4, <1>5
<1> HIDE DEF X
<1>7. /\ Len(tokens) \in Nat /\ DOMAIN tokens = 1 .. Len(tokens)
      /\ Range(tokens) = {tokens[i] : i \in 1 .. Len(tokens)}
  BY <1>6, RangeSeq
<1>8. W = {i \in 1 .. Len(tokens) : tokens[i] # <<>>}
  BY <1>7
<1> HIDE DEF W
<1>9. /\ lines \in Seq(X)
      /\ Range(lines) = {tokens[i] : i \in {k \in 1 .. Len(tokens) : k \in W}}
  BY <1>6, PickedList
<1>10. 1 .. Len(tokens) \subseteq W => lines = tokens
  BY <1>6, PickedAll
<1> HIDE DEF lines
<1>11. ASSUME NEW k \in 1 .. Len(sent), Whole(sent[k], sep), sent[k] # <<>>
       PROVE  sent[k] \in Range(lines)
  <2>1. PICK i \in 1 .. Len(tokens) : tokens[i] = sent[k]
    BY <1>4, <1>5, <1>7, <1>11
  <2> QED
    BY <1>8, <1>9, <1>11, <2>1
<1>12. ASSUME \A k \in 1 .. Len(sent) : Whole(sent[k], sep) /\ sent[k] # <<>>
       PROVE  lines = sent
  <2>1. tokens = sent
    BY <1>4, <1>5, <1>12
  <2> QED
    BY <1>8, <1>10, <1>12, <2>1
<1>13. \A k \in 1 .. Len(sent) : Arrives(sent[k], lines)
  BY <1>11 DEF Arrives, sep
<1>14. AllArrive(sent, lines)
  BY <1>12 DEF AllArrive, sep
<1> QED
  BY <1>2, <1>9, <1>13, <1>14 DEF text, sep, X, Texts

\* The line of a file is read as that file.
LEMMA FileLine ==
    ASSUME NEW f \in Entries
    PROVE  /\ Joined(FileTokens(f)) \in Texts
           /\ IsPlain(f) => /\ Whole(Joined(FileTokens(f)), "\n")
                            /\ Joined(FileTokens(f)) # <<>>
                            /\ IsFile(Joined(FileTokens(f)))
                            /\ FileIn(Joined(FileTokens(f))) = f
<1> DEFINE a == f.name
           b == Number(f.size)
           c == f.hash
           tokens == <<a, b, c>>
           line == Joined(tokens)
           A == Symbols
           X == Seq(A)
<1>1. /\ a \in X /\ b \in X /\ c \in X /\ f.size \in 0 .. Len(Digits) - 1
      /\ f = [name |-> a, size |-> f.size, hash |-> c]
      /\ PlainText(b) /\ b # <<>>
  BY PlainFile DEF PlainText, Texts
<1>2. FileTokens(f) = tokens
  BY DEF FileTokens
<1>3. "|" \in A
  BY PeerTextAssumption DEF Separators
<1>4. IsNumber(b) /\ NumberOf(b) = f.size
  BY <1>1, NumberRead
<1> HIDE DEF a, b, c, A
<1>5. /\ tokens \in Seq(X) /\ Len(tokens) = 3 /\ tokens # <<>>
      /\ tokens[1] = a /\ tokens[2] = b /\ tokens[3] = c
  <2> HIDE DEF X
  <2> QED
    BY <1>1
<1>6. \A i \in 1 .. 3 : i = 1 \/ i = 2 \/ i = 3
  OBVIOUS
<1>7. PICK u \in X : Len(u) = Len(a) + Len(b) + 2 /\ line = u \o c
  BY <1>1, <1>3, ThreeJoined
<1>8. line \in X
  <2> HIDE DEF tokens
  <2> QED
    BY <1>3, <1>5, JoinedType
<1> HIDE DEF line, tokens
<1>9. ASSUME IsPlain(f)
      PROVE  Whole(line, "\n") /\ line # <<>> /\ IsFile(line) /\ FileIn(line) = f
  <2>1. PlainText(a) /\ PlainText(c) /\ c # <<>>
    BY <1>9, PlainFile DEF a, c
  <2>2. \A i \in 1 .. Len(tokens) : PlainText(tokens[i])
    BY <1>1, <1>5, <1>6, <2>1
  <2>3. Whole(line, "\n")
    BY <1>5, <2>2, PlainLine DEF A, Texts, line
  <2>4. \A i \in 1 .. Len(tokens) : \A k \in 1 .. Len(tokens[i]) : tokens[i][k] # "|"
    BY <2>2 DEF PlainText, Separators
  <2>5. tokens[Len(tokens)] # <<>>
    BY <1>5, <2>1
  <2>6. Split(line, "|") = tokens
    BY <1>3, <1>5, <2>4, <2>5, SplitJoined DEF line
  <2>7. IsFile(line)
    <3>1. Len(tokens) >= 3 /\ IsNumber(tokens[2])
      BY <1>4, <1>5
    <3>2. IsFile(line) = (Len(tokens) >= 3 /\ IsNumber(tokens[2]))
      BY <2>6 DEF IsFile
    <3> QED
      BY <3>1, <3>2
  <2>8. Len(a) \in Nat /\ Len(b) \in Nat /\ Len(u) \in Nat /\ Len(c) \in Nat /\ Len(c) # 0
    BY <1>1, <2>1, LenProperties, EmptySeq
  <2>9. Len(line) = Len(u) + Len(c)
    BY <1>1, <1>7, ConcatProperties
  <2>10. line # <<>>
    <3>1. Len(line) # 0
      BY <2>8, <2>9
    <3> QED
      BY <3>1
  <2>11. SubSeq(line, Len(u) + 1, Len(line)) = c
    <3>1. SubSeq(u \o c, Len(u) + 1, Len(u \o c)) = c
      BY <1>1, SubSeqEnd
    <3> QED
      BY <1>7, <3>1
  <2>12. Len(a) + Len(b) + 3 = Len(u) + 1
    BY <1>7, <2>8
  <2>13. FileIn(line) = [name |-> a, size |-> f.size, hash |-> c]
    <3> DEFINE h == SubSeq(line, Len(a) + Len(b) + 3, Len(line))
    <3>1. h = c
      BY <2>11, <2>12
    <3>2. FileIn(line) = [name |-> a, size |-> NumberOf(b), hash |-> h]
      BY <1>5, <2>6 DEF FileIn
    <3> HIDE DEF h
    <3> QED
      BY <1>4, <3>1, <3>2
  <2> QED
    BY <1>1, <2>3, <2>7, <2>10, <2>13
<1> QED
  BY <1>2, <1>8, <1>9 DEF A, Texts, line

-----------------------------------------------------------------------------
(* The file list of a node *)

LEMMA FilesArrive ==
    ASSUME NEW list \in Seq(Entries)
    PROVE  /\ \A k \in DOMAIN list :
                IsPlain(list[k]) => Contains(FilesOf(handleFileListRequest(list)), list[k])
           /\ (\A k \in DOMAIN list : IsPlain(list[k]))
                => FilesOf(handleFileListRequest(list)) = list
<1> DEFINE n == Len(list)
           L(k) == Joined(FileTokens(list[k]))
           sent == [k \in 1 .. n |-> L(k)]
           text == Ended(sent, "\n")
           lines == Lines(text)
           W == {i \in DOMAIN lines : IsFile(lines[i])}
           good == Picked(lines, W)
           files1 == [i \in DOMAIN good |-> FileIn(good[i])]
<1>1. n \in Nat /\ DOMAIN list = 1 .. n /\ \A k \in 1 .. n : list[k] \in Entries
  BY RangeSeq, ElementOfSeq
<1>2. ASSUME NEW k \in 1 .. n
      PROVE  /\ L(k) \in Texts
             /\ IsPlain(list[k]) => /\ Whole(L(k), "\n") /\ L(k) # <<>>
                                    /\ IsFile(L(k)) /\ FileIn(L(k)) = list[k]
  <2> DEFINE f == list[k]
  <2>1. f \in Entries
    BY <1>1
  <2> HIDE DEF f
  <2>2. /\ Joined(FileTokens(f)) \in Texts
        /\ IsPlain(f) => /\ Whole(Joined(FileTokens(f)), "\n")
                         /\ Joined(FileTokens(f)) # <<>>
                         /\ IsFile(Joined(FileTokens(f)))
                         /\ FileIn(Joined(FileTokens(f))) = f
    BY <2>1, FileLine
  <2> QED
    BY <2>2 DEF f
<1>3. handleFileListRequest(list) = text
  <2>1. handleFileListRequest(list) = FlattenSeq([i \in 1 .. n |-> L(i) \o <<"\n">>])
    BY <1>1 DEF handleFileListRequest
  <2> HIDE DEF L
  <2>2. DOMAIN sent = 1 .. n /\ \A i \in 1 .. n : sent[i] = L(i)
    OBVIOUS
  <2> DEFINE m == <<"\n">>
  <2> HIDE DEF m, sent
  <2>3. [i \in 1 .. n |-> L(i) \o m] = [i \in DOMAIN sent |-> sent[i] \o m]
    BY <2>2
  <2>4. text = FlattenSeq([i \in DOMAIN sent |-> sent[i] \o m])
    BY DEF Ended, m
  <2> HIDE DEF text
  <2> QED
    BY <2>1, <2>3, <2>4 DEF m
<1>4. FilesOf(text) = files1
  BY DEF FilesOf
<1> HIDE DEF L
<1>5. sent \in Seq(Texts) /\ Len(sent) = n /\ \A k \in 1 .. n : sent[k] = L(k)
  <2>1. sent \in [1 .. n -> Texts] /\ \A k \in 1 .. n : sent[k] = L(k)
    BY <1>2
  <2> HIDE DEF sent, n
  <2> QED
    BY <1>1, <2>1, SeqDef, LenProperties
<1> HIDE DEF sent
<1>6. /\ lines \in Seq(Texts)
      /\ \A k \in 1 .. Len(sent) : Arrives(sent[k], lines)
      /\ AllArrive(sent, lines)
  BY <1>5, LinesEnded
<1> HIDE DEF text, lines
<1>7. /\ Len(lines) \in Nat /\ DOMAIN lines = 1 .. Len(lines)
      /\ Range(lines) = {lines[i] : i \in 1 .. Len(lines)}
  BY <1>6, RangeSeq
<1>8. W = {i \in 1 .. Len(lines) : IsFile(lines[i])}
  BY <1>7
<1> HIDE DEF W
<1>9. /\ good \in Seq(Texts)
      /\ Range(good) = {lines[i] : i \in {k \in 1 .. Len(lines) : k \in W}}
  BY <1>6, PickedList
<1>10. 1 .. Len(lines) \subseteq W => good = lines
  BY <1>6, PickedAll
<1> HIDE DEF good
<1>11. /\ Len(good) \in Nat /\ DOMAIN good = 1 .. Len(good)
       /\ Range(good) = {good[i] : i \in 1 .. Len(good)}
  BY <1>9, RangeSeq
<1>12. ASSUME NEW k \in 1 .. n, IsPlain(list[k])
       PROVE  Contains(files1, list[k])
  <2>1. L(k) \in Range(lines) /\ IsFile(L(k)) /\ FileIn(L(k)) = list[k]
    BY <1>2, <1>5, <1>6, <1>12 DEF Arrives
  <2>2. PICK i \in 1 .. Len(lines) : lines[i] = L(k)
    BY <1>7, <2>1
  <2>3. L(k) \in Range(good)
    BY <1>8, <1>9, <2>1, <2>2
  <2>4. PICK j \in 1 .. Len(good) : good[j] = L(k)
    BY <1>11, <2>3
  <2>5. j \in DOMAIN files1 /\ files1[j] = list[k]
    BY <1>11, <2>1, <2>4
  <2>6. DOMAIN files1 = 1 .. Len(good) /\ Len(files1) = Len(good)
    BY <1>11
  <2> HIDE DEF files1
  <2> QED
    BY <2>5, <2>6 DEF Contains
<1>13. ASSUME \A k \in 1 .. n : IsPlain(list[k])
       PROVE  files1 = list
  <2>1. lines = sent
    BY <1>2, <1>5, <1>6, <1>13 DEF AllArrive
  <2>2. \A k \in 1 .. n : IsFile(lines[k]) /\ FileIn(lines[k]) = list[k]
    BY <1>2, <1>5, <1>13, <2>1
  <2>3. good = lines
    BY <1>5, <1>8, <1>10, <2>1, <2>2
  <2>4. DOMAIN good = 1 .. n /\ \A k \in 1 .. n : FileIn(good[k]) = list[k]
    BY <1>5, <1>11, <2>1, <2>2, <2>3
  <2>5. files1 = [k \in 1 .. n |-> list[k]]
    BY <2>4
  <2>6. list = [k \in 1 .. n |-> list[k]]
    BY <1>1
  <2> QED
    BY <2>5, <2>6
<1> HIDE DEF files1
<1> QED
  BY <1>1, <1>3, <1>4, <1>12, <1>13

\* What requestFileList makes of the answer of handleFileListRequest: a file
\* whose name and hash have no separators arrives as it is, whatever else is
\* in the list, and when all are like this exactly these arrive.
THEOREM FilesCorrect == Spec => []FilesSurvive
<1>1. Init => FilesSurvive
  BY DEF Init, FilesSurvive
<1>2. FilesSurvive /\ [Next]_vars => FilesSurvive'
  <2> SUFFICES ASSUME FilesSurvive, [Next]_vars
               PROVE  FilesSurvive'
    OBVIOUS
  <2>1. ASSUME UNCHANGED answerVars PROVE FilesSurvive'
    BY <2>1 DEF answerVars, FilesSurvive
  <2>2. ASSUME NEW list \in FileLists \cup {<<>>}, ReceiveFiles(list)
        PROVE  FilesSurvive'
    <3>1. list \in Seq(Entries)
      BY PeerListsAssumption, EmptySeq
    <3>2. served' = list /\ got' = FilesOf(handleFileListRequest(list))
      BY <2>2 DEF ReceiveFiles
    <3> QED
      BY <3>1, <3>2, FilesArrive DEF FilesSurvive
  <2>3. ASSUME stage' \in {"writing", "peers"} PROVE FilesSurvive'
    BY <2>3 DEF FilesSurvive
  <2>4. CASE UNCHANGED vars
    BY <2>1, <2>4 DEF vars
  <2>5. ASSUME NEW o \in Objs, NEW list \in FileLists, AddPeer(o, list)
        PROVE  FilesSurvive'
    BY <2>1, <2>5 DEF AddPeer
  <2>6. ASSUME NEW o \in Objs, RemovePeer(o) PROVE FilesSurvive'
    BY <2>1, <2>6 DEF RemovePeer
  <2>7. ASSUME NEW u \in Updaters, NEW o \in Objs, NEW list \in FileLists,
               UpdateStarts(u, o, list)
        PROVE  FilesSurvive'
    BY <2>1, <2>7 DEF UpdateStarts
  <2>8. ASSUME NEW u \in Updaters, RemoveNext(u) \/ AddNext(u) \/ UpdateEnds(u)
        PROVE  FilesSurvive'
    BY <2>1, <2>8 DEF RemoveNext, AddNext, UpdateEnds
  <2>9. CASE AnswerStarts
    BY <2>3, <2>9 DEF AnswerStarts
  <2>10. CASE WritePeer
    BY <2>3, <2>10 DEF WritePeer
  <2>11. CASE ReceivePeers
    BY <2>3, <2>11 DEF ReceivePeers
  <2> QED
    BY <2>2, <2>4, <2>5, <2>6, <2>7, <2>8, <2>9, <2>10, <2>11 DEF Next
<1> QED
  BY <1>1, <1>2, PTL DEF Spec

-----------------------------------------------------------------------------
(* The peer list *)

\* A list without a name twice is what its loop of addFile makes.
LEMMA AddFilesOnce ==
    ASSUME NEW S, NEW list \in Seq(S), Once(list)
    PROVE  addFiles(<<>>, list) = list
<1> DEFINE n == Len(list)
           h == [i \in 0 .. n |-> SubSeq(list, 1, i)]
<1>1. n \in Nat /\ <<>> \in Seq(S) /\ \A i \in 1 .. n : list[i] \in S
  BY LenProperties, EmptySeq, ElementOfSeq
<1>2. PICK g : AddLoop(g, S, <<>>, list)
  BY <1>1, AddFilesRuns
<1>3. /\ g[0] = <<>> /\ addFiles(<<>>, list) = g[n]
      /\ \A i \in 1 .. n : g[i] = addFile(g[i - 1], list[i])
  BY <1>2 DEF AddLoop
<1>4. h[0] = <<>> /\ h[n] = list
  <2>1. SubSeq(list, 1, 0) = <<>> /\ SubSeq(list, 1, n) = list
    BY SubSeqEmpty, SubSeqFull
  <2> QED
    BY <1>1, <2>1
<1>5. ASSUME NEW i \in 1 .. n
      PROVE  h[i] = addFile(h[i - 1], list[i])
  <2> DEFINE p == SubSeq(list, 1, i - 1)
             f == list[i]
             k == Named(p, f.name)
  <2>1. i \in 0 .. n /\ i - 1 \in 0 .. n
    BY <1>1
  <2>2. p \in Seq(S) /\ SubSeq(list, 1, i) = Append(p, f)
    BY PrefixGrows
  <2>3. Len(p) = i - 1 /\ \A j \in 1 .. i - 1 : p[j] = list[j]
    BY <1>1, <2>1
  <2>4. h[i] = SubSeq(list, 1, i) /\ h[i - 1] = p
    BY <2>1
  <2>5. \A j \in 1 .. Len(p) : p[j].name # f.name
    <3> SUFFICES ASSUME NEW j \in 1 .. Len(p), p[j].name = f.name
                 PROVE  FALSE
      OBVIOUS
    <3>1. j \in 1 .. n /\ j # i /\ list[j].name = list[i].name
      BY <1>1, <2>3
    <3> QED
      BY <3>1 DEF Once
  <2> HIDE DEF p, f, h, n
  <2>6. /\ k \in 0 .. Len(p)
        /\ k # 0 => p[k].name = f.name
    BY <2>2, NamedFinds
  <2>7. k = 0
    <3>1. Len(p) \in Nat
      BY <2>2, LenProperties
    <3> QED
      BY <2>5, <2>6, <3>1
  <2>8. addFile(p, f) = Append(p, f)
    BY <2>7 DEF addFile
  <2> QED
    BY <2>2, <2>4, <2>8 DEF f
<1> HIDE DEF n, h
<1>6. g[0] = h[0] /\ \A i \in 1 .. n : g[i - 1] = h[i - 1] => g[i] = h[i]
  BY <1>3, <1>4, <1>5
<1>7. g[n] = h[n]
  BY <1>1, <1>6, SameRounds
<1> QED
  BY <1>3, <1>4, <1>7

\* There is a digit for the length of such a list.
LEMMA ListLength ==
    ASSUME NEW list \in Seq(Entries), Once(list)
    PROVE  Len(list) \in 0 .. Len(Digits) - 1
<1> DEFINE n == Len(list)
           All == UNION {Names(l) : l \in FileLists}
           I == 1 .. n
           g == [i \in I |-> list[i].name]
<1>1. n \in Nat /\ \A i \in I : list[i] \in Entries
  BY LenProperties, ElementOfSeq
<1>2. IsFiniteSet(All) /\ Cardinality(All) < Len(Digits) /\ Len(Digits) \in Nat
  BY PeerListsAssumption, PeerTextAssumption, LenProperties DEF Texts
<1>3. \A f \in Entries : f.name \in All
  BY DEF Entries, Names
<1> HIDE DEF All
<1>4. g \in [I -> All] /\ \A i, j \in I : g[i] = g[j] => i = j
  BY <1>1, <1>3 DEF Once
<1> HIDE DEF g, I
<1>5. g \in Injection(I, All)
  BY <1>4 DEF Injection, IsInjective
<1>6. Cardinality(I) <= Cardinality(All)
  BY <1>2, <1>5, FS_Injection
<1>7. Cardinality(I) = n
  <2> DEFINE a == 1
  <2>1. a \in Int /\ n \in Int
    BY <1>1
  <2> HIDE DEF a, n
  <2>2. Cardinality(a .. n) = IF a > n THEN 0 ELSE n - a + 1
    BY <2>1, FS_Interval
  <2> QED
    BY <1>1, <2>2 DEF I, a
<1>8. Cardinality(All) \in Nat
  BY <1>2, FS_CardinalityType
<1> QED
  BY <1>1, <1>2, <1>6, <1>7, <1>8

\* What serialize writes behind the five fields.
Columns(list) == FlattenSeq([i \in DOMAIN list |-> FileTokens(list[i])])

LEMMA ColumnsOf ==
    ASSUME NEW list \in Seq(Entries)
    PROVE  /\ Columns(list) \in Seq(Texts) /\ Len(Columns(list)) = 3 * Len(list)
           /\ \A k \in 1 .. Len(list) :
                /\ Columns(list)[3 * k - 2] = list[k].name
                /\ Columns(list)[3 * k - 1] = Number(list[k].size)
                /\ Columns(list)[3 * k] = list[k].hash
<1> DEFINE n == Len(list)
           parts == [i \in DOMAIN list |-> FileTokens(list[i])]
           X == Texts
<1>1. n \in Nat /\ DOMAIN list = 1 .. n /\ \A i \in 1 .. n : list[i] \in Entries
  BY RangeSeq, ElementOfSeq
<1>2. ASSUME NEW i \in 1 .. n
      PROVE  /\ FileTokens(list[i]) \in Seq(X) /\ Len(FileTokens(list[i])) = 3
             /\ FileTokens(list[i])[1] = list[i].name
             /\ FileTokens(list[i])[2] = Number(list[i].size)
             /\ FileTokens(list[i])[3] = list[i].hash
  <2> DEFINE a == list[i].name
             b == Number(list[i].size)
             c == list[i].hash
  <2>1. a \in X /\ b \in X /\ c \in X
    BY <1>1, PlainFile DEF PlainText
  <2> HIDE DEF a, b, c, X
  <2>2. /\ <<a, b, c>> \in Seq(X) /\ Len(<<a, b, c>>) = 3
        /\ <<a, b, c>>[1] = a /\ <<a, b, c>>[2] = b /\ <<a, b, c>>[3] = c
    BY <2>1
  <2>3. FileTokens(list[i]) = <<a, b, c>>
    BY DEF FileTokens, a, b, c
  <2> QED
    BY <2>2, <2>3 DEF a, b, c
<1> HIDE DEF X
<1>3. parts \in Seq(Seq(X)) /\ Len(parts) = n
      /\ \A i \in 1 .. n : parts[i] = FileTokens(list[i])
  <2> DEFINE Y == Seq(X)
  <2>1. parts \in [1 .. n -> Y] /\ \A i \in 1 .. n : parts[i] = FileTokens(list[i])
    BY <1>1, <1>2
  <2> HIDE DEF Y, n, parts
  <2>2. parts \in Seq(Y) /\ Len(parts) = n
    BY <1>1, <2>1, SeqDef, LenProperties
  <2> QED
    BY <2>1, <2>2 DEF Y
<1>4. Columns(list) = FlattenSeq(parts)
  BY DEF Columns
<1> HIDE DEF parts
<1>5. PICK g : FlattenLoop(g, X, parts)
  BY <1>3, FlattenRuns
<1>6. /\ g \in [0 .. n -> Seq(X)] /\ g[0] = <<>> /\ Columns(list) = g[n]
      /\ \A i \in 1 .. n : g[i] = g[i - 1] \o FileTokens(list[i])
  BY <1>3, <1>4, <1>5 DEF FlattenLoop
<1> HIDE DEF n
<1> DEFINE At(t, k) == /\ t[3 * k - 2] = list[k].name
                       /\ t[3 * k - 1] = Number(list[k].size)
                       /\ t[3 * k] = list[k].hash
           T == {i \in 0 .. n : Len(g[i]) = 3 * i /\ \A k \in 1 .. i : At(g[i], k)}
<1>7. 0 \in T
  <2>1. Len(g[0]) = 3 * 0 /\ 1 .. 0 = {} /\ 0 \in 0 .. n
    BY <1>1, <1>6, EmptySeq
  <2> HIDE DEF At
  <2> QED
    BY <2>1
<1>8. ASSUME NEW i \in 1 .. n, i - 1 \in T
      PROVE  i \in T
  <2> DEFINE s == g[i - 1]
             t == FileTokens(list[i])
             m == 3 * (i - 1)
  <2>1. i \in Nat /\ i \in 0 .. n /\ i - 1 \in 0 .. n /\ m \in Nat /\ m + 3 = 3 * i
    BY <1>1
  <2>2. s \in Seq(X) /\ Len(s) = m /\ \A k \in 1 .. i - 1 : At(s, k)
    BY <1>6, <1>8, <2>1
  <2>3. /\ t \in Seq(X) /\ Len(t) = 3 /\ t[1] = list[i].name
        /\ t[2] = Number(list[i].size) /\ t[3] = list[i].hash
    BY <1>2
  <2>4. g[i] = s \o t
    BY <1>6
  <2> HIDE DEF s, t
  <2>5. /\ Len(s \o t) = m + 3
        /\ \A j \in 1 .. m + 3 : (s \o t)[j] = IF j <= m THEN s[j] ELSE t[j - m]
    <3>1. /\ Len(s \o t) = Len(s) + Len(t)
          /\ \A j \in 1 .. Len(s) + Len(t) :
               (s \o t)[j] = IF j <= Len(s) THEN s[j] ELSE t[j - Len(s)]
      BY <2>2, <2>3, ConcatProperties
    <3> QED
      BY <2>2, <2>3, <3>1
  <2> DEFINE r == s \o t
  <2> HIDE DEF r
  <2>6. /\ Len(r) = m + 3
        /\ \A j \in 1 .. m + 3 : r[j] = IF j <= m THEN s[j] ELSE t[j - m]
    BY <2>5 DEF r
  <2>7. ASSUME NEW k \in 1 .. i - 1
        PROVE  At(r, k)
    <3>1. /\ 3 * k - 2 \in 1 .. m + 3 /\ 3 * k - 1 \in 1 .. m + 3 /\ 3 * k \in 1 .. m + 3
          /\ 3 * k - 2 <= m /\ 3 * k - 1 <= m /\ 3 * k <= m
      BY <2>1
    <3>2. r[3 * k - 2] = s[3 * k - 2] /\ r[3 * k - 1] = s[3 * k - 1] /\ r[3 * k] = s[3 * k]
      BY <2>6, <3>1
    <3> QED
      BY <2>2, <3>2
  <2>8. At(r, i)
    <3>1. /\ 3 * i - 2 = m + 1 /\ 3 * i - 1 = m + 2 /\ 3 * i = m + 3
          /\ m + 1 \in 1 .. m + 3 /\ m + 2 \in 1 .. m + 3 /\ m + 3 \in 1 .. m + 3
          /\ ~(m + 1 <= m) /\ ~(m + 2 <= m) /\ ~(m + 3 <= m)
          /\ (m + 1) - m = 1 /\ (m + 2) - m = 2 /\ (m + 3) - m = 3
      BY <2>1
    <3> HIDE DEF m
    <3>2. r[m + 1] = t[1] /\ r[m + 2] = t[2] /\ r[m + 3] = t[3]
      BY <2>6, <3>1
    <3> QED
      BY <2>3, <3>1, <3>2
  <2>9. \A k \in 1 .. i : k \in 1 .. i - 1 \/ k = i
    BY <2>1
  <2> HIDE DEF At, m
  <2>10. Len(g[i]) = 3 * i /\ \A k \in 1 .. i : At(g[i], k)
    BY <2>1, <2>4, <2>6, <2>7, <2>8, <2>9 DEF r
  <2> QED
    BY <2>1, <2>10
<1> HIDE DEF T
<1>9. 0 .. n \subseteq T
  BY <1>1, <1>7, <1>8, BoundedInduction
<1>10. n \in T /\ n \in 0 .. n
  BY <1>1, <1>9
<1>11. Len(g[n]) = 3 * n /\ \A k \in 1 .. n : At(g[n], k)
  BY <1>10 DEF T
<1>12. Columns(list) \in Seq(X)
  BY <1>6, <1>10
<1> QED
  BY <1>6, <1>11, <1>12 DEF X, n

\* Peers that an answer is written of.
SentPeers ==
    {p \in [id : Ids, ip : {<<"ip">>}, port : {2}, active : BOOLEAN, files : Seq(Entries)] :
        Once(p.files)}
Activity(p) == IF p.active THEN 1 ELSE 0
Fields(p) ==
    <<p.id, p.ip, Number(p.port), Number(Activity(p)), Number(Len(p.files))>>

\* What a sequence of tokens has of a file, behind the fields.
FileAt(tokens, k, f) ==
    /\ tokens[3 * k + 3] = f.name
    /\ tokens[3 * k + 4] = Number(f.size)
    /\ tokens[3 * k + 5] = f.hash
FieldsAt(tokens, p) ==
    /\ tokens[1] = p.id /\ tokens[2] = p.ip /\ tokens[3] = Number(p.port)
    /\ tokens[4] = Number(Activity(p)) /\ tokens[5] = Number(Len(p.files))

LEMMA PeerTokens ==
    ASSUME NEW p \in SentPeers
    PROVE  /\ Fields(p) \o Columns(p.files) \in Seq(Texts)
           /\ Len(Fields(p) \o Columns(p.files)) = 5 + 3 * Len(p.files)
           /\ FieldsAt(Fields(p) \o Columns(p.files), p)
           /\ \A k \in 1 .. Len(p.files) :
                FileAt(Fields(p) \o Columns(p.files), k, p.files[k])
<1> DEFINE list == p.files
           n == Len(list)
           head == Fields(p)
           rest == Columns(list)
           t == head \o rest
           X == Texts
<1>1. /\ p.id \in X /\ p.ip \in X /\ p.port = 2 /\ Activity(p) \in {0, 1}
      /\ list \in Seq(Entries) /\ Once(list)
  BY PeerListsAssumption DEF SentPeers, Activity
<1>2. n \in 0 .. Len(Digits) - 1 /\ n \in Nat
  BY <1>1, ListLength, LenProperties
<1>3. Len(Digits) \in Nat /\ Len(Digits) >= 3
  BY PeerTextAssumption, LenProperties DEF Texts
<1>4. Number(p.port) \in X /\ Number(Activity(p)) \in X /\ Number(n) \in X
  <2>1. p.port \in 0 .. Len(Digits) - 1 /\ Activity(p) \in 0 .. Len(Digits) - 1
    BY <1>1, <1>3
  <2> HIDE DEF n
  <2> QED
    BY <1>2, <2>1, NumberRead
<1>5. /\ rest \in Seq(X) /\ Len(rest) = 3 * n
      /\ \A k \in 1 .. n :
           /\ rest[3 * k - 2] = list[k].name
           /\ rest[3 * k - 1] = Number(list[k].size)
           /\ rest[3 * k] = list[k].hash
  BY <1>1, ColumnsOf
<1>6. head \in Seq(X) /\ Len(head) = 5 /\ FieldsAt(head, p)
  <2> DEFINE a == p.id
             b == p.ip
             c == Number(p.port)
             d == Number(Activity(p))
             e == Number(n)
  <2>1. a \in X /\ b \in X /\ c \in X /\ d \in X /\ e \in X
    BY <1>1, <1>4
  <2>2. head = <<a, b, c, d, e>>
    BY DEF Fields
  <2> HIDE DEF a, b, c, d, e, X, head
  <2>3. /\ head \in Seq(X) /\ Len(head) = 5
        /\ head[1] = a /\ head[2] = b /\ head[3] = c /\ head[4] = d /\ head[5] = e
    BY <2>1, <2>2
  <2> QED
    BY <2>3 DEF FieldsAt, a, b, c, d, e
<1> HIDE DEF X, head, rest, t
<1>7. /\ t \in Seq(X) /\ Len(t) = Len(head) + Len(rest)
      /\ \A j \in 1 .. Len(head) + Len(rest) :
           t[j] = IF j <= Len(head) THEN head[j] ELSE rest[j - Len(head)]
  BY <1>5, <1>6, ConcatProperties DEF t
<1> HIDE DEF n, list
<1>8. /\ Len(t) = 5 + 3 * n
      /\ \A j \in 1 .. 5 + 3 * n : t[j] = IF j <= 5 THEN head[j] ELSE rest[j - 5]
  BY <1>5, <1>6, <1>7
<1>9. FieldsAt(t, p)
  <2>1. /\ 1 \in 1 .. 5 + 3 * n /\ 2 \in 1 .. 5 + 3 * n /\ 3 \in 1 .. 5 + 3 * n
        /\ 4 \in 1 .. 5 + 3 * n /\ 5 \in 1 .. 5 + 3 * n
    BY <1>2
  <2>2. /\ t[1] = head[1] /\ t[2] = head[2] /\ t[3] = head[3] /\ t[4] = head[4]
        /\ t[5] = head[5]
    BY <1>8, <2>1
  <2> QED
    BY <1>6, <2>2 DEF FieldsAt
<1>10. ASSUME NEW k \in 1 .. n
       PROVE  FileAt(t, k, list[k])
  <2>1. /\ 3 * k + 3 \in 1 .. 5 + 3 * n /\ 3 * k + 4 \in 1 .. 5 + 3 * n
        /\ 3 * k + 5 \in 1 .. 5 + 3 * n
        /\ ~(3 * k + 3 <= 5) /\ ~(3 * k + 4 <= 5) /\ ~(3 * k + 5 <= 5)
        /\ (3 * k + 3) - 5 = 3 * k - 2 /\ (3 * k + 4) - 5 = 3 * k - 1
        /\ (3 * k + 5) - 5 = 3 * k
    BY <1>2
  <2>2. /\ t[3 * k + 3] = rest[3 * k - 2] /\ t[3 * k + 4] = rest[3 * k - 1]
        /\ t[3 * k + 5] = rest[3 * k]
    BY <1>8, <2>1
  <2> QED
    BY <1>5, <2>2 DEF FileAt
<1> QED
  BY <1>7, <1>8, <1>9, <1>10 DEF t, head, rest, X, n, list

\* The tokens of a peer whose files have no separators in their names.
LEMMA PlainTokens ==
    ASSUME NEW p \in SentPeers, PlainPeer(p), NEW t \in Seq(Texts),
           Len(t) = 5 + 3 * Len(p.files), FieldsAt(t, p),
           \A k \in 1 .. Len(p.files) : FileAt(t, k, p.files[k])
    PROVE  /\ \A i \in 1 .. Len(t) : PlainText(t[i])
           /\ t[Len(t)] # <<>>
<1> DEFINE list == p.files
           n == Len(list)
<1>1. /\ p.id \in Ids /\ p.ip = <<"ip">> /\ p.port = 2 /\ Activity(p) \in {0, 1}
      /\ list \in Seq(Entries) /\ Once(list)
  BY DEF SentPeers, Activity
<1>2. n \in 0 .. Len(Digits) - 1 /\ n \in Nat
  BY <1>1, ListLength, LenProperties
<1>3. 0 \in 0 .. Len(Digits) - 1 /\ 1 \in 0 .. Len(Digits) - 1 /\ 2 \in 0 .. Len(Digits) - 1
  BY PeerTextAssumption, LenProperties DEF Texts
<1>4. ASSUME NEW d \in 0 .. Len(Digits) - 1
      PROVE  PlainText(Number(d)) /\ Number(d) # <<>>
  <2> DEFINE s == Number(d)
  <2>1. s \in Texts /\ s # <<>> /\ Len(s) = 1 /\ s[1] \notin Separators
    BY NumberRead
  <2> HIDE DEF s
  <2>2. \A k \in 1 .. Len(s) : k = 1
    BY <2>1
  <2>3. PlainText(s)
    BY <2>1, <2>2 DEF PlainText
  <2> QED
    BY <2>1, <2>3 DEF s
<1>5. PlainText(t[1])
  <2> DEFINE s == p.id
  <2>1. s \in Texts /\ \A k \in DOMAIN s : s[k] \notin Separators
    BY <1>1, PeerListsAssumption
  <2> HIDE DEF s
  <2>2. PlainText(s)
    BY <2>1, LenProperties DEF PlainText, Texts
  <2> QED
    BY <2>2 DEF FieldsAt, s
<1>6. PlainText(t[2])
  <2> DEFINE s == <<"ip">>
  <2>1. s \in Texts /\ Len(s) = 1 /\ s[1] = "ip" /\ "ip" \notin Separators
    BY PeerListsAssumption DEF Separators
  <2> HIDE DEF s
  <2>2. \A k \in 1 .. Len(s) : k = 1
    BY <2>1
  <2>3. PlainText(s)
    BY <2>1, <2>2 DEF PlainText
  <2> QED
    BY <1>1, <2>3 DEF FieldsAt, s
<1>7. PlainText(t[3]) /\ PlainText(t[4]) /\ PlainText(t[5]) /\ t[5] # <<>>
  <2>1. t[3] = Number(2) /\ t[4] = Number(Activity(p)) /\ t[5] = Number(n)
    BY <1>1 DEF FieldsAt
  <2> HIDE DEF n
  <2>2. PlainText(Number(2)) /\ PlainText(Number(n)) /\ Number(n) # <<>>
    BY <1>2, <1>3, <1>4
  <2>3. PlainText(Number(Activity(p)))
    BY <1>1, <1>3, <1>4
  <2> QED
    BY <2>1, <2>2, <2>3
<1>8. ASSUME NEW k \in 1 .. n
      PROVE  /\ PlainText(t[3 * k + 3]) /\ PlainText(t[3 * k + 4]) /\ PlainText(t[3 * k + 5])
             /\ t[3 * k + 5] # <<>>
  <2> DEFINE f == list[k]
  <2>1. f \in Entries /\ IsPlain(f)
    <3>1. f \in Entries /\ f \in Range(list)
      <4>1. list \in Seq(Entries) /\ k \in 1 .. Len(list)
        BY <1>1
      <4> HIDE DEF n, list
      <4>2. Range(list) = {list[i] : i \in 1 .. Len(list)}
        BY <4>1, RangeSeq
      <4> QED
        BY <4>1, <4>2, ElementOfSeq
    <3> QED
      BY <3>1 DEF PlainPeer
  <2>2. FileAt(t, k, f)
    OBVIOUS
  <2> HIDE DEF f, n
  <2>3. PlainText(f.name) /\ PlainText(Number(f.size)) /\ PlainText(f.hash) /\ f.hash # <<>>
    BY <2>1, PlainFile
  <2> QED
    BY <2>2, <2>3 DEF FileAt
<1>9. Len(t) = 5 + 3 * n
  OBVIOUS
<1> HIDE DEF n, list
<1>10. ASSUME NEW i \in 1 .. Len(t)
       PROVE  PlainText(t[i])
  <2>1. CASE i <= 5
    <3>1. i = 1 \/ i = 2 \/ i = 3 \/ i = 4 \/ i = 5
      BY <1>2, <1>9, <2>1
    <3> QED
      BY <1>5, <1>6, <1>7, <3>1
  <2>2. CASE ~(i <= 5)
    <3> DEFINE k == (i - 3) \div 3
    <3>1. i \in Nat /\ 6 <= i /\ i <= 5 + 3 * n
      BY <1>2, <1>9, <2>2
    <3>2. k \in Int /\ (i = 3 * k + 3 \/ i = 3 * k + 4 \/ i = 3 * k + 5)
      BY <3>1
    <3> HIDE DEF k
    <3>3. k \in 1 .. n
      BY <1>2, <3>1, <3>2
    <3> QED
      BY <1>8, <3>2, <3>3
  <2> QED
    BY <2>1, <2>2
<1>11. t[Len(t)] # <<>>
  <2>1. CASE n = 0
    <3>1. 5 + 3 * n = 5
      BY <2>1
    <3>2. Len(t) = 5
      BY <1>9, <3>1
    <3> QED
      BY <1>7, <3>2
  <2>2. CASE n # 0
    <3>1. n \in 1 .. n /\ Len(t) = 3 * n + 5
      BY <1>2, <1>9, <2>2
    <3> QED
      BY <1>8, <3>1
  <2> QED
    BY <2>1, <2>2
<1> QED
  BY <1>10, <1>11

\* The empty text has no tokens.
LEMMA NothingSplit == Split(<<>>, "|") = <<>>
<1> DEFINE S == Symbols
           sep == "|"
           e == <<>>
<1>1. e \in Seq(S) /\ sep \in S
  BY PeerTextAssumption, EmptySeq DEF Separators
<1> HIDE DEF S, sep
<1>2. Read(e, sep) = ReadStart
  BY <1>1, ReadAppend
<1>3. Split(e, sep) = IF Read(e, sep).token = <<>> THEN Read(e, sep).tokens
                      ELSE Append(Read(e, sep).tokens, Read(e, sep).token)
  BY DEF Split
<1>4. Split(e, sep) = <<>>
  BY <1>2, <1>3 DEF ReadStart
<1> QED
  BY <1>4 DEF sep

\* deserialize of the tokens that serialize writes.
LEMMA TokensRead ==
    ASSUME NEW p \in SentPeers, NEW data, NEW t, t = Split(data, "|"), t \in Seq(Texts),
           Len(t) = 5 + 3 * Len(p.files), FieldsAt(t, p),
           \A k \in 1 .. Len(p.files) : FileAt(t, k, p.files[k])
    PROVE  Deserializes(data) /\ deserialize(data) = p
<1> DEFINE list == p.files
           n == Len(list)
           File(i) == [name |-> t[3 * i + 3], size |-> NumberOf(t[3 * i + 4]),
                       hash |-> t[3 * i + 5]]
           read == [i \in 1 .. FileCount(t) |-> File(i)]
<1>1. /\ p = [id |-> p.id, ip |-> p.ip, port |-> p.port, active |-> p.active, files |-> list]
      /\ p.port = 2 /\ p.active \in BOOLEAN /\ list \in Seq(Entries) /\ Once(list)
  BY DEF SentPeers
<1>2. n \in 0 .. Len(Digits) - 1 /\ n \in Nat
  BY <1>1, ListLength, LenProperties
<1>3. 0 \in 0 .. Len(Digits) - 1 /\ 1 \in 0 .. Len(Digits) - 1 /\ 2 \in 0 .. Len(Digits) - 1
  BY PeerTextAssumption, LenProperties DEF Texts
<1>4. /\ t[1] = p.id /\ t[2] = p.ip /\ t[3] = Number(2) /\ t[4] = Number(Activity(p))
      /\ t[5] = Number(n)
  BY <1>1 DEF FieldsAt
<1>5. \A d \in 0 .. Len(Digits) - 1 : IsNumber(Number(d)) /\ NumberOf(Number(d)) = d
  BY NumberRead
<1>6. (t[4] = Number(1)) = p.active
  <2>1. CASE p.active
    <3>1. Activity(p) = 1
      BY <2>1 DEF Activity
    <3> QED
      BY <1>4, <2>1, <3>1
  <2>2. CASE ~ p.active
    <3>1. Activity(p) = 0
      BY <2>2 DEF Activity
    <3>2. Number(0) # Number(1)
      BY <1>3, <1>5
    <3>3. t[4] # Number(1)
      BY <1>4, <3>1, <3>2
    <3> QED
      BY <1>1, <2>2, <3>3
  <2> QED
    BY <1>1, <2>1, <2>2
<1>7. ASSUME NEW k \in 1 .. n
      PROVE  IsNumber(t[3 * k + 4]) /\ File(k) = list[k]
  <2> DEFINE f == list[k]
             s == f.size
  <2>1. f \in Entries
    BY <1>1, ElementOfSeq
  <2>2. FileAt(t, k, f)
    OBVIOUS
  <2> HIDE DEF f, n, list
  <2>3. s \in 0 .. Len(Digits) - 1 /\ f = [name |-> f.name, size |-> s, hash |-> f.hash]
    BY <2>1, PlainFile
  <2>4. t[3 * k + 3] = f.name /\ t[3 * k + 4] = Number(s) /\ t[3 * k + 5] = f.hash
    BY <2>2 DEF FileAt
  <2> HIDE DEF s
  <2>5. IsNumber(Number(s)) /\ NumberOf(Number(s)) = s
    BY <1>5, <2>3
  <2>6. File(k) = [name |-> f.name, size |-> s, hash |-> f.hash]
    BY <2>4, <2>5
  <2> QED
    BY <2>3, <2>4, <2>5, <2>6 DEF f
<1>8. Len(t) = 5 + 3 * n
  OBVIOUS
<1> HIDE DEF n, File
<1>9. NumberOf(t[5]) = n /\ IsNumber(t[5]) /\ IsNumber(t[3])
  BY <1>2, <1>3, <1>4, <1>5
<1>10. FileCount(t) = n
  <2> DEFINE m == 3 * n
             fit == (Len(t) - 5) \div 3
  <2>1. Len(t) - 5 = 3 * n
    BY <1>2, <1>8
  <2>2. (3 * n) \div 3 = n
    BY <1>2
  <2>3. fit = n
    BY <2>1, <2>2
  <2>4. FileCount(t) = IF NumberOf(t[5]) < fit THEN NumberOf(t[5]) ELSE fit
    BY DEF FileCount
  <2> HIDE DEF fit
  <2> QED
    BY <1>9, <2>3, <2>4
<1>11. Deserializes(data)
  <2>1. Len(t) >= 5
    <3>1. 3 * n \in Nat
      BY <1>2
    <3> QED
      BY <1>8, <3>1
  <2>2. \A i \in 1 .. FileCount(t) : IsNumber(t[3 * i + 4])
    BY <1>7, <1>10
  <2> QED
    BY <1>9, <2>1, <2>2 DEF Deserializes
<1>12. read = list
  <2>1. list = [i \in 1 .. n |-> list[i]]
    BY <1>1, RangeSeq DEF n
  <2> HIDE DEF list
  <2>2. read = [i \in 1 .. n |-> list[i]]
    BY <1>7, <1>10
  <2> QED
    BY <2>1, <2>2
<1>13. addFiles(<<>>, list) = list
  <2> HIDE DEF list
  <2> QED
    BY <1>1, AddFilesOnce
<1>14. deserialize(data)
         = [id |-> t[1], ip |-> t[2], port |-> NumberOf(t[3]), active |-> t[4] = Number(1),
            files |-> addFiles(<<>>, read)]
  BY DEF deserialize, File
<1> HIDE DEF read, list
<1>15. NumberOf(t[3]) = 2 /\ addFiles(<<>>, read) = list
  BY <1>3, <1>4, <1>5, <1>12, <1>13
<1> DEFINE new == addFiles(<<>>, read)
           port == NumberOf(t[3])
           active == t[4] = Number(1)
<1>16. deserialize(data)
         = [id |-> t[1], ip |-> t[2], port |-> port, active |-> active, files |-> new]
  BY <1>14
<1>17. port = p.port /\ active = p.active /\ new = list
  BY <1>1, <1>6, <1>15
<1> HIDE DEF port, active, new
<1>18. deserialize(data) = p
  BY <1>1, <1>4, <1>16, <1>17
<1> QED
  BY <1>11, <1>18

\* The line of a peer is read as that peer.
LEMMA PeerLine ==
    ASSUME NEW p \in SentPeers
    PROVE  /\ serialize(p) \in Texts
           /\ PlainPeer(p) => /\ Whole(serialize(p), "\n")
                              /\ serialize(p) # <<>>
                              /\ Deserializes(serialize(p))
                              /\ deserialize(serialize(p)) = p
<1> DEFINE t == Fields(p) \o Columns(p.files)
           A == Symbols
           X == Seq(A)
           line == Joined(t)
<1>1. serialize(p) = line
  BY DEF serialize, Fields, Activity, Columns
<1>2. /\ t \in Seq(Texts) /\ Len(t) = 5 + 3 * Len(p.files) /\ FieldsAt(t, p)
      /\ \A k \in 1 .. Len(p.files) : FileAt(t, k, p.files[k])
  BY PeerTokens
<1>3. "|" \in A
  BY PeerTextAssumption DEF Separators
<1> HIDE DEF t
<1>4. t \in Seq(X)
  BY <1>2 DEF Texts
<1> HIDE DEF A
<1>5. line \in X
  BY <1>3, <1>4, JoinedType
<1>6. ASSUME PlainPeer(p)
      PROVE  /\ Whole(line, "\n") /\ line # <<>>
             /\ Deserializes(line) /\ deserialize(line) = p
  <2>1. (\A i \in 1 .. Len(t) : PlainText(t[i])) /\ t[Len(t)] # <<>>
    BY <1>2, <1>6, PlainTokens
  <2>2. Whole(line, "\n")
    BY <1>2, <2>1, PlainLine
  <2>3. \A i \in 1 .. Len(t) : \A k \in 1 .. Len(t[i]) : t[i][k] # "|"
    BY <2>1 DEF PlainText, Separators
  <2>4. t # <<>>
    <3>1. Len(p.files) \in Nat
      <4>1. p.files \in Seq(Entries)
        BY DEF SentPeers
      <4> QED
        BY <4>1, LenProperties
    <3>2. Len(t) # 0
      BY <1>2, <3>1
    <3> QED
      BY <3>2
  <2>5. Split(line, "|") = t
    BY <1>3, <1>4, <2>1, <2>3, <2>4, SplitJoined
  <2>6. line # <<>>
    BY <2>4, <2>5, NothingSplit
  <2>7. Deserializes(line) /\ deserialize(line) = p
    <3> HIDE DEF line
    <3> QED
      BY <1>2, <2>5, TokensRead
  <2> QED
    BY <2>2, <2>6, <2>7
<1> QED
  BY <1>1, <1>5, <1>6 DEF A, Texts

\* The answer to PEER_LIST_REQUEST.
AnswerOf(list) == FlattenSeq([k \in DOMAIN list |-> serialize(list[k]) \o <<"\n">>])

LEMMA PeersArrive ==
    ASSUME NEW list \in Seq(SentPeers)
    PROVE  /\ \A k \in DOMAIN list :
                PlainPeer(list[k]) => Contains(PeersOf(AnswerOf(list)), list[k])
           /\ (\A k \in DOMAIN list : PlainPeer(list[k])) => PeersOf(AnswerOf(list)) = list
<1> DEFINE n == Len(list)
           L(k) == serialize(list[k])
           sent == [k \in 1 .. n |-> L(k)]
           text == Ended(sent, "\n")
           lines == Lines(text)
           W == {i \in DOMAIN lines : Deserializes(lines[i])}
           good == Picked(lines, W)
           peers == [i \in DOMAIN good |-> deserialize(good[i])]
<1>1. n \in Nat /\ DOMAIN list = 1 .. n /\ \A k \in 1 .. n : list[k] \in SentPeers
  BY RangeSeq, ElementOfSeq
<1>2. ASSUME NEW k \in 1 .. n
      PROVE  /\ L(k) \in Texts
             /\ PlainPeer(list[k]) => /\ Whole(L(k), "\n") /\ L(k) # <<>>
                                      /\ Deserializes(L(k)) /\ deserialize(L(k)) = list[k]
  <2> DEFINE p == list[k]
  <2>1. p \in SentPeers
    BY <1>1
  <2> HIDE DEF p
  <2>2. /\ serialize(p) \in Texts
        /\ PlainPeer(p) => /\ Whole(serialize(p), "\n")
                           /\ serialize(p) # <<>>
                           /\ Deserializes(serialize(p))
                           /\ deserialize(serialize(p)) = p
    BY <2>1, PeerLine
  <2> QED
    BY <2>2 DEF p
<1>3. AnswerOf(list) = text
  <2>1. AnswerOf(list) = FlattenSeq([i \in 1 .. n |-> L(i) \o <<"\n">>])
    BY <1>1 DEF AnswerOf
  <2> HIDE DEF L
  <2>2. DOMAIN sent = 1 .. n /\ \A i \in 1 .. n : sent[i] = L(i)
    OBVIOUS
  <2> DEFINE m == <<"\n">>
  <2> HIDE DEF m, sent
  <2>3. [i \in 1 .. n |-> L(i) \o m] = [i \in DOMAIN sent |-> sent[i] \o m]
    BY <2>2
  <2>4. text = FlattenSeq([i \in DOMAIN sent |-> sent[i] \o m])
    BY DEF Ended, m
  <2> HIDE DEF text
  <2> QED
    BY <2>1, <2>3, <2>4 DEF m
<1>4. PeersOf(text) = peers
  BY DEF PeersOf
<1> HIDE DEF L
<1>5. sent \in Seq(Texts) /\ Len(sent) = n /\ \A k \in 1 .. n : sent[k] = L(k)
  <2>1. sent \in [1 .. n -> Texts] /\ \A k \in 1 .. n : sent[k] = L(k)
    BY <1>2
  <2> HIDE DEF sent, n
  <2> QED
    BY <1>1, <2>1, SeqDef, LenProperties
<1> HIDE DEF sent
<1>6. /\ lines \in Seq(Texts)
      /\ \A k \in 1 .. Len(sent) : Arrives(sent[k], lines)
      /\ AllArrive(sent, lines)
  BY <1>5, LinesEnded
<1> HIDE DEF text, lines
<1>7. /\ Len(lines) \in Nat /\ DOMAIN lines = 1 .. Len(lines)
      /\ Range(lines) = {lines[i] : i \in 1 .. Len(lines)}
  BY <1>6, RangeSeq
<1>8. W = {i \in 1 .. Len(lines) : Deserializes(lines[i])}
  BY <1>7
<1> HIDE DEF W
<1>9. /\ good \in Seq(Texts)
      /\ Range(good) = {lines[i] : i \in {k \in 1 .. Len(lines) : k \in W}}
  BY <1>6, PickedList
<1>10. 1 .. Len(lines) \subseteq W => good = lines
  BY <1>6, PickedAll
<1> HIDE DEF good
<1>11. /\ Len(good) \in Nat /\ DOMAIN good = 1 .. Len(good)
       /\ Range(good) = {good[i] : i \in 1 .. Len(good)}
  BY <1>9, RangeSeq
<1>12. ASSUME NEW k \in 1 .. n, PlainPeer(list[k])
       PROVE  Contains(peers, list[k])
  <2>1. L(k) \in Range(lines) /\ Deserializes(L(k)) /\ deserialize(L(k)) = list[k]
    BY <1>2, <1>5, <1>6, <1>12 DEF Arrives
  <2>2. PICK i \in 1 .. Len(lines) : lines[i] = L(k)
    BY <1>7, <2>1
  <2>3. L(k) \in Range(good)
    BY <1>8, <1>9, <2>1, <2>2
  <2>4. PICK j \in 1 .. Len(good) : good[j] = L(k)
    BY <1>11, <2>3
  <2>5. j \in DOMAIN peers /\ peers[j] = list[k]
    BY <1>11, <2>1, <2>4
  <2>6. DOMAIN peers = 1 .. Len(good) /\ Len(peers) = Len(good)
    BY <1>11
  <2> HIDE DEF peers
  <2> QED
    BY <2>5, <2>6 DEF Contains
<1>13. ASSUME \A k \in 1 .. n : PlainPeer(list[k])
       PROVE  peers = list
  <2>1. lines = sent
    BY <1>2, <1>5, <1>6, <1>13 DEF AllArrive
  <2>2. \A k \in 1 .. n : Deserializes(lines[k]) /\ deserialize(lines[k]) = list[k]
    BY <1>2, <1>5, <1>13, <2>1
  <2>3. good = lines
    BY <1>5, <1>8, <1>10, <2>1, <2>2
  <2>4. DOMAIN good = 1 .. n /\ \A k \in 1 .. n : deserialize(good[k]) = list[k]
    BY <1>5, <1>11, <2>1, <2>2, <2>3
  <2>5. peers = [k \in 1 .. n |-> list[k]]
    BY <2>4
  <2>6. list = [k \in 1 .. n |-> list[k]]
    BY <1>1
  <2> QED
    BY <2>5, <2>6
<1> HIDE DEF peers
<1> QED
  BY <1>1, <1>3, <1>4, <1>12, <1>13

\* The table is finite, so that it can be put in an order; an answer takes the
\* objects of it, and writes each as a peer whose list has no name twice.
SentInv ==
    /\ IsFiniteSet(table)
    /\ pending \in Seq(Objs)
    /\ stage # "files" => served \in Seq(SentPeers)

LEMMA SentStep == TypeInv /\ OnceInv /\ SentInv /\ [Next]_vars => SentInv'
<1> SUFFICES ASSUME TypeInv, OnceInv, SentInv, [Next]_vars
             PROVE  SentInv'
  OBVIOUS
<1>1. ASSUME UNCHANGED answerVars, IsFiniteSet(table')
      PROVE  SentInv'
  BY <1>1 DEF answerVars, SentInv
<1>2. ASSUME NEW T \in SUBSET table
      PROVE  IsFiniteSet(T)
  BY FS_Subset DEF SentInv
<1>3. ASSUME NEW o \in Objs, NEW list \in FileLists, AddPeer(o, list)
      PROVE  SentInv'
  <2> DEFINE T == {p \in table : p[1] # o[1]}
  <2>1. IsFiniteSet(T)
    BY <1>2
  <2>2. table' = T \cup {o} /\ UNCHANGED answerVars
    BY <1>3 DEF AddPeer
  <2> HIDE DEF T
  <2> QED
    BY <1>1, <2>1, <2>2, FS_AddElement
<1>4. ASSUME NEW o \in Objs, RemovePeer(o)
      PROVE  SentInv'
  BY <1>1, <1>2, <1>4 DEF RemovePeer
<1>5. ASSUME UNCHANGED <<table, answerVars>>
      PROVE  SentInv'
  BY <1>1, <1>5 DEF SentInv
<1>6. ASSUME NEW u \in Updaters, NEW o \in Objs, NEW list \in FileLists,
             UpdateStarts(u, o, list)
      PROVE  SentInv'
  BY <1>5, <1>6 DEF UpdateStarts
<1>7. ASSUME NEW u \in Updaters, RemoveNext(u) \/ AddNext(u) \/ UpdateEnds(u)
      PROVE  SentInv'
  BY <1>5, <1>7 DEF RemoveNext, AddNext, UpdateEnds
<1>8. CASE AnswerStarts
  <2> DEFINE n == Cardinality(table)
             D == 1 .. n
  <2>1. n \in Nat /\ table \subseteq Objs
    BY FS_CardinalityType DEF SentInv, TypeInv, TypeOK
  <2>2. PICK order \in SetToSeqs(table) : pending' = order
    BY <1>8 DEF AnswerStarts
  <2>3. order \in [D -> table]
    BY <2>2 DEF SetToSeqs
  <2> HIDE DEF n
  <2>4. order \in [1 .. n -> Objs]
    BY <2>1, <2>3
  <2>5. order \in Seq(Objs)
    BY <2>1, <2>4, SeqDef
  <2>6. stage = "idle" /\ UNCHANGED <<table, served>>
    BY <1>8 DEF AnswerStarts, tableVars
  <2> QED
    BY <2>2, <2>5, <2>6 DEF SentInv
<1>9. CASE WritePeer
  <2> DEFINE o == Head(pending)
             list == files[o]
             active == o[1] \in ActiveIds
             peer == [id |-> o[1], ip |-> <<"ip">>, port |-> 2, active |-> active,
                      files |-> list]
  <2>1. /\ stage = "writing" /\ stage' = stage /\ pending # <<>> /\ UNCHANGED table
        /\ served' = Append(served, peer) /\ pending' = Tail(pending)
    BY <1>9 DEF WritePeer, tableVars
  <2>2. o \in Objs /\ pending' \in Seq(Objs)
    <3>1. pending \in Seq(Objs)
      BY DEF SentInv
    <3> QED
      BY <2>1, <3>1, HeadTailProperties
  <2>3. o[1] \in Ids
    BY <2>2 DEF Objs
  <2>4. list \in Seq(Entries) /\ Once(list)
    BY <2>2, CallTypes DEF OnceInv
  <2>5. active \in BOOLEAN
    OBVIOUS
  <2> HIDE DEF o, list, active
  <2>6. peer \in SentPeers
    BY <2>3, <2>4, <2>5 DEF SentPeers
  <2>7. served \in Seq(SentPeers)
    BY <2>1 DEF SentInv
  <2> HIDE DEF peer
  <2>8. Append(served, peer) \in Seq(SentPeers)
    BY <2>6, <2>7, AppendProperties
  <2> QED
    BY <2>1, <2>2, <2>8 DEF SentInv
<1>10. CASE ReceivePeers
  BY <1>10 DEF ReceivePeers, SentInv, tableVars
<1>11. ASSUME NEW list \in FileLists \cup {<<>>}, ReceiveFiles(list)
       PROVE  SentInv'
  BY <1>11 DEF ReceiveFiles, SentInv, tableVars
<1>12. CASE UNCHANGED vars
  BY <1>5, <1>12 DEF vars, tableVars
<1> QED
  BY <1>3, <1>4, <1>6, <1>7, <1>8, <1>9, <1>10, <1>11, <1>12 DEF Next

LEMMA PeersStep == SentInv /\ PeersSurvive /\ [Next]_vars => PeersSurvive'
<1> SUFFICES ASSUME SentInv, PeersSurvive, [Next]_vars
             PROVE  PeersSurvive'
  OBVIOUS
<1>1. ASSUME UNCHANGED answerVars PROVE PeersSurvive'
  BY <1>1 DEF answerVars, PeersSurvive
<1>2. ASSUME stage' \in {"writing", "files"} PROVE PeersSurvive'
  BY <1>2 DEF PeersSurvive
<1>3. CASE ReceivePeers
  <2>1. served \in Seq(SentPeers)
    BY <1>3 DEF ReceivePeers, SentInv
  <2>2. served' = served /\ got' = PeersOf(AnswerOf(served))
    BY <1>3 DEF ReceivePeers, AnswerOf
  <2> QED
    BY <2>1, <2>2, PeersArrive DEF PeersSurvive
<1>4. CASE UNCHANGED vars
  BY <1>1, <1>4 DEF vars
<1>5. ASSUME NEW o \in Objs, NEW list \in FileLists, AddPeer(o, list)
      PROVE  PeersSurvive'
  BY <1>1, <1>5 DEF AddPeer
<1>6. ASSUME NEW o \in Objs, RemovePeer(o) PROVE PeersSurvive'
  BY <1>1, <1>6 DEF RemovePeer
<1>7. ASSUME NEW u \in Updaters, NEW o \in Objs, NEW list \in FileLists,
             UpdateStarts(u, o, list)
      PROVE  PeersSurvive'
  BY <1>1, <1>7 DEF UpdateStarts
<1>8. ASSUME NEW u \in Updaters, RemoveNext(u) \/ AddNext(u) \/ UpdateEnds(u)
      PROVE  PeersSurvive'
  BY <1>1, <1>8 DEF RemoveNext, AddNext, UpdateEnds
<1>9. CASE AnswerStarts
  BY <1>2, <1>9 DEF AnswerStarts
<1>10. CASE WritePeer
  BY <1>2, <1>10 DEF WritePeer
<1>11. ASSUME NEW list \in FileLists \cup {<<>>}, ReceiveFiles(list)
       PROVE  PeersSurvive'
  BY <1>2, <1>11 DEF ReceiveFiles
<1> QED
  BY <1>3, <1>4, <1>5, <1>6, <1>7, <1>8, <1>9, <1>10, <1>11 DEF Next

\* What the other node makes of the answer to PEER_LIST_REQUEST: a peer whose
\* files have no separators in their names arrives as it was written, whatever
\* the files of other peers are called and whatever callers did to the table
\* meanwhile; when all are like this exactly these arrive.
THEOREM PeersCorrect == Spec => []PeersSurvive
<1> DEFINE Inv == TypeInv /\ OnceInv /\ MergeInv /\ SentInv /\ PeersSurvive
<1>1. Init => Inv
  <2> SUFFICES ASSUME Init PROVE Inv
    OBVIOUS
  <2>1. SentInv /\ PeersSurvive
    BY FS_EmptySet, EmptySeq DEF Init, SentInv, PeersSurvive
  <2> QED
    BY <2>1, TypeInit
<1>2. Inv /\ [Next]_vars => Inv'
  <2> SUFFICES ASSUME Inv, [Next]_vars PROVE Inv'
    OBVIOUS
  <2>1. TypeInv' /\ OnceInv' /\ MergeInv' /\ SentInv'
    BY TypeStep, MergeStep, SentStep
  <2>2. PeersSurvive'
    BY PeersStep
  <2> QED
    BY <2>1, <2>2
<1>3. Inv => PeersSurvive
  OBVIOUS
<1> QED
  BY <1>1, <1>2, <1>3, PTL DEF Spec
=============================================================================
