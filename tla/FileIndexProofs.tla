-------------------------- MODULE FileIndexProofs --------------------------
(***************************************************************************)
(* Proofs about FileIndex, for every directory, every set of names and     *)
(* versions, and every number of changes.                                  *)
(***************************************************************************)
EXTENDS FileIndex, SequenceTheorems, TLAPS

-----------------------------------------------------------------------------
(* Inductive invariants *)

Scanning == pc \in {"scan", "size", "open", "hash"}
Listed(m) == {index[m][i].place : i \in DOMAIN index[m]}

\* A place has had contents of this length, or with each of these blocks.
SizeSeen(m, p, n) == \E v \in Contents(m, p) : n = Len(v)
BlocksSeen(m, p, s) ==
    \A i \in DOMAIN s : \E v \in Contents(m, p) : i \in DOMAIN v /\ s[i] = v[i]

\* The ghost has what is there now, what the scan has read of the place it is
\* at, and what it would read next.
HeldInv ==
    /\ \A m \in Managers : \A p \in Places : dir[p] \in held[m][p]
    /\ pc \in {"open", "hash"} => SizeSeen(who, cur, size)
    /\ pc = "hash" => Stream \in Contents(who, cur) /\ BlocksSeen(who, cur, read)

\* A scan comes to a place once: what it has listed is neither where it is nor
\* still to be visited.
OnceInv ==
    Scanning =>
        /\ \A p \in Listed(who) : p \notin todo /\ p # cur
        /\ cur \notin todo

TypeInv == TypeOK /\ HeldInv /\ OnceInv

\* The scan lists shareable files only, and a place that is shareable and not
\* listed was without a file at some time, or the scan has still to visit it.
Missed(m, p) == NameOf[p] \in Valid /\ None \notin held[m][p] /\ p \notin Listed(m)

CoverInv ==
    /\ \A m \in Managers : \A p \in Listed(m) : NameOf[p] \in Valid
    /\ pc \in {"size", "open", "hash"} => NameOf[cur] \in Valid
    /\ \A m \in Managers : complete[m] => \A p \in Places : ~Missed(m, p)
    /\ Scanning =>
         /\ ~complete[who]
         /\ \A p \in Places : Missed(who, p) => p \in todo \/ p = cur

Entry == [place : Places, size : Nat, hash : Seq(Blocks), whole : BOOLEAN]

-----------------------------------------------------------------------------
(* What the steps do to the lists *)

\* The scan puts one entry behind the others, with what it has read.
LEMMA ListAppends ==
    ASSUME TypeInv, pc = "hash", NEW whole \in BOOLEAN, List(whole)
    PROVE  /\ who \in Managers /\ cur \in Places
           /\ index' \in [Managers -> Seq(Entry)]
           /\ \A m \in Managers : m # who => index'[m] = index[m]
           /\ Len(index'[who]) = Len(index[who]) + 1
           /\ \A i \in 1 .. Len(index[who]) : index'[who][i] = index[who][i]
           /\ index'[who][Len(index[who]) + 1] =
                [place |-> cur, size |-> size, hash |-> read, whole |-> whole]
           /\ Listed(who)' = Listed(who) \cup {cur}
<1> DEFINE e == [place |-> cur, size |-> size, hash |-> read, whole |-> whole]
<1>1. who \in Managers /\ cur \in Places /\ e \in Entry
  BY DEF TypeInv, TypeOK, Entry
<1>2. index \in [Managers -> Seq(Entry)]
  BY DEF TypeInv, TypeOK, Entry
<1>3. index' = [index EXCEPT ![who] = Append(@, e)]
  BY DEF List
<1> HIDE DEF e
<1>4. /\ index'[who] = Append(index[who], e)
      /\ index[who] \in Seq(Entry)
      /\ \A m \in Managers : m # who => index'[m] = index[m]
  BY <1>1, <1>2, <1>3
<1>5. /\ Append(index[who], e) \in Seq(Entry)
      /\ Len(Append(index[who], e)) = Len(index[who]) + 1
      /\ \A i \in 1 .. Len(index[who]) : Append(index[who], e)[i] = index[who][i]
      /\ Append(index[who], e)[Len(index[who]) + 1] = e
  BY <1>1, <1>4, AppendProperties
<1>6. index' \in [Managers -> Seq(Entry)]
  BY <1>2, <1>3, <1>4, <1>5
<1>7. /\ DOMAIN index[who] = 1 .. Len(index[who])
      /\ DOMAIN index'[who] = 1 .. Len(index[who]) + 1
      /\ Len(index[who]) \in Nat
  BY <1>4, <1>5, LenProperties
<1>8. {index'[who][i].place : i \in DOMAIN index'[who]} =
      {index[who][i].place : i \in DOMAIN index[who]} \cup {cur}
  BY <1>4, <1>5, <1>7 DEF e
<1>9. who' = who
  BY DEF List
<1> QED
  BY <1>1, <1>4, <1>5, <1>6, <1>8, <1>9 DEF e, Listed

\* However the loop over the blocks ends, the file is listed.
LEMMA HashLists ==
    ASSUME TypeInv, ScanHash \/ ScanHashCut
    PROVE  \E whole \in BOOLEAN :
             /\ pc = "hash" /\ List(whole)
             /\ whole => Len(Stream) <= Len(read)
             /\ changes' \in 0 .. MaxChanges
<1>0. Stream \in Seq(Blocks) /\ Len(Stream) \in Nat /\ Len(read) \in Nat
  <2>1. pc = "hash" /\ who \in Managers /\ cur \in Places /\ read \in Seq(Blocks)
    BY DEF TypeInv, TypeOK, ScanHash, ScanHashCut
  <2>2. Stream \in Versions
    BY <2>1 DEF TypeInv, TypeOK, HeldInv, Contents
  <2> QED
    BY <2>1, <2>2, FileIndexAssumption, LenProperties
<1>1. CASE ScanHash
  <2>1. pc = "hash" /\ List(TRUE) /\ Len(Stream) <= Len(read) /\ changes' = changes
    BY <1>0, <1>1 DEF ScanHash
  <2> QED
    BY <2>1 DEF TypeInv, TypeOK
<1>2. CASE ScanHashCut
  <2>1. /\ pc = "hash" /\ List(FALSE)
        /\ changes < MaxChanges /\ changes' = changes + 1
    BY <1>2 DEF ScanHashCut, Spend
  <2>2. changes' \in 0 .. MaxChanges
    BY <2>1, FileIndexAssumption DEF TypeInv, TypeOK
  <2> QED
    BY <2>1, <2>2
<1> QED
  BY <1>1, <1>2

\* A scan begins with an empty list and with what the directory holds then.
LEMMA BeginClears ==
    ASSUME TypeInv, ScanBegin
    PROVE  /\ who \in Managers
           /\ index' \in [Managers -> Seq(Entry)]
           /\ index'[who] = <<>> /\ Len(index'[who]) = 0
           /\ Listed(who)' = {}
           /\ \A p \in Places : held'[who][p] = {dir[p]}
           /\ complete'[who] = FALSE
           /\ \A m \in Managers : m # who =>
                index'[m] = index[m] /\ held'[m] = held[m] /\ complete'[m] = complete[m]
<1>1. who \in Managers /\ index \in [Managers -> Seq(Entry)]
  BY DEF TypeInv, TypeOK, Entry
<1>2. /\ index' \in [Managers -> Seq(Entry)]
      /\ index'[who] = <<>> /\ Len(index'[who]) = 0
      /\ \A m \in Managers : m # who => index'[m] = index[m]
  BY <1>1, EmptySeq DEF ScanBegin
<1>3. DOMAIN index'[who] = {}
  BY <1>2
<1>4. /\ \A p \in Places : held'[who][p] = {dir[p]}
      /\ complete'[who] = FALSE
      /\ \A m \in Managers : m # who => held'[m] = held[m] /\ complete'[m] = complete[m]
  BY <1>1 DEF TypeInv, TypeOK, ScanBegin, Seen
<1>5. who' = who
  BY DEF ScanBegin
<1> QED
  BY <1>1, <1>2, <1>3, <1>4, <1>5 DEF Listed

\* A file that is written is added to what both managers may have seen.
LEMMA WriteHolds ==
    ASSUME TypeInv, NEW p \in Places, NEW v \in Versions \cup {None}, Write(p, v)
    PROVE  /\ dir' \in [Places -> Versions \cup {None}]
           /\ held' \in [Managers -> [Places -> SUBSET (Versions \cup {None})]]
           /\ \A m \in Managers : \A q \in Places :
                dir'[q] \in held'[m][q] /\ held[m][q] \subseteq held'[m][q]
BY DEF TypeInv, TypeOK, HeldInv, Write

\* What was seen stays seen while more is added to it.
LEMMA HeldGrows ==
    ASSUME TypeInv, UNCHANGED <<pc, who, cur, size, read>>,
           \A m \in Managers : \A q \in Places :
             dir'[q] \in held'[m][q] /\ held[m][q] \subseteq held'[m][q],
           pc = "hash" => Stream' \in Contents(who, cur)'
    PROVE  HeldInv'
<1>1. pc \in {"open", "hash"} => Contents(who, cur) \subseteq Contents(who, cur)'
  BY DEF TypeInv, TypeOK, Contents
<1>2. pc \in {"open", "hash"} => SizeSeen(who, cur, size)'
  <2> SUFFICES ASSUME pc \in {"open", "hash"}
               PROVE  \E v \in Contents(who, cur)' : size = Len(v)
    BY DEF SizeSeen, Contents
  <2>1. \E v \in Contents(who, cur) : size = Len(v)
    BY DEF TypeInv, HeldInv, SizeSeen
  <2> QED
    BY <1>1, <2>1
<1>3. pc = "hash" => BlocksSeen(who, cur, read)'
  <2> SUFFICES ASSUME pc = "hash", NEW i \in DOMAIN read
               PROVE  \E v \in Contents(who, cur)' : i \in DOMAIN v /\ read[i] = v[i]
    BY DEF BlocksSeen, Contents
  <2>1. \E v \in Contents(who, cur) : i \in DOMAIN v /\ read[i] = v[i]
    BY DEF TypeInv, HeldInv, BlocksSeen
  <2> QED
    BY <1>1, <2>1
<1> QED
  BY <1>2, <1>3 DEF HeldInv

-----------------------------------------------------------------------------
(* Type correctness *)

LEMMA TypeInit == Init => TypeInv
BY FileIndexAssumption, EmptySeq
   DEF Init, TypeInv, TypeOK, HeldInv, OnceInv, Scanning, Seen, Managers

\* Every step keeps the types, the ghost and the order of a scan.
LEMMA TypeStep == TypeInv /\ [Next]_vars => TypeInv'
<1> SUFFICES ASSUME TypeInv, [Next]_vars
             PROVE  TypeInv'
  OBVIOUS
<1> USE DEF TypeInv, TypeOK, HeldInv, OnceInv, Scanning, scanVars, Listed, Managers
<1>1. ASSUME ScanBegin
      PROVE  TypeInv'
  <2>1. index' \in [Managers -> Seq(Entry)] /\ Listed(who)' = {}
    BY <1>1, BeginClears
  <2>2. held' \in [Managers -> [Places -> SUBSET (Versions \cup {None})]]
    BY <1>1 DEF ScanBegin, Seen
  <2>3. \A m \in Managers : \A p \in Places : dir[p] \in held'[m][p]
    BY <1>1, BeginClears
  <2>4. /\ pc' = "scan" /\ todo' = Places /\ cur = None
        /\ complete' \in [Managers -> BOOLEAN]
        /\ UNCHANGED <<dir, who, cur, size, read, orphan, sharing, reported, changes>>
    BY <1>1 DEF ScanBegin, fileVars
  <2>5. TypeOK'
    BY <2>1, <2>2, <2>4 DEF Entry
  <2>6. HeldInv'
    BY <2>3, <2>4
  <2>7. OnceInv'
    BY <2>1, <2>4, FileIndexAssumption
  <2> QED
    BY <2>5, <2>6, <2>7
<1>2. ASSUME NEW p \in Places, ScanSkip(p)
      PROVE  TypeInv'
  BY <1>2, FileIndexAssumption DEF ScanSkip, fileVars
<1>3. ASSUME NEW p \in Places, ScanVisit(p)
      PROVE  TypeInv'
  BY <1>3, FileIndexAssumption DEF ScanVisit
<1>4. ASSUME ScanSize
      PROVE  TypeInv'
  <2>1. /\ pc = "size" /\ pc' = "open" /\ dir[cur] # None /\ size' = Len(dir[cur])
        /\ UNCHANGED <<dir, index, who, todo, cur, read, orphan, sharing, reported,
                       changes, held, complete>>
    BY <1>4 DEF ScanSize
  <2>2. dir[cur] \in Versions /\ dir[cur] \in held[who][cur]
    BY <2>1
  <2>3. size' \in Nat
    BY <2>1, <2>2, FileIndexAssumption, LenProperties
  <2>4. TypeOK'
    BY <2>1, <2>3
  <2>5. HeldInv'
    BY <2>1, <2>2 DEF SizeSeen, Contents
  <2>6. OnceInv'
    BY <2>1
  <2> QED
    BY <2>4, <2>5, <2>6
<1>5. ASSUME ScanOpen
      PROVE  TypeInv'
  <2>1. /\ pc = "open" /\ pc' = "hash" /\ dir[cur] # None
        /\ UNCHANGED <<dir, index, who, todo, cur, size, read, orphan, sharing, reported,
                       changes, held, complete>>
    BY <1>5 DEF ScanOpen, fileVars
  <2>2. read = <<>> /\ orphan = None /\ cur \in Places /\ who \in Managers
    BY <2>1
  <2>3. DOMAIN read' = {}
    BY <2>1, <2>2
  <2>4. Stream' = dir[cur] /\ Stream' \in Contents(who, cur)
    BY <2>1, <2>2 DEF Stream, Contents
  <2>5. SizeSeen(who, cur, size)' /\ BlocksSeen(who, cur, read)'
    BY <2>1, <2>3 DEF SizeSeen, BlocksSeen, Contents
  <2>6. HeldInv'
    BY <2>1, <2>4, <2>5 DEF Contents
  <2>7. TypeOK' /\ OnceInv'
    BY <2>1
  <2> QED
    BY <2>6, <2>7
<1>6. ASSUME ScanRead
      PROVE  TypeInv'
  <2> DEFINE k == Len(read) + 1
  <2>1. /\ pc = "hash" /\ Len(read) < Len(Stream)
        /\ read' = Append(read, Stream[k])
        /\ UNCHANGED <<dir, index, pc, who, todo, cur, size, orphan, sharing, reported,
                       changes, held, complete>>
    BY <1>6 DEF ScanRead
  <2>2. /\ Stream \in Contents(who, cur) /\ Stream \in Seq(Blocks) /\ Len(Stream) \in Nat
        /\ DOMAIN Stream = 1 .. Len(Stream)
    <3>1. cur \in Places /\ who \in Managers
      BY <2>1
    <3>2. Stream \in Contents(who, cur) /\ Stream \in Versions
      BY <2>1, <3>1 DEF Contents
    <3> QED
      BY <3>2, FileIndexAssumption, LenProperties
  <2>3. read \in Seq(Blocks) /\ Len(read) \in Nat /\ DOMAIN read = 1 .. Len(read)
    BY LenProperties
  <2>4. k \in DOMAIN Stream /\ Stream[k] \in Blocks
    BY <2>1, <2>2, <2>3, ElementOfSeq
  <2>5. /\ read' \in Seq(Blocks)
        /\ DOMAIN read' = 1 .. k
        /\ \A i \in 1 .. Len(read) : read'[i] = read[i]
        /\ read'[k] = Stream[k]
    <3> HIDE DEF k
    <3>1. /\ Append(read, Stream[k]) \in Seq(Blocks)
          /\ Len(Append(read, Stream[k])) = Len(read) + 1
          /\ \A i \in 1 .. Len(read) : Append(read, Stream[k])[i] = read[i]
          /\ Append(read, Stream[k])[Len(read) + 1] = Stream[k]
      BY <2>3, <2>4, AppendProperties
    <3> QED
      BY <2>1, <3>1, LenProperties DEF k
  <2>6. BlocksSeen(who, cur, read)'
    <3>1. ASSUME NEW i \in DOMAIN read'
          PROVE  \E v \in Contents(who, cur) : i \in DOMAIN v /\ read'[i] = v[i]
      <4>1. CASE i = k
        BY <2>2, <2>4, <2>5, <4>1
      <4>2. CASE i # k
        <5>1. i \in DOMAIN read /\ read'[i] = read[i]
          BY <2>3, <2>5, <4>2
        <5>2. BlocksSeen(who, cur, read)
          BY <2>1
        <5> QED
          BY <5>1, <5>2 DEF BlocksSeen
      <4> QED
        BY <4>1, <4>2
    <3> QED
      BY <2>1, <3>1 DEF BlocksSeen, Contents
  <2>7. HeldInv'
    BY <2>1, <2>2, <2>6 DEF SizeSeen, Contents, Stream
  <2>8. TypeOK' /\ OnceInv'
    BY <2>1, <2>5
  <2> QED
    BY <2>7, <2>8
<1>7. ASSUME ScanHash \/ ScanHashCut
      PROVE  TypeInv'
  <2>0. PICK whole \in BOOLEAN :
          pc = "hash" /\ List(whole) /\ changes' \in 0 .. MaxChanges
    BY <1>7, HashLists
  <2>1. /\ index' \in [Managers -> Seq(Entry)]
        /\ Listed(who)' = Listed(who) \cup {cur}
        /\ cur \in Places
    BY <2>0, ListAppends
  <2>2. /\ pc = "hash" /\ pc' = "scan"
        /\ size' = 0 /\ cur' = None /\ read' = <<>> /\ orphan' = None
        /\ UNCHANGED <<dir, who, todo, sharing, reported, held, complete>>
    BY <2>0 DEF List
  <2>3. TypeOK'
    BY <2>0, <2>1, <2>2, EmptySeq DEF Entry
  <2>4. HeldInv'
    BY <2>2
  <2>5. OnceInv'
    <3>1. \A p \in Listed(who)' : p \in Places
      <4>1. index'[who] \in Seq(Entry)
        BY <2>1
      <4>2. \A i \in DOMAIN index'[who] : index'[who][i] \in Entry
        BY <4>1
      <4> QED
        BY <2>2, <4>2 DEF Listed, Entry
    <3>2. who' = who /\ todo' = todo /\ cur' \notin Places /\ todo \subseteq Places
      BY <2>2, FileIndexAssumption
    <3>3. /\ \A p \in Listed(who) : p \notin todo
          /\ cur \notin todo
      BY <2>2
    <3>4. \A p \in Listed(who)' : p \notin todo
      BY <2>1, <3>3
    <3> HIDE DEF Listed
    <3> QED
      BY <3>1, <3>2, <3>4
  <2> QED
    BY <2>3, <2>4, <2>5
<1>8. ASSUME ScanEnd
      PROVE  TypeInv'
  BY <1>8, FileIndexAssumption DEF ScanEnd, ScanReturns
<1>9. ASSUME ScanStops
      PROVE  TypeInv'
  BY <1>9, FileIndexAssumption DEF ScanStops, ScanReturns
<1>10. ASSUME ScanThrows
      PROVE  TypeInv'
  BY <1>10, FileIndexAssumption DEF ScanThrows
<1>11. ASSUME NEW n \in Names, NEW v \in Versions, Share(n, v)
      PROVE  TypeInv'
  <2>1. /\ dir' \in [Places -> Versions \cup {None}]
        /\ held' \in [Managers -> [Places -> SUBSET (Versions \cup {None})]]
        /\ \A m \in Managers : \A q \in Places : dir'[q] \in held'[m][q]
    <3>1. CASE Slash
      <4>1. Top[n] \in Places /\ Write(Top[n], v)
        BY <1>11, <3>1, FileIndexAssumption DEF Share
      <4> QED
        BY <4>1, WriteHolds
    <3>2. CASE ~Slash
      BY <1>11, <3>2 DEF Share
    <3> QED
      BY <3>1, <3>2
  <2>2. /\ pc = "idle" /\ pc' = "begin" /\ who' = "cli" /\ sharing' = n
        /\ changes < MaxChanges /\ changes' = changes + 1
        /\ UNCHANGED <<index, todo, cur, size, read, orphan, reported, complete>>
    BY <1>11 DEF Share, Spend, fileVars
  <2>3. TypeOK'
    BY <2>1, <2>2, FileIndexAssumption
  <2>4. HeldInv' /\ OnceInv'
    BY <2>1, <2>2
  <2> QED
    BY <2>3, <2>4
<1>12. ASSUME NEW p \in Places, NEW v \in Versions, Overwrite(p, v)
      PROVE  TypeInv'
  <2>1. /\ dir' = [dir EXCEPT ![p] = v]
        /\ dir' \in [Places -> Versions \cup {None}]
        /\ held' \in [Managers -> [Places -> SUBSET (Versions \cup {None})]]
        /\ \A m \in Managers : \A q \in Places :
             dir'[q] \in held'[m][q] /\ held[m][q] \subseteq held'[m][q]
    BY <1>12, WriteHolds DEF Overwrite, Write
  <2>2. /\ changes < MaxChanges /\ changes' = changes + 1
        /\ UNCHANGED <<index, pc, who, todo, cur, size, read, orphan, sharing, reported,
                       complete>>
    BY <1>12 DEF Overwrite, Spend, fileVars
  <2>3. TypeOK'
    BY <2>1, <2>2, FileIndexAssumption
  <2>4. pc = "hash" => Stream' \in Contents(who, cur)'
    <3> SUFFICES ASSUME pc = "hash"
                 PROVE  Stream' \in held'[who][cur] /\ Stream' # None
      BY <2>2 DEF Contents
    <3>1. cur \in Places /\ who \in Managers /\ Stream \in held[who][cur] /\ Stream # None
      BY DEF Contents
    <3>2. v # None
      BY FileIndexAssumption
    <3> QED
      BY <2>1, <2>2, <3>1, <3>2 DEF Stream
  <2>5. HeldInv'
    BY <2>1, <2>2, <2>4, HeldGrows
  <2>6. OnceInv'
    BY <2>2
  <2> QED
    BY <2>3, <2>5, <2>6
<1>13. ASSUME NEW p \in Places, NEW v \in Versions \cup {None}, Replace(p, v)
      PROVE  TypeInv'
  <2>1. /\ dir' = [dir EXCEPT ![p] = v]
        /\ dir' \in [Places -> Versions \cup {None}]
        /\ held' \in [Managers -> [Places -> SUBSET (Versions \cup {None})]]
        /\ \A m \in Managers : \A q \in Places :
             dir'[q] \in held'[m][q] /\ held[m][q] \subseteq held'[m][q]
    BY <1>13, WriteHolds DEF Replace, Write
  <2>2. /\ changes < MaxChanges /\ changes' = changes + 1
        /\ orphan' = IF pc = "hash" /\ p = cur THEN Stream ELSE orphan
        /\ UNCHANGED <<index, pc, who, todo, cur, size, read, sharing, reported,
                       complete>>
    BY <1>13 DEF Replace, Spend
  <2>3. pc = "hash" => /\ cur \in Places /\ who \in Managers /\ Stream \in Versions
                       /\ Stream \in held[who][cur] /\ Stream # None
    BY DEF Contents
  <2>4. TypeOK'
    BY <2>1, <2>2, <2>3, FileIndexAssumption
  <2>5. pc = "hash" => Stream' \in Contents(who, cur)'
    <3> SUFFICES ASSUME pc = "hash"
                 PROVE  Stream' \in held'[who][cur] /\ Stream' # None
      BY <2>2 DEF Contents
    <3>1. Stream' = Stream
      BY <2>1, <2>2, <2>3 DEF Stream
    <3> QED
      BY <2>1, <2>3, <3>1
  <2>6. HeldInv'
    BY <2>1, <2>2, <2>5, HeldGrows
  <2>7. OnceInv'
    BY <2>2
  <2> QED
    BY <2>4, <2>6, <2>7
<1>14. CASE UNCHANGED vars
  BY <1>14, FileIndexAssumption DEF vars, fileVars, Stream, SizeSeen, BlocksSeen, Contents
<1> QED
  BY <1>1, <1>2, <1>3, <1>4, <1>5, <1>6, <1>7, <1>8, <1>9, <1>10, <1>11, <1>12,
     <1>13, <1>14
     DEF Next, Scan

\* Every variable keeps its type, the bound on changes included.
THEOREM TypeCorrect == Spec => []TypeOK
<1>1. TypeInv => TypeOK
  BY DEF TypeInv
<1> QED
  BY <1>1, TypeInit, TypeStep, PTL DEF Spec

-----------------------------------------------------------------------------
(* What is listed was seen *)

LEMMA ListLength ==
    ASSUME TypeInv, NEW m \in Managers
    PROVE  /\ Len(index[m]) \in Nat /\ DOMAIN index[m] = 1 .. Len(index[m])
           /\ \A i \in 1 .. Len(index[m]) : index[m][i] \in Entry
BY LenProperties, ElementOfSeq DEF TypeInv, TypeOK, Entry

\* ListedAsSeen of one entry, and of one manager, by positions of its list.
EntrySeen(m, e) ==
    /\ SizeSeen(m, e.place, e.size)
    /\ BlocksSeen(m, e.place, e.hash)
    /\ e.whole => \E v \in Contents(m, e.place) : Len(v) <= Len(e.hash)

SeenBy(m) ==
    /\ \A i \in 1 .. Len(index[m]) : EntrySeen(m, index[m][i])
    /\ \A i, j \in 1 .. Len(index[m]) : index[m][i].place = index[m][j].place => i = j

LEMMA SeenInList == TypeInv => (ListedAsSeen <=> \A m \in Managers : SeenBy(m))
<1> SUFFICES ASSUME TypeInv
             PROVE  ListedAsSeen <=> \A m \in Managers : SeenBy(m)
  OBVIOUS
<1>1. \A m \in Managers : DOMAIN index[m] = 1 .. Len(index[m])
  BY ListLength
<1>2. \A m \in Managers :
        (\A e \in Entries(m) : EntrySeen(m, e)) <=>
        (\A i \in 1 .. Len(index[m]) : EntrySeen(m, index[m][i]))
  BY <1>1 DEF Entries
<1>3. ListedAsSeen <=>
        \A m \in Managers :
          /\ \A e \in Entries(m) : EntrySeen(m, e)
          /\ \A i, j \in DOMAIN index[m] :
               index[m][i].place = index[m][j].place => i = j
  BY DEF ListedAsSeen, EntrySeen, SizeSeen, BlocksSeen
<1> QED
  BY <1>1, <1>2, <1>3 DEF SeenBy

LEMMA SeenInNextList == TypeInv' => (ListedAsSeen' <=> \A m \in Managers : SeenBy(m)')
<1> DEFINE SeenByAll == \A m \in Managers : SeenBy(m)
<1>1. TypeInv => (ListedAsSeen <=> SeenByAll)
  BY SeenInList
<1> HIDE DEF SeenByAll
<1>2. TypeInv' => (ListedAsSeen' <=> SeenByAll')
  BY <1>1, PTL
<1> QED
  BY <1>2 DEF SeenByAll

\* A step that lists nothing.
LEMMA SeenKept ==
    ASSUME TypeInv, TypeInv', ListedAsSeen, UNCHANGED index,
           \A m \in Managers : \A p \in Places : held[m][p] \subseteq held'[m][p]
    PROVE  ListedAsSeen'
<1>1. \A m \in Managers : SeenBy(m)
  BY SeenInList
<1>2. ASSUME NEW m \in Managers
      PROVE  SeenBy(m)'
  <2>1. ASSUME NEW i \in 1 .. Len(index[m])
        PROVE  EntrySeen(m, index[m][i])'
    <3> DEFINE e == index[m][i]
    <3>1. e.place \in Places /\ index'[m][i] = e
      BY ListLength DEF Entry
    <3>2. EntrySeen(m, e)
      BY <1>1 DEF SeenBy
    <3>3. Contents(m, e.place) \subseteq held'[m][e.place] \ {None}
      BY <3>1 DEF Contents
    <3> HIDE DEF e
    <3>4. \E v \in held'[m][e.place] \ {None} : e.size = Len(v)
      BY <3>2, <3>3 DEF EntrySeen, SizeSeen
    <3>5. \A k \in DOMAIN e.hash :
            \E v \in held'[m][e.place] \ {None} : k \in DOMAIN v /\ e.hash[k] = v[k]
      BY <3>2, <3>3 DEF EntrySeen, BlocksSeen
    <3>6. e.whole => \E v \in held'[m][e.place] \ {None} : Len(v) <= Len(e.hash)
      BY <3>2, <3>3 DEF EntrySeen
    <3> QED
      BY <3>1, <3>4, <3>5, <3>6 DEF EntrySeen, SizeSeen, BlocksSeen, Contents
  <2> QED
    BY <1>1, <2>1 DEF SeenBy
<1> QED
  BY <1>2, SeenInNextList

\* Every step keeps what is listed among what was seen, and each place once.
LEMMA SeenStep == TypeInv /\ TypeInv' /\ ListedAsSeen /\ [Next]_vars => ListedAsSeen'
<1> SUFFICES ASSUME TypeInv, TypeInv', ListedAsSeen, [Next]_vars
             PROVE  ListedAsSeen'
  OBVIOUS
<1>1. ASSUME ScanBegin
      PROVE  ListedAsSeen'
  <2>1. ASSUME NEW m \in Managers
        PROVE  SeenBy(m)'
    <3>1. CASE m = who
      BY <1>1, <3>1, BeginClears DEF SeenBy
    <3>2. CASE m # who
      <4>1. index'[m] = index[m] /\ held'[m] = held[m]
        BY <1>1, <3>2, BeginClears
      <4>2. SeenBy(m)
        BY SeenInList
      <4> QED
        BY <4>1, <4>2 DEF SeenBy, EntrySeen, SizeSeen, BlocksSeen, Contents
    <3> QED
      BY <3>1, <3>2
  <2> QED
    BY <2>1, SeenInNextList
<1>2. ASSUME NEW p \in Places, ScanSkip(p)
      PROVE  ListedAsSeen'
  BY <1>2, SeenKept DEF ScanSkip
<1>3. ASSUME NEW p \in Places, ScanVisit(p)
      PROVE  ListedAsSeen'
  BY <1>3, SeenKept DEF ScanVisit
<1>4. ASSUME ScanSize
      PROVE  ListedAsSeen'
  BY <1>4, SeenKept DEF ScanSize
<1>5. ASSUME ScanOpen
      PROVE  ListedAsSeen'
  BY <1>5, SeenKept DEF ScanOpen
<1>6. ASSUME ScanRead
      PROVE  ListedAsSeen'
  BY <1>6, SeenKept DEF ScanRead
<1>7. ASSUME ScanHash \/ ScanHashCut
      PROVE  ListedAsSeen'
  <2>0. PICK whole \in BOOLEAN :
          pc = "hash" /\ List(whole) /\ (whole => Len(Stream) <= Len(read))
    BY <1>7, HashLists
  <2>1. /\ UNCHANGED <<held, who>>
        /\ who \in Managers /\ cur \in Places
    BY <2>0, ListAppends DEF List
  <2>a. /\ Len(index'[who]) = Len(index[who]) + 1
        /\ \A i \in 1 .. Len(index[who]) : index'[who][i] = index[who][i]
        /\ index'[who][Len(index[who]) + 1] =
             [place |-> cur, size |-> size, hash |-> read, whole |-> whole]
        /\ \A m \in Managers : m # who => index'[m] = index[m]
    BY <2>0, ListAppends
  <2>2. ASSUME NEW m \in Managers
        PROVE  SeenBy(m)'
    <3>1. CASE m = who
      <4>1. ASSUME NEW i \in 1 .. Len(index'[m])
            PROVE  EntrySeen(m, index[m][i])'
        <5>1. CASE i = Len(index[m]) + 1
          <6>1. index'[m][i] = [place |-> cur, size |-> size, hash |-> read, whole |-> whole]
            BY <2>a, <3>1, <5>1
          <6>2. /\ SizeSeen(m, cur, size) /\ BlocksSeen(m, cur, read)
                /\ whole => \E v \in Contents(m, cur) : Len(v) <= Len(read)
            BY <2>0, <3>1 DEF TypeInv, HeldInv
          <6> QED
            BY <2>1, <6>1, <6>2 DEF EntrySeen, SizeSeen, BlocksSeen, Contents
        <5>2. CASE i # Len(index[m]) + 1
          <6>1. i \in 1 .. Len(index[m]) /\ index'[m][i] = index[m][i]
            BY <2>a, <3>1, <5>2, ListLength
          <6>2. EntrySeen(m, index[m][i])
            BY <6>1, SeenInList DEF SeenBy
          <6> QED
            BY <2>1, <6>1, <6>2 DEF EntrySeen, SizeSeen, BlocksSeen, Contents
        <5> QED
          BY <5>1, <5>2
      <4>2. ASSUME NEW i \in 1 .. Len(index'[m]), NEW j \in 1 .. Len(index'[m]),
                   index'[m][i].place = index'[m][j].place
            PROVE  i = j
        <5>1. \A k \in 1 .. Len(index[m]) : index[m][k].place \in Listed(m)
          BY ListLength DEF Listed
        <5>2. \A k \in 1 .. Len(index[m]) : index'[m][k].place # cur
          BY <2>0, <2>a, <2>1, <3>1, <5>1 DEF TypeInv, OnceInv, Scanning
        <5>3. index'[m][Len(index[m]) + 1].place = cur /\ Len(index[m]) \in Nat
              /\ Len(index'[m]) = Len(index[m]) + 1
          BY <2>a, <3>1, ListLength
        <5>4. \A k \in 1 .. Len(index[m]) : index'[m][k] = index[m][k]
          BY <2>a, <3>1
        <5>5. \A k, l \in 1 .. Len(index[m]) : index[m][k].place = index[m][l].place => k = l
          BY SeenInList DEF SeenBy
        <5>6. CASE i = Len(index[m]) + 1
          BY <4>2, <5>2, <5>3, <5>6
        <5>7. CASE j = Len(index[m]) + 1
          BY <4>2, <5>2, <5>3, <5>7
        <5>8. CASE i \in 1 .. Len(index[m]) /\ j \in 1 .. Len(index[m])
          BY <4>2, <5>4, <5>5, <5>8
        <5> QED
          BY <5>3, <5>6, <5>7, <5>8
      <4> QED
        BY <2>1, <4>1, <4>2 DEF SeenBy
    <3>2. CASE m # who
      <4>1. index'[m] = index[m]
        BY <2>a, <3>2
      <4>2. SeenBy(m)
        BY SeenInList
      <4> QED
        BY <2>1, <4>1, <4>2 DEF SeenBy, EntrySeen, SizeSeen, BlocksSeen, Contents
    <3> QED
      BY <3>1, <3>2
  <2> QED
    BY <2>2, SeenInNextList
<1>8. ASSUME ScanEnd
      PROVE  ListedAsSeen'
  BY <1>8, SeenKept DEF ScanEnd, ScanReturns
<1>9. ASSUME ScanStops
      PROVE  ListedAsSeen'
  BY <1>9, SeenKept DEF ScanStops, ScanReturns
<1>10. ASSUME ScanThrows
      PROVE  ListedAsSeen'
  BY <1>10, SeenKept DEF ScanThrows
<1>11. ASSUME NEW n \in Names, NEW v \in Versions, Share(n, v)
      PROVE  ListedAsSeen'
  <2>1. CASE Slash
    <3>1. Top[n] \in Places /\ Write(Top[n], v) /\ UNCHANGED index
      BY <1>11, <2>1, FileIndexAssumption DEF Share
    <3> QED
      BY <3>1, WriteHolds, SeenKept
  <2>2. CASE ~Slash
    BY <1>11, <2>2, SeenKept DEF Share
  <2> QED
    BY <2>1, <2>2
<1>12. ASSUME NEW p \in Places, NEW v \in Versions, Overwrite(p, v)
      PROVE  ListedAsSeen'
  BY <1>12, WriteHolds, SeenKept DEF Overwrite
<1>13. ASSUME NEW p \in Places, NEW v \in Versions \cup {None}, Replace(p, v)
      PROVE  ListedAsSeen'
  BY <1>13, WriteHolds, SeenKept DEF Replace
<1>14. CASE UNCHANGED vars
  BY <1>14, SeenKept DEF vars
<1> QED
  BY <1>1, <1>2, <1>3, <1>4, <1>5, <1>6, <1>7, <1>8, <1>9, <1>10, <1>11, <1>12,
     <1>13, <1>14
     DEF Next, Scan

\* However other programs overwrite, replace and remove files while a scan reads
\* them block by block: a manager lists a place once, with a size that the file
\* there has had since its last scan began, and a hash of blocks each of which
\* was in it at that position.
THEOREM ListCorrect == Spec => []ListedAsSeen
<1>1. Init => ListedAsSeen
  BY DEF Init, ListedAsSeen, Entries
<1> QED
  BY <1>1, TypeInit, TypeStep, SeenStep, PTL DEF Spec

\* An entry of a file that kept one content, and was read to its end, is of it.
LEMMA OneContent ==
    ASSUME TypeInv, NEW m \in Managers, NEW e \in Entries(m), EntrySeen(m, e), e.whole,
           held[m][e.place] = {dir[e.place]}
    PROVE  dir[e.place] # None /\ e.size = Len(dir[e.place]) /\ e.hash = dir[e.place]
<1> DEFINE v == dir[e.place]
<1>1. e \in Entry
  BY ListLength DEF Entries
<1>2. v # None /\ Contents(m, e.place) = {v}
  BY DEF EntrySeen, SizeSeen, Contents
<1>3. e.place \in Places /\ v \in Versions /\ v \in Seq(Blocks) /\ e.hash \in Seq(Blocks)
  BY <1>1, <1>2, FileIndexAssumption DEF Entry, TypeInv, TypeOK
<1> HIDE DEF v
<1>4. e.size = Len(v) /\ Len(v) <= Len(e.hash)
  BY <1>2 DEF EntrySeen, SizeSeen
<1>5. \A i \in DOMAIN e.hash : i \in DOMAIN v /\ e.hash[i] = v[i]
  BY <1>2 DEF EntrySeen, BlocksSeen
<1>6. /\ Len(v) \in Nat /\ DOMAIN v = 1 .. Len(v)
      /\ Len(e.hash) \in Nat /\ DOMAIN e.hash = 1 .. Len(e.hash)
  BY <1>3, LenProperties
<1>7. Len(e.hash) = Len(v)
  <2>1. Len(e.hash) <= Len(v)
    <3>1. CASE Len(e.hash) = 0
      BY <1>6, <3>1
    <3>2. CASE Len(e.hash) # 0
      <4>1. Len(e.hash) \in DOMAIN e.hash
        BY <1>6, <3>2
      <4> QED
        BY <1>5, <1>6, <4>1
    <3> QED
      BY <3>1, <3>2
  <2> QED
    BY <1>4, <1>6, <2>1
<1>8. e.hash = v
  BY <1>3, <1>5, <1>6, <1>7, SeqEqual
<1> QED
  BY <1>2, <1>4, <1>8 DEF v

\* Who requests a listed name that no other entry has, of a file that was read to
\* its end and did not change since the scan began, is sent that file, and its
\* size and hash agree.
THEOREM SentCorrect == Spec => []SentAsListed
<1>1. TypeInv /\ ListedAsSeen => SentAsListed
  <2> SUFFICES ASSUME TypeInv, ListedAsSeen, NEW e \in Entries("server"),
                      held["server"][e.place] = {dir[e.place]}, e.whole,
                      \A f \in Entries("server") : NameOf[f.place] = NameOf[e.place] => f = e
               PROVE  Sends(NameOf[e.place]) = e.hash /\ Len(e.hash) = e.size
    BY DEF SentAsListed
  <2> DEFINE list == index["server"]
             matches == Matches("server", NameOf[e.place])
  <2>1. "server" \in Managers
    BY DEF Managers
  <2>2. PICK i \in DOMAIN list : e = list[i]
    BY DEF Entries
  <2>3. e.size = Len(dir[e.place]) /\ e.hash = dir[e.place]
    <3>1. EntrySeen("server", e)
      BY <2>1 DEF ListedAsSeen, EntrySeen, SizeSeen, BlocksSeen
    <3> QED
      BY <2>1, <3>1, OneContent
  <2>4. matches = {i}
    <3>1. i \in matches
      BY <2>2 DEF Matches
    <3>2. ASSUME NEW j \in matches
          PROVE  j = i
      <4>1. j \in DOMAIN list /\ NameOf[list[j].place] = NameOf[e.place]
        BY DEF Matches
      <4>2. list[j] \in Entries("server")
        BY <4>1 DEF Entries
      <4>3. list[j] = e
        BY <4>1, <4>2
      <4> QED
        BY <2>1, <2>2, <4>1, <4>3 DEF ListedAsSeen
    <3> QED
      BY <3>1, <3>2
  <2>5. First(matches) = i
    <3>1. i \in Nat
      BY <2>1, <2>2, ListLength
    <3> HIDE DEF matches
    <3> QED
      BY <2>4, <3>1 DEF First
  <2>6. Sends(NameOf[e.place]) = dir[e.place]
    BY <2>2, <2>4, <2>5 DEF Sends
  <2> QED
    BY <2>3, <2>6
<1>2. Init => ListedAsSeen
  BY DEF Init, ListedAsSeen, Entries
<1> QED
  BY <1>1, <1>2, TypeInit, TypeStep, SeenStep, PTL DEF Spec

-----------------------------------------------------------------------------
(* A scan that reaches its end has listed everything *)

\* A step that neither lists nor forgets anything.
LEMMA CoverKept ==
    ASSUME CoverInv, UNCHANGED <<index, complete>>,
           \A m \in Managers : \A p \in Places : held[m][p] \subseteq held'[m][p]
    PROVE  /\ \A m \in Managers : Listed(m)' = Listed(m)
           /\ \A m \in Managers : \A p \in Places : Missed(m, p)' => Missed(m, p)
           /\ \A m \in Managers : \A p \in Listed(m)' : NameOf[p] \in Valid
           /\ \A m \in Managers : complete'[m] => \A p \in Places : ~Missed(m, p)'
<1>1. \A m \in Managers : Listed(m)' = Listed(m)
  BY DEF Listed
<1>2. \A m \in Managers : \A p \in Places : Missed(m, p)' => Missed(m, p)
  BY <1>1 DEF Missed
<1> QED
  BY <1>1, <1>2 DEF CoverInv

\* No step drops a place from a scan that goes on to its end.
LEMMA CoverStep == TypeInv /\ CoverInv /\ [Next]_vars => CoverInv'
<1> SUFFICES ASSUME TypeInv, CoverInv, [Next]_vars
             PROVE  CoverInv'
  OBVIOUS
<1>1. ASSUME ScanBegin
      PROVE  CoverInv'
  <2>1. pc' = "scan" /\ todo' = Places /\ who' = who /\ cur' = cur
    BY <1>1 DEF ScanBegin, fileVars
  <2>2. ASSUME NEW m \in Managers, m # who
        PROVE  /\ Listed(m)' = Listed(m)
               /\ \A p \in Places : Missed(m, p)' <=> Missed(m, p)
               /\ complete'[m] = complete[m]
    <3>1. Listed(m)' = Listed(m)
      BY <1>1, <2>2, BeginClears DEF Listed
    <3> QED
      BY <1>1, <2>2, <3>1, BeginClears DEF Missed
  <2>3. who \in Managers /\ Listed(who)' = {} /\ complete'[who] = FALSE
    BY <1>1, BeginClears
  <2>4. \A m \in Managers : \A p \in Listed(m)' : NameOf[p] \in Valid
    <3> SUFFICES ASSUME NEW m \in Managers, NEW p \in Listed(m)'
                 PROVE  NameOf[p] \in Valid
      OBVIOUS
    <3>1. m # who /\ p \in Listed(m)
      BY <2>1, <2>2, <2>3 DEF Listed
    <3> QED
      BY <3>1 DEF CoverInv
  <2>5. \A m \in Managers : complete'[m] => \A p \in Places : ~Missed(m, p)'
    BY <2>2, <2>3 DEF CoverInv
  <2> QED
    BY <2>1, <2>3, <2>4, <2>5 DEF CoverInv, Scanning
<1>2. ASSUME NEW p \in Places, ScanSkip(p)
      PROVE  CoverInv'
  <2>1. /\ pc = "scan" /\ todo' = todo \ {p} /\ p \in todo
        /\ dir[p] = None \/ NameOf[p] \notin Valid
        /\ UNCHANGED <<index, pc, who, cur, held, complete>>
    BY <1>2 DEF ScanSkip, fileVars
  <2>2. who \in Managers /\ ~Missed(who, p)
    BY <2>1 DEF TypeInv, TypeOK, HeldInv, Missed
  <2> QED
    BY <2>1, <2>2, CoverKept DEF CoverInv, Scanning
<1>3. ASSUME NEW p \in Places, ScanVisit(p)
      PROVE  CoverInv'
  <2>1. /\ pc = "scan" /\ pc' = "size" /\ todo' = todo \ {p} /\ cur' = p
        /\ NameOf[p] \in Valid
        /\ UNCHANGED <<index, who, held, complete>>
    BY <1>3 DEF ScanVisit
  <2>2. who \in Managers /\ cur = None
    BY <2>1 DEF TypeInv, TypeOK
  <2>3. \A q \in Places : q # None
    BY FileIndexAssumption
  <2> QED
    BY <2>1, <2>2, <2>3, CoverKept DEF CoverInv, Scanning
<1>4. ASSUME ScanSize
      PROVE  CoverInv'
  <2>1. pc = "size" /\ pc' = "open" /\ UNCHANGED <<index, who, todo, cur, held, complete>>
    BY <1>4 DEF ScanSize
  <2> QED
    BY <2>1, CoverKept DEF CoverInv, Scanning, TypeInv, TypeOK
<1>5. ASSUME ScanOpen
      PROVE  CoverInv'
  <2>1. pc = "open" /\ pc' = "hash" /\ UNCHANGED <<index, who, todo, cur, held, complete>>
    BY <1>5 DEF ScanOpen, scanVars, fileVars
  <2> QED
    BY <2>1, CoverKept DEF CoverInv, Scanning, TypeInv, TypeOK
<1>6. ASSUME ScanRead
      PROVE  CoverInv'
  <2>1. UNCHANGED <<pc, index, who, todo, cur, held, complete>>
    BY <1>6 DEF ScanRead
  <2> QED
    BY <2>1, CoverKept DEF CoverInv, Scanning, TypeInv, TypeOK
<1>7. ASSUME ScanHash \/ ScanHashCut
      PROVE  CoverInv'
  <2>0. PICK whole \in BOOLEAN : pc = "hash" /\ List(whole)
    BY <1>7, HashLists
  <2>1. /\ pc = "hash" /\ pc' = "scan" /\ cur' = None
        /\ UNCHANGED <<who, todo, held, complete>>
    BY <2>0 DEF List
  <2>2. who \in Managers /\ Listed(who)' = Listed(who) \cup {cur}
    BY <2>0, ListAppends
  <2>3. \A m \in Managers : m # who => Listed(m)' = Listed(m)
    BY <2>0, ListAppends DEF Listed
  <2>4. \A m \in Managers : \A p \in Places : Missed(m, p)' => Missed(m, p)
    <3> SUFFICES ASSUME NEW m \in Managers, NEW p \in Places, Missed(m, p)'
                 PROVE  Missed(m, p)
      OBVIOUS
    <3>1. Listed(m) \subseteq Listed(m)'
      <4>1. CASE m = who
        BY <2>1, <2>2, <4>1 DEF Listed
      <4>2. CASE m # who
        BY <2>3, <4>2
      <4> QED
        BY <4>1, <4>2
    <3> QED
      BY <2>1, <3>1 DEF Missed
  <2>5. \A p \in Places : Missed(who, p)' => p # cur
    BY <2>1, <2>2 DEF Missed, Listed
  <2>6. \A m \in Managers : \A p \in Listed(m)' : NameOf[p] \in Valid
    <3> SUFFICES ASSUME NEW m \in Managers, NEW p \in Listed(m)'
                 PROVE  NameOf[p] \in Valid
      OBVIOUS
    <3>1. CASE m = who
      <4>1. p \in Listed(m) \/ p = cur
        BY <2>1, <2>2, <3>1 DEF Listed
      <4> QED
        BY <2>1, <4>1 DEF CoverInv
    <3>2. CASE m # who
      BY <2>3, <3>2 DEF CoverInv
    <3> QED
      BY <3>1, <3>2
  <2>7. \A p \in Places : Missed(who, p)' => p \in todo
    BY <2>1, <2>2, <2>4, <2>5 DEF CoverInv, Scanning
  <2> QED
    BY <2>1, <2>2, <2>4, <2>6, <2>7 DEF CoverInv, Scanning
<1>8. ASSUME ScanEnd
      PROVE  CoverInv'
  <2>1. /\ pc = "scan" /\ todo = {} /\ pc' \in {"begin", "idle"}
        /\ complete' = [complete EXCEPT ![who] = TRUE]
        /\ UNCHANGED <<index, held>>
    BY <1>8 DEF ScanEnd, ScanReturns
  <2>2. /\ who \in Managers /\ cur = None
        /\ \A m \in Managers : m # who => complete'[m] = complete[m]
    BY <2>1 DEF TypeInv, TypeOK
  <2>3. \A p \in Places : ~Missed(who, p)
    BY <2>1, <2>2, FileIndexAssumption DEF CoverInv, Scanning
  <2>4. \A m \in Managers : Listed(m)' = Listed(m)
    BY <2>1 DEF Listed
  <2>5. \A m \in Managers : \A p \in Places : Missed(m, p)' <=> Missed(m, p)
    BY <2>1, <2>4 DEF Missed
  <2>6. \A m \in Managers : complete'[m] => \A p \in Places : ~Missed(m, p)'
    BY <2>2, <2>3, <2>5 DEF CoverInv
  <2>7. \A m \in Managers : \A p \in Listed(m)' : NameOf[p] \in Valid
    BY <2>4 DEF CoverInv
  <2> QED
    BY <2>1, <2>6, <2>7 DEF CoverInv, Scanning
<1>9. ASSUME ScanStops
      PROVE  CoverInv'
  <2>1. pc' \in {"begin", "idle"} /\ UNCHANGED <<index, held, complete>>
    BY <1>9 DEF ScanStops, ScanReturns
  <2> QED
    BY <2>1, CoverKept DEF CoverInv, Scanning
<1>10. ASSUME ScanThrows
      PROVE  CoverInv'
  <2>1. pc' \in {"fatal", "idle"} /\ UNCHANGED <<index, held, complete>>
    BY <1>10 DEF ScanThrows
  <2> QED
    BY <2>1, CoverKept DEF CoverInv, Scanning
<1>11. ASSUME NEW n \in Names, NEW v \in Versions, Share(n, v)
      PROVE  CoverInv'
  <2>1. pc' = "begin" /\ UNCHANGED <<index, complete>>
    BY <1>11 DEF Share
  <2>2. \A m \in Managers : \A p \in Places : held[m][p] \subseteq held'[m][p]
    <3>1. CASE Slash
      <4>1. Top[n] \in Places /\ Write(Top[n], v)
        BY <1>11, <3>1, FileIndexAssumption DEF Share
      <4> QED
        BY <4>1, WriteHolds
    <3>2. CASE ~Slash
      BY <1>11, <3>2 DEF Share
    <3> QED
      BY <3>1, <3>2
  <2> QED
    BY <2>1, <2>2, CoverKept DEF CoverInv, Scanning
<1>12. ASSUME NEW p \in Places, NEW v \in Versions, Overwrite(p, v)
      PROVE  CoverInv'
  <2>1. UNCHANGED <<index, complete, pc, who, todo, cur>>
    BY <1>12 DEF Overwrite, scanVars, fileVars
  <2>2. \A m \in Managers : \A q \in Places : held[m][q] \subseteq held'[m][q]
    BY <1>12, WriteHolds DEF Overwrite
  <2>3. who \in Managers
    BY DEF TypeInv, TypeOK
  <2> QED
    BY <2>1, <2>2, <2>3, CoverKept DEF CoverInv, Scanning
<1>13. ASSUME NEW p \in Places, NEW v \in Versions \cup {None}, Replace(p, v)
      PROVE  CoverInv'
  <2>1. UNCHANGED <<index, complete, pc, who, todo, cur>>
    BY <1>13 DEF Replace, scanVars, fileVars
  <2>2. \A m \in Managers : \A q \in Places : held[m][q] \subseteq held'[m][q]
    BY <1>13, WriteHolds DEF Replace
  <2>3. who \in Managers
    BY DEF TypeInv, TypeOK
  <2> QED
    BY <2>1, <2>2, <2>3, CoverKept DEF CoverInv, Scanning
<1>14. CASE UNCHANGED vars
  <2>1. UNCHANGED <<index, complete, held, pc, who, todo, cur>>
    BY <1>14 DEF vars, scanVars, fileVars
  <2>2. who \in Managers
    BY DEF TypeInv, TypeOK
  <2> QED
    BY <2>1, <2>2, CoverKept DEF CoverInv, Scanning
<1> QED
  BY <1>1, <1>2, <1>3, <1>4, <1>5, <1>6, <1>7, <1>8, <1>9, <1>10, <1>11, <1>12,
     <1>13, <1>14
     DEF Next, Scan

\* A scan that reached its end, of a directory that did not change meanwhile nor
\* since, without a read that failed, has listed exactly the shareable files, each with its size and hash.
THEOREM QuietScanCorrect == Spec => []QuietScanComplete
<1>1. Init => ListedAsSeen /\ CoverInv
  BY DEF Init, ListedAsSeen, Entries, CoverInv, Scanning, Listed, Managers
<1>2. TypeInv /\ ListedAsSeen /\ CoverInv => QuietScanComplete
  <2> SUFFICES ASSUME TypeInv, ListedAsSeen, CoverInv, NEW m \in Managers, complete[m],
                      \A p \in Places : held[m][p] = {dir[p]},
                      \A e \in Entries(m) : e.whole
               PROVE  Entries(m) =
                        {[place |-> p, size |-> Len(dir[p]), hash |-> dir[p],
                          whole |-> TRUE] :
                           p \in {q \in Places : dir[q] # None /\ NameOf[q] \in Valid}}
    BY DEF QuietScanComplete
  <2> DEFINE Shareable == {q \in Places : dir[q] # None /\ NameOf[q] \in Valid}
             Shown(p) == [place |-> p, size |-> Len(dir[p]), hash |-> dir[p], whole |-> TRUE]
  <2>1. ASSUME NEW e \in Entries(m)
        PROVE  e.place \in Shareable /\ e = Shown(e.place)
    <3>1. e \in Entry /\ e.place \in Listed(m)
      BY ListLength DEF Entries, Listed
    <3>2. e.place \in Places /\ e.whole /\ EntrySeen(m, e)
      BY <3>1 DEF Entry, ListedAsSeen, EntrySeen, SizeSeen, BlocksSeen
    <3>3. dir[e.place] # None /\ e.size = Len(dir[e.place]) /\ e.hash = dir[e.place]
      BY <3>2, OneContent
    <3>4. dir[e.place] # None /\ NameOf[e.place] \in Valid
      BY <3>1, <3>2, <3>3 DEF CoverInv
    <3> QED
      BY <3>1, <3>2, <3>3, <3>4 DEF Entry
  <2>2. ASSUME NEW p \in Shareable
        PROVE  Shown(p) \in Entries(m)
    <3>1. p \in Listed(m)
      BY DEF CoverInv, Missed
    <3>2. PICK e \in Entries(m) : e.place = p
      BY <3>1 DEF Listed, Entries
    <3> QED
      BY <2>1, <3>2
  <2> HIDE DEF Shown
  <2>3. Entries(m) = {Shown(p) : p \in Shareable}
    BY <2>1, <2>2
  <2> QED
    BY <2>3 DEF Shown
<1> QED
  BY <1>1, <1>2, TypeInit, TypeStep, SeenStep, CoverStep, PTL DEF Spec
=============================================================================
