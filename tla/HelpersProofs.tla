---------------------------- MODULE HelpersProofs ----------------------------
(***************************************************************************)
(* The helpers between an answer of the proxy and an agent, for data of    *)
(* any size: the echo of a write, for documents of any depth and every     *)
(* order of the walk, and the cut of a listing, for any number of pages.   *)
(*                                                                         *)
(* What a recursive function computes is proved without induction over its *)
(* argument: a function with its equation exists (a largest argument up to *)
(* which it does can be extended), and a smallest place at which it does   *)
(* not have a property does not exist.                                     *)
(***************************************************************************)
EXTENDS ListPages, WriteEcho, FiniteSetTheorems, SequenceTheorems,
        WellFoundedInduction, TLAPS

-----------------------------------------------------------------------------
(***************************************************************************)
(* Numbers                                                                 *)
(***************************************************************************)

\* A non-empty set of numbers from 0 on has a smallest one.
LEMMA HasSmallest ==
    ASSUME NEW S \in SUBSET Nat, S # {}
    PROVE  \E m \in S : \A k \in S : ~(k < m)
<1> DEFINE R == {ss \in Nat \X Nat : ss[1] < ss[2]}
<1>1. IsWellFoundedOn(R, Nat)
  BY NatLessThanWellFounded, Zenon DEF OpToRel
<1>2. PICK m \in S : \A k \in S : ~(<<k, m>> \in R)
  <2> HIDE DEF R
  <2> QED
    BY <1>1, WFMin
<1>3. \A k \in S : k < m => <<k, m>> \in R
  OBVIOUS
<1> QED
  BY <1>2, <1>3

-----------------------------------------------------------------------------
(***************************************************************************)
(* The way down a path                                                     *)
(***************************************************************************)

\* d has the defining equation of Way's function for the first n keys.
IsWay(doc, path, n, d) ==
    d = [i \in 0..n |-> IF i = 0 THEN doc ELSE d[i - 1][path[i]]]

\* There is such a function: one more key extends the function by one value.
LEMMA WayExists ==
    ASSUME NEW doc, NEW path, NEW n \in Nat
    PROVE  \E d : IsWay(doc, path, n, d)
<1> DEFINE S == {m \in Nat : ~\E d : IsWay(doc, path, m, d)}
<1> SUFFICES ASSUME S # {} PROVE FALSE
  OBVIOUS
<1>1. PICK m \in S : \A k \in S : ~(k < m)
  <2>1. S \in SUBSET Nat
    OBVIOUS
  <2> HIDE DEF S
  <2> QED
    BY <2>1, HasSmallest
<1>2. m # 0
  <2>1. IsWay(doc, path, 0, [i \in 0..0 |-> doc])
    BY DEF IsWay
  <2> QED
    BY <2>1
<1>3. PICK d : IsWay(doc, path, m - 1, d)
  BY <1>1, <1>2
<1> DEFINE e == [i \in 0..m |-> IF i = m THEN d[m - 1][path[m]] ELSE d[i]]
<1>4. ASSUME NEW i \in 0..m PROVE e[i] = IF i = 0 THEN doc ELSE e[i - 1][path[i]]
  <2>1. CASE i = 0
    BY <1>2, <1>3, <2>1 DEF IsWay
  <2>2. CASE i # 0 /\ i # m
    <3>1. d[i] = d[i - 1][path[i]]
      BY <1>3, <2>2 DEF IsWay
    <3>2. e[i] = d[i] /\ e[i - 1] = d[i - 1]
      BY <2>2
    <3> QED
      BY <2>2, <3>1, <3>2
  <2>3. CASE i = m
    <3>1. e[i] = d[m - 1][path[m]] /\ e[i - 1] = d[m - 1]
      BY <1>2, <2>3
    <3> QED
      BY <1>2, <2>3, <3>1
  <2> QED
    BY <2>1, <2>2, <2>3
<1>5. IsWay(doc, path, m, e)
  <2>1. e = [i \in 0..m |-> e[i]]
    OBVIOUS
  <2> HIDE DEF e
  <2> QED
    BY <1>4, <2>1 DEF IsWay
<1> QED
  BY <1>1, <1>5

\* Way is the function it is defined to be.
LEMMA WayIs ==
    ASSUME NEW doc, NEW path \in Seq(Keys)
    PROVE  IsWay(doc, path, Len(path), Way(doc, path))
<1>1. Way(doc, path) = CHOOSE d : IsWay(doc, path, Len(path), d)
  BY DEF Way, IsWay
<1>2. \E d : IsWay(doc, path, Len(path), d)
  <2>1. Len(path) \in Nat
    OBVIOUS
  <2> QED
    BY <2>1, WayExists
<1> QED
  BY <1>1, <1>2

\* It starts at the document, and every key leads one level down.
LEMMA WaySteps ==
    ASSUME NEW doc, NEW path \in Seq(Keys)
    PROVE  /\ Way(doc, path)[0] = doc
           /\ \A i \in 1..Len(path) : Way(doc, path)[i] = Way(doc, path)[i - 1][path[i]]
<1> DEFINE d == Way(doc, path)
<1>1. IsWay(doc, path, Len(path), d)
  BY WayIs
<1>2. Len(path) \in Nat
  OBVIOUS
<1> HIDE DEF d
<1>3. d[0] = doc
  BY <1>1, <1>2 DEF IsWay
<1>4. ASSUME NEW i \in 1..Len(path) PROVE d[i] = d[i - 1][path[i]]
  BY <1>1, <1>2 DEF IsWay
<1> QED
  BY <1>3, <1>4 DEF d

\* Paths that begin alike go the same way.
LEMMA WayPrefix ==
    ASSUME NEW doc, NEW p \in Seq(Keys), NEW q \in Seq(Keys), NEW n \in 0..Len(p),
           n <= Len(q), \A i \in 1..n : p[i] = q[i]
    PROVE  Way(doc, p)[n] = Way(doc, q)[n]
<1> DEFINE d == Way(doc, p)
           e == Way(doc, q)
           S == {i \in 0..n : d[i] # e[i]}
<1>1. /\ d[0] = doc /\ \A i \in 1..Len(p) : d[i] = d[i - 1][p[i]]
      /\ e[0] = doc /\ \A i \in 1..Len(q) : e[i] = e[i - 1][q[i]]
  BY WaySteps
<1> HIDE DEF d, e
<1>2. S = {}
  <2> SUFFICES ASSUME S # {} PROVE FALSE
    OBVIOUS
  <2>1. PICK m \in S : \A k \in S : ~(k < m)
    <3>1. S \in SUBSET Nat
      OBVIOUS
    <3> HIDE DEF S
    <3> QED
      BY <3>1, HasSmallest
  <2>2. m # 0
    BY <1>1, <2>1
  <2>3. m \in 1..n /\ m \in 1..Len(p) /\ m \in 1..Len(q)
    BY <2>1, <2>2
  <2>4. d[m - 1] = e[m - 1]
    BY <2>1, <2>3
  <2>5. d[m] = d[m - 1][p[m]] /\ e[m] = e[m - 1][q[m]] /\ p[m] = q[m]
    BY <1>1, <2>3
  <2> QED
    BY <2>1, <2>4, <2>5
<1>3. d[n] = e[n]
  BY <1>2
<1> QED
  BY <1>3 DEF d, e

\* What is found on the way is a document, as long as the path is there.
LEMMA WayDocuments ==
    ASSUME NEW doc \in Documents, NEW path \in Seq(Keys), Holds(doc, path),
           NEW n \in 0..Len(path)
    PROVE  Way(doc, path)[n] \in Documents
<1> DEFINE d == Way(doc, path)
           S == {i \in 0..Len(path) : d[i] \notin Documents}
<1>1. d[0] = doc /\ \A i \in 1..Len(path) : d[i] = d[i - 1][path[i]]
  BY WaySteps
<1>2. \A i \in 1..Len(path) : IsDict(d[i - 1]) /\ path[i] \in DOMAIN d[i - 1]
  BY DEF Holds
<1> HIDE DEF d
<1>3. S = {}
  <2> SUFFICES ASSUME S # {} PROVE FALSE
    OBVIOUS
  <2>1. PICK m \in S : \A k \in S : ~(k < m)
    <3>1. S \in SUBSET Nat
      OBVIOUS
    <3> HIDE DEF S
    <3> QED
      BY <3>1, HasSmallest
  <2>2. m \in 1..Len(path)
    BY <1>1, <2>1
  <2>3. d[m - 1] \in Documents
    BY <2>1, <2>2
  <2>4. d[m] = d[m - 1][path[m]] /\ IsDict(d[m - 1]) /\ path[m] \in DOMAIN d[m - 1]
    BY <1>1, <1>2, <2>2
  <2> QED
    BY <2>1, <2>3, <2>4, EchoAssumption
<1>4. d[n] \in Documents
  BY <1>3
<1> QED
  BY <1>4 DEF d

\* A path is held when the path above it is, and its last key is there.
LEMMA HoldsAppend ==
    ASSUME NEW doc, NEW p \in Seq(Keys), NEW k \in Keys,
           Holds(doc, p), IsDict(At(doc, p)), k \in DOMAIN At(doc, p)
    PROVE  Holds(doc, Append(p, k))
<1> DEFINE q == Append(p, k)
           n == Len(p)
<1>1. n \in Nat /\ q \in Seq(Keys) /\ Len(q) = n + 1 /\ q[n + 1] = k
      /\ \A i \in 1..n : q[i] = p[i]
  OBVIOUS
<1> HIDE DEF q, n
<1>2. \A i \in 0..n : Way(doc, q)[i] = Way(doc, p)[i]
  BY <1>1, WayPrefix DEF n
<1>3. ASSUME NEW i \in 1..n + 1
      PROVE  IsDict(Way(doc, q)[i - 1]) /\ q[i] \in DOMAIN Way(doc, q)[i - 1]
  <2>1. i - 1 \in 0..n
    BY <1>1
  <2>2. Way(doc, q)[i - 1] = Way(doc, p)[i - 1]
    BY <1>2, <2>1
  <2>3. CASE i = n + 1
    <3>1. i - 1 = n
      BY <1>1, <2>3
    <3> QED
      BY <1>1, <2>2, <2>3, <3>1 DEF At, n
  <2>4. CASE i \in 1..n
    BY <1>1, <2>2, <2>4 DEF Holds, n
  <2> QED
    BY <1>1, <2>3, <2>4
<1> QED
  BY <1>1, <1>3 DEF Holds, q

\* What holds a path holds what is above it.
LEMMA HoldsAbove ==
    ASSUME NEW doc, NEW p \in Seq(Keys), NEW n \in 0..Len(p), Holds(doc, p)
    PROVE  /\ SubSeq(p, 1, n) \in Seq(Keys) /\ Len(SubSeq(p, 1, n)) = n
           /\ \A i \in 1..n : SubSeq(p, 1, n)[i] = p[i]
           /\ Holds(doc, SubSeq(p, 1, n))
           /\ At(doc, SubSeq(p, 1, n)) = Way(doc, p)[n]
<1> DEFINE q == SubSeq(p, 1, n)
<1>1. q \in Seq(Keys) /\ Len(q) = n /\ n \in Nat /\ \A i \in 1..n : q[i] = p[i]
  OBVIOUS
<1> HIDE DEF q
<1>2. \A i \in 0..n : Way(doc, q)[i] = Way(doc, p)[i]
  BY <1>1, WayPrefix
<1>3. Holds(doc, q)
  BY <1>1, <1>2 DEF Holds
<1>4. At(doc, q) = Way(doc, p)[n]
  BY <1>1, <1>2 DEF At
<1> QED
  BY <1>1, <1>3, <1>4 DEF q

-----------------------------------------------------------------------------
(***************************************************************************)
(* The walk of verify_response                                             *)
(***************************************************************************)

\* The recursion has come to a key of what was sent through dicts of the echo,
\* and not below a key that is skipped.
Reached(path) ==
    /\ path \in Seq(Keys) \ {<<>>}
    /\ Holds(sent, path)
    /\ Holds(received, Front(path)) /\ IsDict(At(received, Front(path)))
    /\ Len(path) > 1 => path[1] \notin skipRoot

\* As long as nothing is missing, each path that was sent is in the echo, out
\* of its reach, or still ahead: the walk is going to come through it.
Ahead(path) == \E n \in 1..Len(path) : SubSeq(path, 1, n) \in todo

Covered ==
    \A path \in Paths :
        Holds(sent, path) /\ path[1] \notin skipRoot =>
            Holds(received, path) \/ HidesUnderLeaf(path) \/ Ahead(path)

EchoInv ==
    /\ sent \in Documents /\ received \in Documents /\ IsDict(sent)
    /\ \A path \in todo : Reached(path)
    /\ raised = <<>> => Covered
    /\ raised # <<>> => todo = {}
    /\ NamesTheDrop

\* The last key of a path that was reached is in the echo exactly when the
\* echo holds the whole path.
LEMMA InEchoIs ==
    ASSUME NEW path, Reached(path)
    PROVE  /\ Front(path) \in Seq(Keys) /\ Last(path) \in Keys
           /\ path = Append(Front(path), Last(path))
           /\ InEcho(path) <=> Holds(received, path)
<1> DEFINE n == Len(path)
           above == Front(path)
<1>1. path \in Seq(Keys) /\ n \in Nat \ {0}
  BY DEF Reached
<1>2. above = SubSeq(path, 1, n - 1) /\ Last(path) = path[n]
  BY DEF Front, Last
<1>3. above \in Seq(Keys) /\ Last(path) \in Keys /\ path = Append(above, Last(path))
  BY <1>1, <1>2
<1>4. ASSUME InEcho(path) PROVE Holds(received, path)
  <2>1. Holds(received, Append(above, Last(path)))
    BY <1>3, <1>4, HoldsAppend DEF Reached, InEcho
  <2> QED
    BY <1>3, <2>1
<1>5. ASSUME Holds(received, path) PROVE InEcho(path)
  <2>1. n - 1 \in 0..n
    BY <1>1
  <2>2. At(received, above) = Way(received, path)[n - 1]
    BY <1>1, <1>2, <1>5, <2>1, HoldsAbove
  <2>3. path[n] \in DOMAIN Way(received, path)[n - 1]
    BY <1>1, <1>5 DEF Holds
  <2> QED
    BY <1>2, <2>2, <2>3 DEF InEcho
<1> QED
  BY <1>3, <1>4, <1>5

\* The keys below a path that was reached and found are reached.
LEMMA BelowReached ==
    ASSUME sent \in Documents, NEW path, Reached(path), ~Skipped(path), InEcho(path),
           NEW below \in Below(path)
    PROVE  Reached(below)
<1>1. IsDict(At(sent, path)) /\ IsDict(At(received, path))
      /\ \E k \in DOMAIN At(sent, path) : below = Append(path, k)
  BY DEF Below
<1>2. PICK k \in DOMAIN At(sent, path) : below = Append(path, k)
  BY <1>1
<1>3. path \in Seq(Keys) /\ Len(path) \in Nat \ {0} /\ Holds(sent, path)
  BY DEF Reached
<1>4. k \in Keys
  <2>1. At(sent, path) \in Documents
    BY <1>3, WayDocuments DEF At
  <2> QED
    BY <1>1, <2>1, EchoAssumption
<1>5. below \in Seq(Keys) \ {<<>>} /\ Front(below) = path /\ below[1] = path[1]
  <2>1. /\ below \in Seq(Keys) /\ Len(below) = Len(path) + 1
        /\ \A i \in 1..Len(path) : below[i] = path[i]
    BY <1>2, <1>3, <1>4
  <2>2. Front(below) = SubSeq(below, 1, Len(path))
    BY <1>3, <2>1 DEF Front
  <2>3. Front(below) = path
    BY <1>2, <1>3, <1>4, <2>2
  <2> QED
    BY <1>3, <2>1, <2>3
<1>6. Holds(sent, below)
  BY <1>1, <1>2, <1>3, <1>4, HoldsAppend
<1>7. Holds(received, path)
  BY InEchoIs
<1>8. path[1] \notin skipRoot
  <2>1. Len(path) # 1 => Len(path) > 1
    <3>1. \A n \in Nat \ {0} : n # 1 => n > 1
      OBVIOUS
    <3> QED
      BY <1>3, <3>1
  <2> QED
    BY <2>1 DEF Reached, Skipped
<1> QED
  BY <1>1, <1>5, <1>6, <1>7, <1>8 DEF Reached

LEMMA EchoInitially == EchoInit => EchoInv
<1> SUFFICES ASSUME EchoInit PROVE EchoInv
  OBVIOUS
<1>1. sent \in Documents /\ received \in Documents /\ IsDict(sent) /\ raised = <<>>
  BY DEF EchoInit, IsDict
<1>2. ASSUME NEW path \in todo PROVE Reached(path)
  <2>1. PICK k \in DOMAIN sent : path = <<k>> /\ IsDict(received)
    BY <1>2 DEF EchoInit
  <2>2. k \in Keys
    BY <1>1, EchoAssumption
  <2>3. <<>> \in Seq(Keys) /\ Len(<<>>) = 0
    BY EmptySeq
  <2>4. Holds(sent, <<>>) /\ Holds(received, <<>>)
    BY <2>3 DEF Holds
  <2>5. At(sent, <<>>) = sent /\ At(received, <<>>) = received
    BY <2>3, WaySteps DEF At
  <2>6. path = Append(<<>>, k)
    BY <2>1, <2>2
  <2>7. Holds(sent, path)
    BY <1>1, <2>1, <2>2, <2>3, <2>4, <2>5, <2>6, HoldsAppend
  <2>8. Front(path) = <<>> /\ Len(path) = 1 /\ path \in Seq(Keys) \ {<<>>}
    BY <2>1, <2>2 DEF Front
  <2> QED
    BY <2>1, <2>4, <2>5, <2>7, <2>8 DEF Reached
<1>3. ASSUME NEW path \in Paths, Holds(sent, path)
      PROVE  HidesUnderLeaf(path) \/ Ahead(path)
  <2>1. path \in Seq(Keys) /\ Len(path) \in Nat \ {0}
    BY EchoAssumption DEF Paths
  <2>2. 0 \in 0..Len(path) - 1 /\ 1 \in 1..Len(path)
    BY <2>1
  <2>3. CASE IsDict(received)
    <3>1. path[1] \in DOMAIN sent
      BY <2>1, <2>2, WaySteps, <1>3 DEF Holds
    <3>2. SubSeq(path, 1, 1) = <<path[1]>>
      <4>1. path[1] \in Keys
        BY <2>1
      <4>2. /\ SubSeq(path, 1, 1) \in Seq(Keys) /\ Len(SubSeq(path, 1, 1)) = 1
            /\ \A i \in 1..1 : SubSeq(path, 1, 1)[i] = path[1]
        BY <2>1
      <4>3. /\ <<path[1]>> \in Seq(Keys) /\ Len(<<path[1]>>) = 1
            /\ \A i \in 1..1 : <<path[1]>>[i] = path[1]
        BY <4>1
      <4>4. \A i \in 1..Len(SubSeq(path, 1, 1)) : SubSeq(path, 1, 1)[i] = <<path[1]>>[i]
        BY <4>2, <4>3
      <4> QED
        BY <4>2, <4>3, <4>4, SeqEqual
    <3> QED
      BY <2>2, <2>3, <3>1, <3>2 DEF EchoInit, Ahead
  <2>4. CASE ~IsDict(received)
    <3>1. SubSeq(path, 1, 0) = <<>>
      BY <2>1
    <3>2. <<>> \in Seq(Keys) /\ Len(<<>>) = 0
      BY EmptySeq
    <3>3. Holds(received, <<>>)
      BY <3>2 DEF Holds
    <3>4. At(received, <<>>) = received
      BY <3>2, WaySteps DEF At
    <3> QED
      BY <2>2, <2>4, <3>1, <3>3, <3>4 DEF HidesUnderLeaf
  <2> QED
    BY <2>3, <2>4
<1>4. Covered
  BY <1>3 DEF Covered
<1> QED
  BY <1>1, <1>2, <1>4 DEF EchoInv, NamesTheDrop

\* The walk changes no document.
LEMMA SameDocuments ==
    ASSUME UNCHANGED <<sent, received, skipRoot>>, NEW path
    PROVE  /\ Reached(path) => Reached(path)'
           /\ HidesUnderLeaf(path) => HidesUnderLeaf(path)'
<1>1. Reached(path) => Reached(path)'
  BY DEF Reached
<1>2. HidesUnderLeaf(path) => HidesUnderLeaf(path)'
  BY DEF HidesUnderLeaf
<1> QED
  BY <1>1, <1>2

\* A skipped key takes only paths out of the walk that begin with it.
LEMMA SkipKeeps ==
    ASSUME EchoInv, NEW path \in todo, Skip(path)
    PROVE  EchoInv'
<1>1. UNCHANGED <<sent, received, skipRoot, raised>> /\ todo' = todo \ {path}
  BY DEF Skip
<1>2. raised = <<>>
  BY DEF EchoInv
<1>3. ASSUME NEW other \in Paths, other[1] \notin skipRoot, Ahead(other)
      PROVE  Ahead(other)'
  <2>1. PICK n \in 1..Len(other) : SubSeq(other, 1, n) \in todo
    BY <1>3 DEF Ahead
  <2>2. other \in Seq(Keys) /\ Len(other) \in Nat
    BY EchoAssumption DEF Paths
  <2>3. SubSeq(other, 1, n)[1] = other[1]
    BY <2>1, <2>2
  <2>4. SubSeq(other, 1, n) # path
    BY <1>3, <2>3 DEF Skip, Skipped
  <2> QED
    BY <1>1, <2>1, <2>4 DEF Ahead
<1>4. Covered'
  BY <1>1, <1>2, <1>3, SameDocuments DEF EchoInv, Covered
<1>5. \A other \in todo' : Reached(other)'
  BY <1>1, SameDocuments DEF EchoInv
<1> QED
  BY <1>1, <1>2, <1>4, <1>5 DEF EchoInv, NamesTheDrop

\* What is named was reached, and is not in the echo.
LEMMA DropKeeps ==
    ASSUME EchoInv, NEW path \in todo, Drop(path)
    PROVE  EchoInv'
<1>1. UNCHANGED <<sent, received, skipRoot>> /\ todo' = {} /\ raised' = path
  BY DEF Drop
<1>2. Reached(path)
  BY DEF EchoInv
<1>3. path # <<>> /\ Holds(sent, path)
  BY <1>2 DEF Reached
<1>4. ~Holds(received, path)
  BY <1>2, InEchoIs DEF Drop
<1>5. path[1] \notin skipRoot
  <2>1. Len(path) # 1 => Len(path) > 1
    BY <1>2 DEF Reached
  <2> QED
    BY <1>2, <2>1 DEF Reached, Drop, Skipped
<1>6. NamesTheDrop'
  BY <1>1, <1>3, <1>4, <1>5 DEF NamesTheDrop, Holds, Way
<1> QED
  BY <1>1, <1>3, <1>6 DEF EchoInv

\* A key that is found leads to the keys below it, or to where the walk ends.
LEMMA FoundKeeps ==
    ASSUME EchoInv, NEW path \in todo, Found(path)
    PROVE  EchoInv'
<1>1. UNCHANGED <<sent, received, skipRoot, raised>>
      /\ todo' = (todo \ {path}) \cup Below(path)
  BY DEF Found
<1>2. raised = <<>> /\ Reached(path) /\ ~Skipped(path) /\ InEcho(path)
  BY DEF EchoInv, Found
<1>3. ASSUME NEW other \in Paths, Holds(sent, other), Ahead(other)
      PROVE  Holds(received, other) \/ HidesUnderLeaf(other) \/ Ahead(other)'
  <2>1. PICK n \in 1..Len(other) : SubSeq(other, 1, n) \in todo
    BY <1>3 DEF Ahead
  <2>2. other \in Seq(Keys) /\ Len(other) \in Nat /\ n \in 0..Len(other)
    BY <2>1, EchoAssumption DEF Paths
  <2>3. CASE SubSeq(other, 1, n) # path
    BY <1>1, <2>1, <2>3 DEF Ahead
  <2>4. CASE SubSeq(other, 1, n) = path
    <3>1. Holds(received, path)
      BY <1>2, InEchoIs
    <3>2. CASE n = Len(other)
      <4>1. path = other
        BY <2>2, <2>4, <3>2
      <4> QED
        BY <3>1, <4>1
    <3>3. CASE n < Len(other)
      <4>1. n + 1 \in 1..Len(other) /\ n \in 0..Len(other) - 1
        BY <2>1, <2>2, <3>3
      <4>2. At(sent, path) = Way(sent, other)[n]
        BY <1>3, <2>2, <2>4, HoldsAbove
      <4>3. IsDict(At(sent, path)) /\ other[n + 1] \in DOMAIN At(sent, path)
        <5>1. n + 1 - 1 = n
          BY <2>1
        <5> QED
          BY <1>3, <4>1, <4>2, <5>1 DEF Holds
      <4>4. CASE IsDict(At(received, path))
        <5>1. Append(path, other[n + 1]) \in Below(path)
          BY <4>3, <4>4 DEF Below
        <5>2. SubSeq(other, 1, n + 1) = Append(path, other[n + 1])
          BY <2>1, <2>2, <2>4, <4>1
        <5> QED
          BY <1>1, <4>1, <5>1, <5>2 DEF Ahead
      <4>5. CASE ~IsDict(At(received, path))
        BY <2>4, <3>1, <4>1, <4>5 DEF HidesUnderLeaf
      <4> QED
        BY <4>4, <4>5
    <3> QED
      BY <2>1, <2>2, <3>2, <3>3
  <2> QED
    BY <2>3, <2>4
<1>4. Covered'
  <2> SUFFICES ASSUME NEW other \in Paths, Holds(sent, other), other[1] \notin skipRoot
               PROVE  Holds(received, other) \/ HidesUnderLeaf(other)' \/ Ahead(other)'
    BY <1>1 DEF Covered
  <2>1. Holds(received, other) \/ HidesUnderLeaf(other) \/ Ahead(other)
    BY <1>2 DEF EchoInv, Covered
  <2>2. HidesUnderLeaf(other) => HidesUnderLeaf(other)'
    BY <1>1, SameDocuments
  <2> QED
    BY <1>3, <2>1, <2>2
<1>5. \A other \in todo' : Reached(other)'
  <2>1. \A other \in Below(path) : Reached(other)
    BY <1>2, BelowReached DEF EchoInv
  <2> QED
    BY <1>1, <2>1, SameDocuments DEF EchoInv
<1> QED
  BY <1>1, <1>2, <1>4, <1>5 DEF EchoInv, NamesTheDrop

LEMMA EchoSteps == EchoInv /\ [EchoNext]_echoVars => EchoInv'
<1> SUFFICES ASSUME EchoInv, [EchoNext]_echoVars PROVE EchoInv'
  OBVIOUS
<1>1. ASSUME NEW path \in todo, Skip(path) PROVE EchoInv'
  BY <1>1, SkipKeeps
<1>2. ASSUME NEW path \in todo, Drop(path) PROVE EchoInv'
  BY <1>2, DropKeeps
<1>3. ASSUME NEW path \in todo, Found(path) PROVE EchoInv'
  BY <1>3, FoundKeeps
<1>4. CASE UNCHANGED echoVars
  <2>1. UNCHANGED <<sent, received, skipRoot, todo, raised>>
    BY <1>4 DEF echoVars
  <2>2. Covered => Covered'
    BY <2>1 DEF Covered, HidesUnderLeaf, Ahead
  <2>3. \A path \in todo' : Reached(path)'
    BY <2>1, SameDocuments DEF EchoInv
  <2> QED
    BY <2>1, <2>2, <2>3 DEF EchoInv, NamesTheDrop
<1> QED
  BY <1>1, <1>2, <1>3, <1>4 DEF EchoNext, Returned

\* The walk stays on paths that were sent, and forgets none of them.
THEOREM EchoInvariance == EchoSpec => []EchoInv
BY EchoInitially, EchoSteps, PTL DEF EchoSpec

\* "a dropped nested leaf is named with its full path", for documents of any
\* depth: the path was sent, the echo lacks it, and it is not below a key that
\* the operation told the walk to skip.
THEOREM NamesTheDropThm == EchoSpec => []NamesTheDrop
<1>1. EchoInv => NamesTheDrop
  BY DEF EchoInv
<1> QED
  BY <1>1, EchoInvariance, PTL

\* "presence is the whole contract": when verify_response returns, each path
\* that was sent is in the echo, whatever the order of the keys, unless it is
\* below a skipped key of the root or below a value that is no dict.
THEOREM PassMeansEchoedThm == EchoSpec => []PassMeansEchoed
<1>1. EchoInv => PassMeansEchoed
  BY DEF EchoInv, Covered, Ahead, PassMeansEchoed
<1> QED
  BY <1>1, EchoInvariance, PTL

-----------------------------------------------------------------------------
(***************************************************************************)
(* The rows that match a filter                                            *)
(***************************************************************************)

\* f has the defining equation of Matching's function for the first n rows.
IsMatching(rows, n, f) ==
    f = [i \in 0..n |->
           IF i = 0 THEN <<>>
           ELSE IF Wanted(rows[i]) THEN Append(f[i - 1], rows[i]) ELSE f[i - 1]]

LEMMA MatchingExists ==
    ASSUME NEW rows, NEW n \in Nat
    PROVE  \E f : IsMatching(rows, n, f)
<1> DEFINE S == {m \in Nat : ~\E f : IsMatching(rows, m, f)}
<1> SUFFICES ASSUME S # {} PROVE FALSE
  OBVIOUS
<1>1. PICK m \in S : \A k \in S : ~(k < m)
  <2>1. S \in SUBSET Nat
    OBVIOUS
  <2> HIDE DEF S
  <2> QED
    BY <2>1, HasSmallest
<1>2. m # 0
  <2>1. IsMatching(rows, 0, [i \in 0..0 |-> <<>>])
    BY DEF IsMatching
  <2> QED
    BY <2>1
<1>3. PICK f : IsMatching(rows, m - 1, f)
  BY <1>1, <1>2
<1> DEFINE last == IF Wanted(rows[m]) THEN Append(f[m - 1], rows[m]) ELSE f[m - 1]
           g == [i \in 0..m |-> IF i = m THEN last ELSE f[i]]
<1>4. ASSUME NEW i \in 0..m
      PROVE  g[i] = IF i = 0 THEN <<>>
                    ELSE IF Wanted(rows[i]) THEN Append(g[i - 1], rows[i]) ELSE g[i - 1]
  <2>1. CASE i = 0
    <3>1. g[i] = f[0]
      BY <1>2, <2>1
    <3>2. f[0] = <<>>
      BY <1>2, <1>3 DEF IsMatching
    <3> QED
      BY <2>1, <3>1, <3>2
  <2>2. CASE i # 0 /\ i # m
    <3>1. i \in 0..m - 1 /\ i # 0
      BY <2>2
    <3>2. f[i] = IF Wanted(rows[i]) THEN Append(f[i - 1], rows[i]) ELSE f[i - 1]
      BY <1>3, <3>1 DEF IsMatching
    <3>3. g[i] = f[i] /\ g[i - 1] = f[i - 1]
      BY <2>2
    <3> HIDE DEF g
    <3> QED
      BY <2>2, <3>2, <3>3
  <2>3. CASE i = m
    <3>1. g[m] = last /\ g[m - 1] = f[m - 1]
      BY <1>2
    <3> HIDE DEF g
    <3> QED
      BY <1>2, <2>3, <3>1
  <2> QED
    BY <2>1, <2>2, <2>3
<1>5. IsMatching(rows, m, g)
  <2>1. g = [i \in 0..m |-> g[i]]
    OBVIOUS
  <2> HIDE DEF g
  <2> QED
    BY <1>4, <2>1 DEF IsMatching
<1> QED
  BY <1>1, <1>5

\* What s has to do with the first n of the rows, when it is what matches:
\* as many rows, each one of them, and none twice.  The places are counted
\* from `from`, where the rows begin in a listing.
MatchedIn(rows, from, n) == {j \in from + 1..from + n : Wanted(rows[j - from])}

Distinct(rows) == \A i, j \in 1..Len(rows) : rows[i].id = rows[j].id => i = j

Matched(R, rows, from, n, s) ==
    /\ s \in Seq(R)
    /\ IsFiniteSet(MatchedIn(rows, from, n))
    /\ Cardinality(MatchedIn(rows, from, n)) = Len(s)
    /\ \A k \in 1..Len(s) : \E j \in 1..n : Wanted(rows[j]) /\ s[k] = rows[j]
    /\ Distinct(rows) => Distinct(s)

LEMMA MatchedNone ==
    ASSUME NEW R, NEW rows, NEW from \in Nat
    PROVE  Matched(R, rows, from, 0, <<>>)
<1>1. <<>> \in Seq(R) /\ Len(<<>>) = 0
  BY EmptySeq
<1>2. MatchedIn(rows, from, 0) = {}
  BY DEF MatchedIn
<1> QED
  BY <1>1, <1>2, FS_EmptySet DEF Matched, Distinct

\* One more row.
LEMMA MatchedOneMore ==
    ASSUME NEW R, NEW rows \in Seq(R), NEW from \in Nat, NEW n \in 1..Len(rows), NEW s,
           Matched(R, rows, from, n - 1, s)
    PROVE  Matched(R, rows, from, n,
                   IF Wanted(rows[n]) THEN Append(s, rows[n]) ELSE s)
<1> DEFINE before == MatchedIn(rows, from, n - 1)
           after == MatchedIn(rows, from, n)
<1>1. n \in Nat /\ n - 1 \in Nat /\ rows[n] \in R
  OBVIOUS
<1>2. s \in Seq(R) /\ Len(s) \in Nat /\ IsFiniteSet(before) /\ Cardinality(before) = Len(s)
  BY DEF Matched
<1>3. \A k \in 1..Len(s) : \E j \in 1..n - 1 : Wanted(rows[j]) /\ s[k] = rows[j]
  BY DEF Matched
<1>4. CASE ~Wanted(rows[n])
  <2>1. after = before
    <3>1. \A j \in from + 1..from + n : j \in from + 1..from + (n - 1) \/ j - from = n
      BY <1>1
    <3>2. \A j \in from + 1..from + (n - 1) : j \in from + 1..from + n
      BY <1>1
    <3> QED
      BY <1>4, <3>1, <3>2 DEF MatchedIn
  <2>2. \A k \in 1..Len(s) : \E j \in 1..n : Wanted(rows[j]) /\ s[k] = rows[j]
    BY <1>1, <1>3
  <2> HIDE DEF before, after
  <2> QED
    BY <1>2, <1>4, <2>1, <2>2 DEF Matched, before, after
<1>5. CASE Wanted(rows[n])
  <2> DEFINE more == Append(s, rows[n])
  <2>1. /\ more \in Seq(R) /\ Len(more) = Len(s) + 1 /\ more[Len(s) + 1] = rows[n]
        /\ \A k \in 1..Len(s) : more[k] = s[k]
    BY <1>1, <1>2
  <2>2. after = before \cup {from + n} /\ from + n \notin before
    <3>1. \A j \in from + 1..from + n : j \in from + 1..from + (n - 1) \/ j = from + n
      BY <1>1
    <3>2. \A j \in from + 1..from + (n - 1) : j \in from + 1..from + n /\ j # from + n
      BY <1>1
    <3>3. from + n \in from + 1..from + n /\ from + n - from = n
      BY <1>1
    <3> QED
      BY <1>5, <3>1, <3>2, <3>3 DEF MatchedIn
  <2>3. IsFiniteSet(after) /\ Cardinality(after) = Len(s) + 1
    <3> HIDE DEF before, after
    <3> QED
      BY <1>2, <2>2, FS_AddElement
  <2> HIDE DEF more, before, after
  <2>4. ASSUME NEW k \in 1..Len(more)
        PROVE  \E j \in 1..n : Wanted(rows[j]) /\ more[k] = rows[j]
    <3>1. CASE k = Len(s) + 1
      BY <1>1, <1>5, <2>1, <3>1
    <3>2. CASE k \in 1..Len(s)
      BY <1>1, <1>3, <2>1, <3>2
    <3> QED
      BY <1>2, <2>1, <3>1, <3>2
  <2>5. ASSUME Distinct(rows) PROVE Distinct(more)
    <3>1. Distinct(s)
      BY <2>5 DEF Matched
    <3>2. ASSUME NEW k \in 1..Len(s) PROVE s[k].id # rows[n].id
      <4>1. PICK j \in 1..n - 1 : s[k] = rows[j]
        BY <1>3
      <4>2. j \in 1..Len(rows) /\ j # n
        BY <1>1
      <4> QED
        BY <2>5, <4>1, <4>2 DEF Distinct
    <3>3. ASSUME NEW k \in 1..Len(more), NEW l \in 1..Len(more), more[k].id = more[l].id
          PROVE  k = l
      <4>1. CASE k \in 1..Len(s) /\ l \in 1..Len(s)
        BY <2>1, <3>1, <3>3, <4>1 DEF Distinct
      <4>2. CASE k \in 1..Len(s) /\ l = Len(s) + 1
        BY <2>1, <3>2, <3>3, <4>2
      <4>3. CASE k = Len(s) + 1 /\ l \in 1..Len(s)
        BY <2>1, <3>2, <3>3, <4>3
      <4> QED
        BY <1>2, <2>1, <4>1, <4>2, <4>3
    <3> QED
      BY <3>3 DEF Distinct
  <2> QED
    BY <1>5, <2>1, <2>3, <2>4, <2>5 DEF Matched, more, after
<1> QED
  BY <1>4, <1>5

\* Matching takes what is wanted of the rows, in full and once.
LEMMA MatchingIsMatched ==
    ASSUME NEW R, NEW rows \in Seq(R), NEW from \in Nat
    PROVE  Matched(R, rows, from, Len(rows), Matching(rows))
<1> DEFINE n == Len(rows)
           f == CHOOSE g : IsMatching(rows, n, g)
           S == {i \in 0..n : ~Matched(R, rows, from, i, f[i])}
<1>1. n \in Nat
  OBVIOUS
<1>2. IsMatching(rows, n, f) /\ Matching(rows) = f[n]
  <2>1. \E g : IsMatching(rows, n, g)
    BY <1>1, MatchingExists
  <2>2. Matching(rows) = f[n]
    BY DEF Matching, IsMatching
  <2> QED
    BY <2>1, <2>2
<1> HIDE DEF f, n
<1>3. S = {}
  <2> SUFFICES ASSUME S # {} PROVE FALSE
    OBVIOUS
  <2>1. PICK m \in S : \A k \in S : ~(k < m)
    <3>1. S \in SUBSET Nat
      BY <1>1
    <3> HIDE DEF S
    <3> QED
      BY <3>1, HasSmallest
  <2>2. m # 0
    <3>1. f[0] = <<>>
      BY <1>1, <1>2 DEF IsMatching
    <3> QED
      BY <2>1, <3>1, MatchedNone
  <2>3. m \in 1..n /\ m - 1 \in 0..n /\ m - 1 < m
    BY <1>1, <2>1, <2>2
  <2>4. f[m] = IF Wanted(rows[m]) THEN Append(f[m - 1], rows[m]) ELSE f[m - 1]
    <3>1. m \in 0..n /\ m # 0
      BY <1>1, <2>1, <2>2
    <3>2. \A i \in 0..n : f[i] = IF i = 0 THEN <<>>
                                 ELSE IF Wanted(rows[i]) THEN Append(f[i - 1], rows[i])
                                 ELSE f[i - 1]
      BY <1>2 DEF IsMatching
    <3> QED
      BY <3>1, <3>2
  <2>5. Matched(R, rows, from, m - 1, f[m - 1])
    BY <2>1, <2>3
  <2>6. Matched(R, rows, from, m, f[m])
    BY <2>3, <2>4, <2>5, MatchedOneMore DEF n
  <2> QED
    BY <2>1, <2>6
<1>4. Matched(R, rows, from, n, f[n])
  BY <1>1, <1>3
<1> QED
  BY <1>2, <1>4 DEF n

-----------------------------------------------------------------------------
(***************************************************************************)
(* Reading a listing: the inductive invariant                              *)
(***************************************************************************)

\* The rows asked for among the first n of the listing, and their ids.
WantedUpTo(n) == {i \in 1..n : Wanted(listing[i])}

IdsUpTo(n) == {listing[i].id : i \in WantedUpTo(n)}

\* How many rows of the listing the pages read so far had.
Position ==
    Smaller((IF pc \in {"answered", "done"} THEN page ELSE page - 1) * size, Len(listing))

ListTypeOK ==
    /\ listing \in Listings
    /\ size \in Nat \ {0} /\ limit \in Int
    /\ page \in Nat \ {0} /\ cut \in Nat /\ warned \in BOOLEAN
    /\ envelope # "counted" => Len(listing) < size
    /\ envelope # "map" => filter = None
    /\ pc \in {"ready", "asked", "received", "answered", "done"}

\* The proxy's page of that number, or an odd answer.
PageOf(n) == [is |-> "list", rows |-> PageRows(n), count |-> Len(listing)]

Odd == {[is |-> odd, rows |-> <<>>, count |-> 0] : odd \in {"dict", "other", "null"}}

\* The last answer of the proxy was a page.
OnPages == response.is = "list"

\* The agent only asks for pages that there are, and stops after the last one.
Turning ==
    /\ (page - 1) * size <= Len(listing)
    /\ pc \in {"received", "answered", "done"} => response \in {PageOf(page)} \cup Odd
    /\ pc = "answered" => answer.page_info = PageInfo(response)
    /\ pc = "done" /\ OnPages => Len(listing) <= page * size

\* What was got are ids of wanted rows that were read, and those of them that
\* were not got were counted as cut.
Tally ==
    pc \notin {"answered", "done"} \/ OnPages =>
        /\ Ids(seen) \subseteq IdsUpTo(Position)
        /\ IsFiniteSet(Ids(seen))
        /\ Cardinality(Ids(seen)) + cut = Cardinality(WantedUpTo(Position))
        /\ warned <=> cut > 0

ListInv == ListTypeOK /\ Turning /\ Tally

(***************************************************************************)
(* Pages and their rows                                                    *)
(***************************************************************************)

\* n + 1 pages have the rows of n pages and one page more.
LEMMA OnePageMore ==
    ASSUME NEW n \in Nat, NEW s \in Nat
    PROVE  n * s \in Nat /\ (n + 1) * s = n * s + s
OBVIOUS

\* Values that tell the elements of a set apart are as many as the elements.
LEMMA AsManyValues ==
    ASSUME NEW W, IsFiniteSet(W), NEW f, \A i, j \in W : f[i] = f[j] => i = j
    PROVE  /\ IsFiniteSet({f[i] : i \in W})
           /\ Cardinality({f[i] : i \in W}) = Cardinality(W)
<1> DEFINE T == {f[i] : i \in W}
           g == [i \in W |-> f[i]]
<1>1. g \in [W -> T] /\ DOMAIN g = W /\ \A i \in W : g[i] = f[i]
  OBVIOUS
<1>2. \A t \in T : \E i \in W : g[i] = t
  OBVIOUS
<1> HIDE DEF g
<1>3. g \in Surjection(W, T)
  BY <1>1, <1>2 DEF Surjection
<1>4. g \in Injection(W, T)
  BY <1>1 DEF Injection, IsInjective
<1> HIDE DEF T
<1>5. IsFiniteSet(T) /\ Cardinality(T) = Cardinality(W)
  BY <1>3, <1>4, FS_Surjection
<1> QED
  BY <1>5 DEF T

\* The listing, where the page begins and where it ends.
LEMMA ListingIs ==
    ASSUME ListTypeOK
    PROVE  /\ listing \in Seq(Rows)
           /\ Len(listing) \in Nat
           /\ Distinct(listing)
<1>1. listing \in Seq(Rows)
  BY ListAssumption DEF ListTypeOK
<1>2. Len(listing) \in Nat
  BY <1>1
<1>3. Distinct(listing)
  BY ListAssumption DEF ListTypeOK, Distinct
<1> QED
  BY <1>1, <1>2, <1>3

\* Ids tell the wanted rows apart.
LEMMA WantedIds ==
    ASSUME ListTypeOK, NEW n \in 0..Len(listing)
    PROVE  /\ IsFiniteSet(WantedUpTo(n))
           /\ IsFiniteSet(IdsUpTo(n))
           /\ Cardinality(IdsUpTo(n)) = Cardinality(WantedUpTo(n))
<1>1. n \in Nat /\ Len(listing) \in Nat /\ Distinct(listing)
  BY ListingIs
<1>2. IsFiniteSet(WantedUpTo(n))
  <2>1. WantedUpTo(n) \subseteq 1..n
    BY DEF WantedUpTo
  <2>2. IsFiniteSet(1..n)
    BY <1>1, FS_Interval
  <2> QED
    BY <2>1, <2>2, FS_Subset
<1> DEFINE f == [i \in 1..n |-> listing[i].id]
<1>3. IdsUpTo(n) = {f[i] : i \in WantedUpTo(n)}
  BY DEF IdsUpTo, WantedUpTo
<1>4. \A i, j \in WantedUpTo(n) : f[i] = f[j] => i = j
  BY <1>1 DEF Distinct, WantedUpTo
<1> HIDE DEF f
<1> QED
  BY <1>2, <1>3, <1>4, AsManyValues

\* The page has the listing's rows between two places.
LEMMA PageHas ==
    ASSUME ListTypeOK, (page - 1) * size <= Len(listing)
    PROVE  LET lo == (page - 1) * size
               hi == Smaller(page * size, Len(listing))
               rows == PageRows(page)
           IN /\ lo \in Nat /\ hi \in Nat /\ lo <= hi /\ hi <= Len(listing)
              /\ rows \in Seq(Rows) /\ Len(rows) = hi - lo
              /\ \A j \in 1..hi - lo : rows[j] = listing[lo + j]
<1> DEFINE lo == (page - 1) * size
           hi == Smaller(page * size, Len(listing))
<1>1. page - 1 \in Nat /\ size \in Nat /\ (page - 1) + 1 = page
  BY DEF ListTypeOK
<1>2. lo \in Nat /\ page * size = lo + size
  BY <1>1, OnePageMore
<1>3. Len(listing) \in Nat /\ listing \in Seq(Rows)
  BY ListingIs
<1>4. PageRows(page) = SubSeq(listing, lo + 1, hi)
  BY DEF PageRows
<1>5. hi \in Nat /\ lo <= hi /\ hi <= Len(listing)
  <2> HIDE DEF lo
  <2>1. lo <= Len(listing)
    BY DEF lo
  <2> QED
    BY <1>1, <1>2, <1>3, <2>1 DEF Smaller
<1> HIDE DEF lo, hi
<1>6. \A i \in lo + 1..hi : listing[i] \in Rows
  BY <1>2, <1>3, <1>5
<1>7. /\ SubSeq(listing, lo + 1, hi) \in Seq(Rows)
      /\ Len(SubSeq(listing, lo + 1, hi)) = IF lo + 1 <= hi THEN hi - (lo + 1) + 1 ELSE 0
      /\ \A i \in 1..hi - (lo + 1) + 1 : SubSeq(listing, lo + 1, hi)[i] = listing[lo + 1 + i - 1]
  BY <1>2, <1>5, <1>6, SubSeqProperties
<1>8. \A j \in 1..hi - lo : PageRows(page)[j] = listing[lo + j]
  <2> TAKE j \in 1..hi - lo
  <2>1. j \in 1..hi - (lo + 1) + 1 /\ lo + 1 + j - 1 = lo + j
    BY <1>2, <1>5
  <2> QED
    BY <1>4, <1>7, <2>1
<1> QED
  BY <1>2, <1>4, <1>5, <1>7, <1>8 DEF lo, hi

\* What the filter takes of the page adds to what it took of the pages before.
LEMMA PageAdds ==
    ASSUME ListTypeOK, (page - 1) * size <= Len(listing)
    PROVE  LET lo == (page - 1) * size
               hi == Smaller(page * size, Len(listing))
               s == Matching(PageRows(page))
           IN /\ Cardinality(WantedUpTo(hi)) = Cardinality(WantedUpTo(lo)) + Len(s)
              /\ Distinct(s)
              /\ \A k \in 1..Len(s) : s[k].id \in IdsUpTo(hi) \ IdsUpTo(lo)
<1> DEFINE lo == (page - 1) * size
           hi == Smaller(page * size, Len(listing))
           rows == PageRows(page)
           s == Matching(rows)
           here == MatchedIn(rows, lo, Len(rows))
<1>1. /\ lo \in Nat /\ hi \in Nat /\ lo <= hi /\ hi <= Len(listing)
      /\ rows \in Seq(Rows) /\ Len(rows) = hi - lo
      /\ \A j \in 1..hi - lo : rows[j] = listing[lo + j]
  BY PageHas
<1>2. Len(listing) \in Nat /\ Distinct(listing)
  BY ListingIs
<1> HIDE DEF lo, hi, rows
<1>3. Matched(Rows, rows, lo, Len(rows), s)
  BY <1>1, MatchingIsMatched
<1> HIDE DEF s
<1>4. here = WantedUpTo(hi) \ WantedUpTo(lo)
  <2>1. \A j \in lo + 1..lo + Len(rows) : j \in 1..hi /\ j \notin 1..lo
                                          /\ rows[j - lo] = listing[j]
    <3> TAKE j \in lo + 1..lo + Len(rows)
    <3>1. j - lo \in 1..hi - lo /\ lo + (j - lo) = j /\ j \in 1..hi /\ j \notin 1..lo
      BY <1>1
    <3> QED
      BY <1>1, <3>1
  <2>2. \A j \in 1..hi : j \notin 1..lo => j \in lo + 1..lo + Len(rows)
    BY <1>1
  <2>3. \A j : j \in here <=> j \in lo + 1..lo + Len(rows) /\ Wanted(listing[j])
    BY <2>1 DEF MatchedIn
  <2>4. \A j : j \in WantedUpTo(hi) \ WantedUpTo(lo)
                 <=> j \in lo + 1..lo + Len(rows) /\ Wanted(listing[j])
    BY <2>1, <2>2 DEF WantedUpTo
  <2> HIDE DEF here
  <2> QED
    BY <2>3, <2>4
<1>5. WantedUpTo(lo) \subseteq WantedUpTo(hi)
  BY <1>1 DEF WantedUpTo
<1>6. IsFiniteSet(here) /\ Cardinality(here) = Len(s)
  BY <1>3 DEF Matched
<1> HIDE DEF here
<1>7. Cardinality(WantedUpTo(hi)) = Cardinality(WantedUpTo(lo)) + Len(s)
  <2>1. IsFiniteSet(WantedUpTo(lo)) /\ Cardinality(WantedUpTo(lo)) \in Nat
    <3>1. lo \in 0..Len(listing)
      BY <1>1, <1>2
    <3> QED
      BY <3>1, WantedIds, FS_CardinalityType
  <2>2. WantedUpTo(lo) \cap here = {} /\ WantedUpTo(lo) \cup here = WantedUpTo(hi)
    BY <1>4, <1>5
  <2>3. Cardinality(WantedUpTo(lo) \cup here)
          = Cardinality(WantedUpTo(lo)) + Cardinality(here) - Cardinality({})
    BY <1>6, <2>1, <2>2, FS_Union
  <2>4. Len(s) \in Nat /\ Cardinality({}) = 0
    BY <1>6, FS_CardinalityType, FS_EmptySet
  <2>5. Cardinality(WantedUpTo(hi)) = Cardinality(WantedUpTo(lo)) + Len(s) - 0
    BY <1>6, <2>2, <2>3, <2>4
  <2> QED
    BY <2>1, <2>4, <2>5
<1>8. Distinct(s)
  <2>1. Distinct(rows)
    <3> SUFFICES ASSUME NEW i \in 1..hi - lo, NEW j \in 1..hi - lo, rows[i].id = rows[j].id
                 PROVE  i = j
      BY <1>1 DEF Distinct
    <3>1. lo + i \in 1..Len(listing) /\ lo + j \in 1..Len(listing)
      BY <1>1, <1>2
    <3>2. lo + i = lo + j
      BY <1>1, <1>2, <3>1 DEF Distinct
    <3> QED
      BY <1>1, <3>2
  <2> QED
    BY <1>3, <2>1 DEF Matched
<1>9. ASSUME NEW k \in 1..Len(s) PROVE s[k].id \in IdsUpTo(hi) \ IdsUpTo(lo)
  <2>1. PICK j \in 1..Len(rows) : Wanted(rows[j]) /\ s[k] = rows[j]
    BY <1>3 DEF Matched
  <2>2. j \in 1..hi - lo /\ lo + j \in 1..hi /\ lo + j \in 1..Len(listing) /\ lo + j \notin 1..lo
    BY <1>1, <1>2
  <2>3. s[k] = listing[lo + j] /\ Wanted(listing[lo + j])
    BY <1>1, <2>1, <2>2
  <2>4. s[k].id \in IdsUpTo(hi)
    BY <2>2, <2>3 DEF IdsUpTo, WantedUpTo
  <2>5. ASSUME s[k].id \in IdsUpTo(lo) PROVE FALSE
    <3>1. PICK i \in 1..lo : listing[i].id = s[k].id
      BY <2>5 DEF IdsUpTo, WantedUpTo
    <3>2. i \in 1..Len(listing)
      BY <1>1, <1>2
    <3>3. i = lo + j
      BY <1>2, <2>2, <2>3, <3>1, <3>2 DEF Distinct
    <3> QED
      BY <2>2, <3>3
  <2> QED
    BY <2>4, <2>5
<1> QED
  BY <1>7, <1>8, <1>9 DEF lo, hi, rows, s

\* Rows of a listing, and the only row of an odd page.
AnyRow == Rows \cup {Bare(0)}

LEMMA AnyRowIs ==
    ASSUME NEW row \in AnyRow
    PROVE  Slim(row).id = row.id
<1>1. row = Row(row.is, row.id, row.columns)
  BY ListAssumption DEF AnyRow, Bare, Row
<1>2. DOMAIN row = {"is", "id", "columns"}
  BY <1>1 DEF Row
<1> QED
  BY <1>2 DEF Slim

\* An answer has the first rows that match, slimmed, and counts the others.
LEMMA AnswerIs ==
    ASSUME limit \in Int, NEW r, RowsOf(r) \in Seq(AnyRow)
    PROVE  LET s == Matching(RowsOf(r))
               out == Answer(r)
           IN /\ out.page_info = PageInfo(r)
              /\ \E c \in 0..Len(s) :
                    /\ DOMAIN out.data = 1..c
                    /\ out.total - out.returned = Len(s) - c
                    /\ out.truncated = (c < Len(s))
                    /\ \A i \in 1..c : out.data[i].id = s[i].id
<1> DEFINE s == Matching(RowsOf(r))
           entries == Entries(r)
           n == Len(s)
           c == IF limit > 0 /\ limit < n THEN limit ELSE n
<1>1. Matched(AnyRow, RowsOf(r), 0, Len(RowsOf(r)), s)
  BY MatchingIsMatched
<1>2. s \in Seq(AnyRow) /\ n \in Nat
  <2>1. s \in Seq(AnyRow)
    BY <1>1 DEF Matched
  <2> HIDE DEF s
  <2> QED
    BY <2>1
<1>3. entries = [i \in DOMAIN s |-> IF envelope = "map" THEN s[i] ELSE Slim(s[i])]
  BY DEF Entries
<1> HIDE DEF s, entries
<1>4. DOMAIN s = 1..n
  BY <1>2
<1>5. /\ entries \in Seq({entries[i] : i \in 1..n}) /\ Len(entries) = n
      /\ \A i \in 1..n : entries[i].id = s[i].id
  <2>1. \A i \in 1..n : entries[i] = IF envelope = "map" THEN s[i] ELSE Slim(s[i])
    BY <1>3, <1>4
  <2>2. \A i \in 1..n : s[i] \in AnyRow
    BY <1>2
  <2>3. DOMAIN entries = 1..n /\ entries = [i \in 1..n |-> entries[i]]
    BY <1>3, <1>4
  <2> HIDE DEF n
  <2>4. entries \in Seq({entries[i] : i \in 1..n}) /\ Len(entries) = n
    BY <1>2, <2>3
  <2> QED
    BY <2>1, <2>2, <2>4, AnyRowIs
<1> DEFINE capped == Capped(entries, limit)
<1>6. /\ c \in 0..n
      /\ DOMAIN capped = 1..c /\ Len(capped) = c
      /\ \A i \in 1..c : capped[i] = entries[i]
  <2> HIDE DEF n
  <2>1. CASE limit > 0 /\ limit < n
    <3>1. capped = SubSeq(entries, 1, limit) /\ c = limit
      BY <1>5, <2>1 DEF Capped
    <3>2. \A i \in 1..limit : entries[i] \in {entries[j] : j \in 1..n}
      BY <1>2, <2>1
    <3>3. /\ SubSeq(entries, 1, limit) \in Seq({entries[j] : j \in 1..n})
          /\ Len(SubSeq(entries, 1, limit)) = limit
          /\ \A i \in 1..limit : SubSeq(entries, 1, limit)[i] = entries[i]
      <4>1. /\ SubSeq(entries, 1, limit) \in Seq({entries[j] : j \in 1..n})
            /\ Len(SubSeq(entries, 1, limit)) = IF 1 <= limit THEN limit - 1 + 1 ELSE 0
            /\ \A i \in 1..limit - 1 + 1 : SubSeq(entries, 1, limit)[i] = entries[1 + i - 1]
        BY <3>2, SubSeqProperties
      <4>2. limit - 1 + 1 = limit /\ 1 <= limit /\ \A i \in 1..limit : 1 + i - 1 = i
        BY <2>1
      <4> QED
        BY <4>1, <4>2
    <3> HIDE DEF capped, c
    <3>4. capped \in Seq({entries[j] : j \in 1..n}) /\ Len(capped) = limit
      BY <3>1, <3>3
    <3> QED
      BY <1>2, <2>1, <3>1, <3>3, <3>4
  <2>2. CASE ~(limit > 0 /\ limit < n)
    <3>1. capped = entries /\ c = n
      BY <1>5, <2>2 DEF Capped
    <3> HIDE DEF capped, c
    <3> QED
      BY <1>2, <1>5, <3>1
  <2> QED
    BY <2>1, <2>2
<1>7. /\ Answer(r).data = capped /\ Answer(r).total = Len(entries)
      /\ Answer(r).returned = Len(capped)
      /\ Answer(r).truncated = (Len(entries) > Len(capped))
      /\ Answer(r).page_info = PageInfo(r)
  BY DEF Answer, Shaped, Truncated, entries
<1> HIDE DEF n, capped, c
<1>8. /\ Answer(r).total - Answer(r).returned = n - c
      /\ Answer(r).truncated = (c < n)
  BY <1>2, <1>5, <1>6, <1>7
<1>9. \A i \in 1..c : Answer(r).data[i].id = s[i].id
  <2>1. \A i \in 1..c : i \in 1..n
    BY <1>2, <1>6
  <2> QED
    BY <1>5, <1>6, <1>7, <2>1
<1>10. /\ c \in 0..n
       /\ DOMAIN Answer(r).data = 1..c
       /\ Answer(r).total - Answer(r).returned = n - c
       /\ Answer(r).truncated = (c < n)
       /\ \A i \in 1..c : Answer(r).data[i].id = s[i].id
  BY <1>6, <1>7, <1>8, <1>9
<1> QED
  BY <1>7, <1>10, Zenon DEF n, s

(***************************************************************************)
(* Reading a listing: the invariant is kept                                *)
(***************************************************************************)

LEMMA ListInitially == Init => ListInv
<1> SUFFICES ASSUME Init PROVE ListInv
  OBVIOUS
<1>1. listing \in Seq(Rows) /\ Len(listing) \in Nat
  <2>1. listing \in Seq(Rows)
    BY ListAssumption DEF Init
  <2> QED
    BY <2>1
<1>2. size \in Nat \ {0} /\ (envelope # "counted" => Len(listing) < size)
  BY <1>1, ListAssumption DEF Init
<1>3. ListTypeOK
  <2>1. limit \in Int
    <3>1. limit \in Limits
      BY DEF Init
    <3> QED
      BY <3>1, ListAssumption
  <2>2. envelope # "map" => filter = None
    BY DEF Init
  <2>3. listing \in Listings /\ pc = "ready"
    BY DEF Init
  <2>4. page \in Nat \ {0} /\ cut \in Nat
    BY DEF Init
  <2>5. warned \in BOOLEAN
    BY DEF Init
  <2>6. pc \in {"ready", "asked", "received", "answered", "done"}
    BY <2>3
  <2> QED
    BY <1>2, <2>1, <2>2, <2>3, <2>4, <2>5, <2>6, Zenon DEF ListTypeOK
<1>4. (page - 1) * size = 0
  BY <1>2 DEF Init
<1>5. Turning
  BY <1>1, <1>4 DEF Init, Turning
<1>6. Tally
  <2>1. Position = 0
    BY <1>1, <1>4 DEF Init, Position, Smaller
  <2>2. WantedUpTo(0) = {} /\ Ids(seen) = {}
    BY DEF Init, WantedUpTo, Ids
  <2>3. IsFiniteSet({}) /\ Cardinality({}) + 0 = Cardinality({})
    BY FS_EmptySet
  <2>4. cut = 0 /\ warned = FALSE /\ ~(0 > 0)
    BY DEF Init
  <2> QED
    BY <2>1, <2>2, <2>3, <2>4 DEF Tally
<1> QED
  BY <1>3, <1>5, <1>6 DEF ListInv

\* What a page and what an odd answer is.
LEMMA ResponseIs ==
    ASSUME ListTypeOK, (page - 1) * size <= Len(listing), response \in {PageOf(page)} \cup Odd
    PROVE  /\ RowsOf(response) \in Seq(AnyRow)
           /\ OnPages => response = PageOf(page) /\ RowsOf(response) = PageRows(page)
           /\ ~OnPages => response.count = 0
<1>1. PageRows(page) \in Seq(AnyRow)
  <2>1. PageRows(page) \in Seq(Rows)
    BY PageHas
  <2> QED
    BY <2>1 DEF AnyRow
<1>2. <<Bare(0)>> \in Seq(AnyRow)
  BY DEF AnyRow
<1>3. CASE response = PageOf(page)
  BY <1>1, <1>3 DEF PageOf, RowsOf, OnPages
<1>4. CASE response \in Odd
  <2>1. response.is \in {"dict", "other", "null"} /\ response.count = 0
    BY <1>4 DEF Odd
  <2> QED
    BY <1>2, <2>1 DEF RowsOf, OnPages
<1> QED
  BY <1>3, <1>4

\* The next page is counted once: its ids are new.
LEMMA ShapeCounts ==
    ASSUME ListInv, Shape, OnPages
    PROVE  LET hi == Smaller(page * size, Len(listing)) IN
           /\ Ids(seen') \subseteq IdsUpTo(hi)
           /\ IsFiniteSet(Ids(seen'))
           /\ Cardinality(Ids(seen')) + cut' = Cardinality(WantedUpTo(hi))
           /\ cut' \in Nat /\ warned' \in BOOLEAN
           /\ warned' <=> cut' > 0
<1> DEFINE lo == (page - 1) * size
           hi == Smaller(page * size, Len(listing))
           s == Matching(PageRows(page))
           out == Answer(response)
           new == {out.data[i] : i \in DOMAIN out.data}
<1>1. ListTypeOK /\ lo <= Len(listing) /\ response \in {PageOf(page)} \cup Odd /\ limit \in Int
  BY DEF ListInv, ListTypeOK, Turning, Shape
<1>2. RowsOf(response) = PageRows(page) /\ RowsOf(response) \in Seq(AnyRow)
  BY <1>1, ResponseIs
<1>3. lo \in Nat /\ hi \in Nat /\ lo <= hi /\ hi <= Len(listing) /\ Len(listing) \in Nat
  BY <1>1, PageHas, ListingIs
<1>4. /\ Cardinality(WantedUpTo(hi)) = Cardinality(WantedUpTo(lo)) + Len(s)
      /\ Distinct(s)
      /\ \A k \in 1..Len(s) : s[k].id \in IdsUpTo(hi) \ IdsUpTo(lo)
  BY <1>1, PageAdds
<1>5. PICK c \in 0..Len(s) :
        /\ DOMAIN out.data = 1..c
        /\ out.total - out.returned = Len(s) - c
        /\ out.truncated = (c < Len(s))
        /\ \A i \in 1..c : out.data[i].id = s[i].id
  BY <1>1, <1>2, AnswerIs
<1>6. /\ Ids(seen) \subseteq IdsUpTo(lo)
      /\ IsFiniteSet(Ids(seen))
      /\ Cardinality(Ids(seen)) + cut = Cardinality(WantedUpTo(lo))
      /\ warned <=> cut > 0
      /\ warned \in BOOLEAN /\ cut \in Nat
  <2>1. Position = Smaller(lo, Len(listing))
    BY DEF Shape, Position
  <2>2. Position = lo
    <3> HIDE DEF lo
    <3> QED
      BY <1>1, <1>3, <2>1 DEF Smaller
  <2> QED
    BY <2>2 DEF ListInv, ListTypeOK, Tally, Shape
<1>7. Len(s) \in Nat
  <2>1. Matched(AnyRow, PageRows(page), 0, Len(PageRows(page)), s)
    BY <1>2, MatchingIsMatched
  <2>2. s \in Seq(AnyRow)
    BY <2>1 DEF Matched
  <2> HIDE DEF s
  <2> QED
    BY <2>2
<1>8. /\ seen' = seen \cup new
      /\ cut' = cut + (out.total - out.returned)
      /\ warned' = (warned \/ out.truncated)
  BY DEF Shape
<1> HIDE DEF lo, hi, s, out
<1> DEFINE ids == {s[i].id : i \in 1..c}
<1>9. Ids(new) = ids
  <2>1. \A x \in new : \E i \in 1..c : x = out.data[i] /\ x.id = s[i].id
    BY <1>5
  <2>2. \A i \in 1..c : out.data[i] \in new /\ out.data[i].id = s[i].id
    BY <1>5
  <2> HIDE DEF new
  <2> QED
    BY <2>1, <2>2 DEF Ids
<1>10. IsFiniteSet(ids) /\ Cardinality(ids) = c
  <2> DEFINE f == [i \in 1..c |-> s[i].id]
  <2>1. IsFiniteSet(1..c) /\ Cardinality(1..c) = c
    <3>1. c \in Nat /\ (IF 1 > c THEN 0 ELSE c - 1 + 1) = c
      BY <1>7
    <3> QED
      BY <3>1, FS_Interval
  <2>2. \A i, j \in 1..c : f[i] = f[j] => i = j
    BY <1>4, <1>7 DEF Distinct
  <2>3. ids = {f[i] : i \in 1..c}
    OBVIOUS
  <2> HIDE DEF f, ids
  <2> QED
    BY <2>1, <2>2, <2>3, AsManyValues
<1>11. ids \subseteq IdsUpTo(hi) /\ ids \cap IdsUpTo(lo) = {}
  BY <1>4, <1>7
<1>12. IdsUpTo(lo) \subseteq IdsUpTo(hi)
  BY <1>3 DEF IdsUpTo, WantedUpTo
<1> HIDE DEF ids
<1>13. Ids(seen') = Ids(seen) \cup ids
  <2> HIDE DEF new
  <2> QED
    BY <1>8, <1>9 DEF Ids
<1>14. /\ IsFiniteSet(Ids(seen'))
       /\ Cardinality(Ids(seen')) = Cardinality(Ids(seen)) + c
  <2>1. Ids(seen) \cap ids = {}
    BY <1>6, <1>11
  <2>2. /\ IsFiniteSet(Ids(seen) \cup ids)
        /\ Cardinality(Ids(seen) \cup ids)
             = Cardinality(Ids(seen)) + Cardinality(ids) - Cardinality({})
    <3>1. /\ IsFiniteSet(Ids(seen) \cup ids)
          /\ Cardinality(Ids(seen) \cup ids)
               = Cardinality(Ids(seen)) + Cardinality(ids) - Cardinality(Ids(seen) \cap ids)
      BY <1>6, <1>10, FS_Union
    <3> QED
      BY <2>1, <3>1
  <2>3. Cardinality(Ids(seen)) \in Nat /\ Cardinality({}) = 0
    BY <1>6, FS_CardinalityType, FS_EmptySet
  <2>4. Cardinality(Ids(seen')) = Cardinality(Ids(seen)) + c - 0
    BY <1>10, <1>13, <2>2, <2>3
  <2> QED
    BY <1>7, <1>13, <2>2, <2>3, <2>4
<1>15. cut' = cut + (Len(s) - c) /\ cut' \in Nat
  <2>1. Len(s) - c \in Nat
    BY <1>7
  <2>2. cut' = cut + (Len(s) - c)
    BY <1>5, <1>8
  <2> QED
    BY <1>6, <2>1, <2>2
<1>16. Cardinality(Ids(seen')) + cut' = Cardinality(WantedUpTo(hi))
  <2>1. Cardinality(Ids(seen)) \in Nat
    BY <1>6, FS_CardinalityType
  <2> QED
    BY <1>4, <1>6, <1>7, <1>14, <1>15, <2>1
<1>17. warned' \in BOOLEAN /\ (warned' <=> cut' > 0)
  <2>1. warned' = (warned \/ c < Len(s))
    BY <1>5, <1>8
  <2>2. cut' > 0 <=> cut > 0 \/ c < Len(s)
    BY <1>6, <1>7, <1>15
  <2> QED
    BY <1>6, <2>1, <2>2
<1> QED
  BY <1>6, <1>11, <1>12, <1>13, <1>14, <1>15, <1>16, <1>17 DEF hi

\* Whatever came instead of a page, the agent counts what was cut of it and
\* has its page info.
LEMMA ShapeReports ==
    ASSUME ListInv, Shape
    PROVE  /\ cut' \in Nat /\ warned' \in BOOLEAN
           /\ answer'.page_info = PageInfo(response)
<1> DEFINE s == Matching(RowsOf(response))
           out == Answer(response)
<1>1. /\ ListTypeOK /\ (page - 1) * size <= Len(listing)
      /\ response \in {PageOf(page)} \cup Odd /\ limit \in Int
      /\ cut \in Nat /\ warned \in BOOLEAN
  BY DEF ListInv, ListTypeOK, Turning, Shape
<1>2. RowsOf(response) \in Seq(AnyRow)
  BY <1>1, ResponseIs
<1>3. out.page_info = PageInfo(response)
  BY <1>1, <1>2, AnswerIs
<1>4. PICK c \in 0..Len(s) :
        /\ DOMAIN out.data = 1..c
        /\ out.total - out.returned = Len(s) - c
        /\ out.truncated = (c < Len(s))
  BY <1>1, <1>2, AnswerIs
<1>5. Len(s) \in Nat
  <2>1. Matched(AnyRow, RowsOf(response), 0, Len(RowsOf(response)), s)
    BY <1>2, MatchingIsMatched
  <2>2. s \in Seq(AnyRow)
    BY <2>1 DEF Matched
  <2> HIDE DEF s
  <2> QED
    BY <2>2
<1>6. /\ answer' = out
      /\ seen' = seen \cup {out.data[i] : i \in DOMAIN out.data}
      /\ cut' = cut + (out.total - out.returned)
      /\ warned' = (warned \/ out.truncated)
      /\ envelope' = envelope
  BY DEF Shape, request
<1> HIDE DEF s, out
<1>7. cut' \in Nat /\ warned' \in BOOLEAN
  BY <1>1, <1>4, <1>5, <1>6
<1> QED
  BY <1>3, <1>6, <1>7

\* What a step leaves alone keeps its part of the invariant.
LEMMA SameRequest ==
    ASSUME UNCHANGED request
    PROVE  /\ \A n : WantedUpTo(n)' = WantedUpTo(n)
           /\ \A n : IdsUpTo(n)' = IdsUpTo(n)
           /\ \A n : PageOf(n)' = PageOf(n)
<1>1. ASSUME NEW n PROVE WantedUpTo(n)' = WantedUpTo(n)
  BY DEF request, WantedUpTo, Wanted
<1>2. ASSUME NEW n PROVE IdsUpTo(n)' = IdsUpTo(n)
  BY DEF request, IdsUpTo, WantedUpTo, Wanted
<1>3. ASSUME NEW n PROVE PageOf(n)' = PageOf(n)
  BY DEF request, PageOf, PageRows, Smaller
<1> QED
  BY <1>1, <1>2, <1>3

LEMMA TallyKept ==
    ASSUME Tally, UNCHANGED <<request, reader>>, Position' = Position,
           pc' \notin {"answered", "done"} \/ OnPages' =>
             pc \notin {"answered", "done"} \/ OnPages
    PROVE  Tally'
<1>1. CASE pc' \notin {"answered", "done"} \/ OnPages'
  <2>1. /\ Ids(seen) \subseteq IdsUpTo(Position)
        /\ IsFiniteSet(Ids(seen))
        /\ Cardinality(Ids(seen)) + cut = Cardinality(WantedUpTo(Position))
        /\ warned <=> cut > 0
    BY <1>1 DEF Tally
  <2>2. /\ WantedUpTo(Position)' = WantedUpTo(Position)
        /\ IdsUpTo(Position)' = IdsUpTo(Position)
    BY SameRequest DEF request, WantedUpTo, IdsUpTo, Wanted
  <2>3. Ids(seen)' = Ids(seen)
    BY DEF Ids, reader
  <2> QED
    BY <2>1, <2>2, <2>3 DEF Tally, reader
<1>2. CASE ~(pc' \notin {"answered", "done"} \/ OnPages')
  BY <1>2 DEF Tally
<1> QED
  BY <1>1, <1>2

LEMMA AskKeeps == ListInv /\ Ask => ListInv'
<1> SUFFICES ASSUME ListInv, Ask PROVE ListInv'
  OBVIOUS
<1>1. ListTypeOK'
  BY DEF ListInv, ListTypeOK, Ask, request, reader
<1>2. Turning'
  BY DEF ListInv, Turning, Ask, request
<1>3. Position' = Position
  BY DEF Ask, request, Position, Smaller
<1>4. Tally'
  BY <1>3, TallyKept DEF ListInv, Ask
<1> QED
  BY <1>1, <1>2, <1>4 DEF ListInv

LEMMA ServeKeeps == ListInv /\ Serve => ListInv'
<1> SUFFICES ASSUME ListInv, Serve PROVE ListInv'
  OBVIOUS
<1>1. ListTypeOK'
  BY DEF ListInv, ListTypeOK, Serve, request, reader
<1>2. Turning'
  <2>1. response' \in {PageOf(page)} \cup Odd
    BY DEF Serve, PageOf, Odd
  <2>2. PageOf(page)' = PageOf(page)
    BY DEF Serve, request, PageOf, PageRows, Smaller
  <2>3. (response \in {PageOf(page)} \cup Odd)'
    BY <2>1, <2>2 DEF Odd
  <2> QED
    BY <2>3 DEF ListInv, Turning, Serve, request
<1>3. Position' = Position
  BY DEF Serve, request, Position, Smaller
<1>4. Tally'
  BY <1>3, TallyKept DEF ListInv, Serve
<1> QED
  BY <1>1, <1>2, <1>4 DEF ListInv

\* The response and the page that it answers stay.
LEMMA ResponseKept ==
    ASSUME UNCHANGED <<request, page, response>>, response \in {PageOf(page)} \cup Odd
    PROVE  (response \in {PageOf(page)} \cup Odd)'
<1>1. PageOf(page)' = PageOf(page)
  BY DEF request, PageOf, PageRows, Smaller
<1> QED
  BY <1>1 DEF Odd

LEMMA ShapeKeeps == ListInv /\ Shape => ListInv'
<1> SUFFICES ASSUME ListInv, Shape PROVE ListInv'
  OBVIOUS
<1>1. ListTypeOK'
  BY ShapeReports DEF ListInv, ListTypeOK, Shape, request
<1>2. Turning'
  <2>1. (response \in {PageOf(page)} \cup Odd)'
    BY ResponseKept DEF ListInv, Turning, Shape
  <2>2. answer'.page_info = PageInfo(response)'
    BY ShapeReports DEF Shape, request, PageInfo
  <2> QED
    BY <2>1, <2>2 DEF ListInv, Turning, Shape, request
<1>3. Tally'
  <2>1. CASE OnPages
    <3>1. Position' = Smaller(page * size, Len(listing))
      BY DEF Shape, request, Position, Smaller
    <3>2. /\ Ids(seen') \subseteq IdsUpTo(Position')
          /\ IsFiniteSet(Ids(seen'))
          /\ Cardinality(Ids(seen')) + cut' = Cardinality(WantedUpTo(Position'))
          /\ warned' <=> cut' > 0
      BY <2>1, <3>1, ShapeCounts
    <3>3. Ids(seen)' = Ids(seen')
      BY DEF Ids
    <3>4. /\ WantedUpTo(Position)' = WantedUpTo(Position')
          /\ IdsUpTo(Position)' = IdsUpTo(Position')
      BY DEF Shape, request, WantedUpTo, IdsUpTo, Wanted
    <3> QED
      BY <3>2, <3>3, <3>4 DEF Tally
  <2>2. CASE ~OnPages
    BY <2>2 DEF Shape, Tally, OnPages
  <2> QED
    BY <2>1, <2>2
<1> QED
  BY <1>1, <1>2, <1>3 DEF ListInv

LEMMA RaiseKeeps == ListInv /\ Raise => ListInv'
<1> SUFFICES ASSUME ListInv, Raise PROVE ListInv'
  OBVIOUS
<1>1. ListTypeOK'
  BY DEF ListInv, ListTypeOK, Raise, request, reader
<1>2. ~OnPages'
  BY DEF Raise, Raises, OnPages
<1>3. Turning'
  <2>1. (response \in {PageOf(page)} \cup Odd)'
    BY ResponseKept DEF ListInv, Turning, Raise
  <2> QED
    BY <1>2, <2>1 DEF ListInv, Turning, Raise, request
<1>4. Tally'
  BY <1>2 DEF Raise, Tally
<1> QED
  BY <1>1, <1>3, <1>4 DEF ListInv

\* What an answered page reports of the pages after it.
LEMMA MoreIs ==
    ASSUME ListInv, pc = "answered"
    PROVE  /\ MoreReported => OnPages /\ page * size < Len(listing)
           /\ OnPages /\ ~MoreReported => Len(listing) <= page * size
<1>1. /\ answer.page_info = PageInfo(response) /\ response \in {PageOf(page)} \cup Odd
      /\ ListTypeOK /\ (page - 1) * size <= Len(listing)
  BY DEF ListInv, Turning
<1>2. Len(listing) \in Nat /\ None # Len(listing)
  BY <1>1, ListingIs, ListAssumption
<1>3. page * size \in Nat /\ size <= page * size
  <2>1. page - 1 \in Nat /\ size \in Nat /\ page - 1 + 1 = page
    BY <1>1 DEF ListTypeOK
  <2>2. (page - 1) * size \in Nat /\ page * size = (page - 1) * size + size
    BY <2>1, OnePageMore
  <2> QED
    BY <2>1, <2>2
<1>4. size \in Nat /\ (envelope # "counted" => Len(listing) < size)
  BY <1>1 DEF ListTypeOK
<1>5. OnPages => response.count = Len(listing)
  BY <1>1, ResponseIs DEF PageOf
<1>6. ~OnPages => response.count = 0
  BY <1>1, ResponseIs
<1>7. MoreReported <=> envelope = "counted" /\ response.count # None /\ page * size < response.count
  BY <1>1 DEF MoreReported, PageInfo
<1> QED
  BY <1>2, <1>3, <1>4, <1>5, <1>6, <1>7

LEMMA TurnKeeps == ListInv /\ Turn => ListInv'
<1> SUFFICES ASSUME ListInv, Turn PROVE ListInv'
  OBVIOUS
<1>1. OnPages /\ page * size < Len(listing)
  BY MoreIs DEF Turn
<1>2. page' \in Nat \ {0} /\ page' - 1 = page
  BY DEF ListInv, ListTypeOK, Turn
<1>3. ListTypeOK'
  BY <1>2 DEF ListInv, ListTypeOK, Turn, request, reader
<1>4. Len(listing) \in Nat /\ page * size \in Nat
  <2>1. page \in Nat /\ size \in Nat
    BY DEF ListInv, ListTypeOK
  <2> QED
    BY <2>1, OnePageMore, ListingIs DEF ListInv
<1>5. Turning'
  BY <1>1, <1>2, <1>4 DEF ListInv, Turning, Turn, request
<1>6. Position' = Position
  BY <1>2 DEF Turn, request, Position, Smaller
<1>7. Tally'
  BY <1>1, <1>6, TallyKept DEF ListInv, Turn
<1> QED
  BY <1>3, <1>5, <1>7 DEF ListInv

LEMMA StopKeeps == ListInv /\ Stop => ListInv'
<1> SUFFICES ASSUME ListInv, Stop PROVE ListInv'
  OBVIOUS
<1>1. OnPages => Len(listing) <= page * size
  BY MoreIs DEF Stop
<1>2. ListTypeOK'
  BY DEF ListInv, ListTypeOK, Stop, request, reader
<1>3. OnPages' = OnPages
  BY DEF Stop, OnPages
<1>4. Turning'
  <2>1. (response \in {PageOf(page)} \cup Odd)'
    BY ResponseKept DEF ListInv, Turning, Stop
  <2> QED
    BY <1>1, <1>3, <2>1 DEF ListInv, Turning, Stop, request
<1>5. Position' = Position
  BY DEF Stop, request, Position, Smaller
<1>6. Tally'
  BY <1>3, <1>5, TallyKept DEF ListInv, Stop
<1> QED
  BY <1>2, <1>4, <1>6 DEF ListInv

LEMMA ListStill == ListInv /\ UNCHANGED vars => ListInv'
<1> SUFFICES ASSUME ListInv, UNCHANGED vars PROVE ListInv'
  OBVIOUS
<1>1. ListTypeOK'
  BY DEF ListInv, ListTypeOK, vars
<1>2. OnPages' = OnPages
  BY DEF vars, OnPages
<1>3. Turning'
  BY <1>2 DEF ListInv, Turning, vars, PageOf, PageRows, Odd, PageInfo, Smaller
<1>4. Position' = Position
  BY DEF vars, Position, Smaller
<1>5. Tally'
  BY <1>2, <1>4, TallyKept DEF ListInv, vars, request, reader
<1> QED
  BY <1>1, <1>3, <1>5 DEF ListInv

-----------------------------------------------------------------------------
(***************************************************************************)
(* Reading a listing: the theorems                                         *)
(***************************************************************************)

\* Every page of every size, with every limit and filter, and every odd answer,
\* leaves the reader with ids of wanted rows that were read, and a count of
\* those that were cut.
THEOREM ListInvariance == Spec => []ListInv
<1>1. ListInv /\ [Next]_vars => ListInv'
  <2> SUFFICES ASSUME ListInv, [Next]_vars PROVE ListInv'
    OBVIOUS
  <2>1. CASE Ask
    BY <2>1, AskKeeps
  <2>2. CASE Serve
    BY <2>2, ServeKeeps
  <2>3. CASE Shape
    BY <2>3, ShapeKeeps
  <2>4. CASE Raise
    BY <2>4, RaiseKeeps
  <2>5. CASE Turn
    BY <2>5, TurnKeeps
  <2>6. CASE Stop
    BY <2>6, StopKeeps
  <2>7. CASE Over \/ UNCHANGED vars
    BY <2>7, ListStill DEF Over
  <2> QED
    BY <2>1, <2>2, <2>3, <2>4, <2>5, <2>6, <2>7 DEF Next
<1> QED
  BY <1>1, ListInitially, PTL DEF Spec

\* The rows got and the rows reported as cut add up to what the pages read so
\* far had of what was asked for: cut of the limit, count of the filter and
\* count of the proxy are never mixed.
THEOREM CutsCountedThm == Spec => []CutsCounted
<1>1. ListInv => CutsCounted
  <2> SUFFICES ASSUME ListInv, pc \in {"answered", "done"}, Regular
               PROVE  Cardinality(Ids(seen)) + cut
                        = Cardinality({i \in 1..Smaller(page * size, Len(listing)) :
                                         Wanted(listing[i])})
    BY DEF CutsCounted
  <2>1. Position = Smaller(page * size, Len(listing)) /\ OnPages
    BY DEF Position, Regular, OnPages
  <2> QED
    BY <2>1 DEF ListInv, Tally, WantedUpTo
<1> QED
  BY <1>1, ListInvariance, PTL

\* "the caller cannot miss that data was truncated": after the last page that
\* is reported, a page was marked truncated exactly when a wanted row is
\* missing, for listings, pages and limits of any size.
THEOREM NothingMissedSilentlyThm == Spec => []NothingMissedSilently
<1>1. ListInv => NothingMissedSilently
  <2> SUFFICES ASSUME ListInv, pc = "done", Regular
               PROVE  warned <=> Ids(seen) # Ids({r \in ToSet(listing) : Wanted(r)})
    BY DEF NothingMissedSilently
  <2> DEFINE n == Len(listing)
             all == IdsUpTo(n)
  <2>1. ListTypeOK /\ n \in Nat /\ listing \in Seq(Rows)
    BY ListingIs DEF ListInv
  <2>2. OnPages /\ n <= page * size /\ page * size \in Nat
    <3>1. page \in Nat /\ size \in Nat
      BY DEF ListInv, ListTypeOK
    <3> QED
      BY <3>1, OnePageMore DEF ListInv, Turning, Regular, OnPages
  <2>3. Position = n
    <3>1. Position = Smaller(page * size, n)
      BY DEF Position
    <3> QED
      BY <2>1, <2>2, <3>1 DEF Smaller
  <2>4. /\ Ids(seen) \subseteq all
        /\ IsFiniteSet(Ids(seen))
        /\ Cardinality(Ids(seen)) + cut = Cardinality(WantedUpTo(n))
        /\ warned <=> cut > 0
        /\ cut \in Nat
    BY <2>2, <2>3 DEF ListInv, ListTypeOK, Tally
  <2>5. IsFiniteSet(all) /\ Cardinality(all) = Cardinality(WantedUpTo(n))
    BY <2>1, WantedIds
  <2>6. Ids({r \in ToSet(listing) : Wanted(r)}) = all
    BY <2>1 DEF Ids, ToSet, IdsUpTo, WantedUpTo
  <2> HIDE DEF n, all
  <2>7. Cardinality(Ids(seen)) \in Nat /\ Cardinality(all) \in Nat
    BY <2>4, <2>5, FS_CardinalityType
  <2>8. cut > 0 <=> Ids(seen) # all
    <3>1. Cardinality(Ids(seen)) + cut = Cardinality(all)
      BY <2>4, <2>5
    <3>2. Cardinality(all) = Cardinality(Ids(seen)) => Ids(seen) = all
      BY <2>4, <2>5, FS_Subset
    <3> QED
      BY <2>4, <2>7, <3>1, <3>2
  <2> QED
    BY <2>4, <2>6, <2>8
<1> QED
  BY <1>1, ListInvariance, PTL

=============================================================================
