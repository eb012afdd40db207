---------------------------- MODULE RegistryProofs ----------------------------
(***************************************************************************)
(* Theorems about Registry, for any package of tagged functions.           *)
(*                                                                         *)
(* The argument: every entry of a group is a function of that group with   *)
(* that name, and so is the function that holds its place (Collected), and *)
(* no function that was walked is missing (Walked).  A table is made of    *)
(* its group's entries (Tabled); of the names that fall onto one operation *)
(* the one with the last place exists, for places are numbers up to the    *)
(* number of functions (TableEntries).  The index names tables that hold   *)
(* what they are named for, and every operation of a table that was not    *)
(* aborted is in it, perhaps for another group.                            *)
(***************************************************************************)
EXTENDS Registry, WellFoundedInduction, TLAPS

(***************************************************************************)
(* What a table is made of                                                 *)
(***************************************************************************)

\* A set of numbers up to n has a largest one: the names that share an
\* operation have a last place.
LEMMA HasLargest ==
    ASSUME NEW n \in Nat, NEW S \in SUBSET (0..n), S # {}
    PROVE  \E m \in S : \A k \in S : k <= m
<1> DEFINE R == {ss \in Nat \X Nat : ss[1] < ss[2]}
           T == {k \in Nat : n - k \in S}
<1>1. IsWellFoundedOn(R, Nat)
  BY NatLessThanWellFounded, Zenon DEF OpToRel
<1>2. T \subseteq Nat /\ T # {}
  <2>1. PICK s \in S : TRUE
    OBVIOUS
  <2>2. n - s \in Nat /\ n - (n - s) = s
    OBVIOUS
  <2> QED
    BY <2>1, <2>2
<1>3. PICK t \in T : \A y \in T : ~(<<y, t>> \in R)
  <2> HIDE DEF R, T
  <2> QED
    BY <1>1, <1>2, WFMin
<1>4. \A y \in T : ~(y < t)
  <2> SUFFICES ASSUME NEW y \in T, y < t PROVE <<y, t>> \in R
    BY <1>3
  <2> QED
    BY <1>2
<1>5. \A k \in S : n - k \in T
  <2> SUFFICES ASSUME NEW k \in S PROVE n - k \in Nat /\ n - (n - k) \in S
    OBVIOUS
  <2>1. k \in 0..n
    OBVIOUS
  <2>2. n - k \in Nat /\ n - (n - k) = k
    BY <2>1
  <2> QED
    BY <2>2
<1>6. \A k \in S : ~(n - k < t)
  BY <1>4, <1>5
<1>7. n - t \in S /\ t \in Nat
  OBVIOUS
<1>8. \A k \in S : k <= n - t
  BY <1>6, <1>7
<1> QED
  BY <1>7, <1>8

\* What a group's entries are: the function of a name and the one that holds
\* its place, both of the group and the name.
EntriesOf(g, fns) ==
    /\ DOMAIN fns \subseteq Names
    /\ \A n \in DOMAIN fns :
         /\ fns[n].fn \in 1..walked /\ fns[n].place \in 1..walked
         /\ tagged[fns[n].fn].name = n /\ tagged[fns[n].fn].group = g
         /\ tagged[fns[n].place].name = n /\ tagged[fns[n].place].group = g

\* An operation of a table is the form of some name of the group, and its
\* function is that name's.
LEMMA TableEntries ==
    ASSUME NEW g, NEW fns, EntriesOf(g, fns), walked \in Nat, NEW o \in DOMAIN TableOf(fns)
    PROVE  \E n \in DOMAIN fns : Pascal[n] = o /\ TableOf(fns)[o] = fns[n].fn
<1> DEFINE same == {n \in DOMAIN fns : Pascal[n] = o}
           S == {fns[n].place : n \in same}
<1>1. DOMAIN TableOf(fns) = {Pascal[n] : n \in DOMAIN fns}
  BY DEF TableOf
<1>2. same # {}
  BY <1>1
<1>3. S \in SUBSET (0..walked) /\ S # {}
  <2>1. \A n \in DOMAIN fns : fns[n].place \in 0..walked
    <3> HIDE DEF same, S
    <3>1. \A n \in DOMAIN fns : fns[n].place \in 1..walked
      BY DEF EntriesOf
    <3> QED
      BY <3>1
  <2> QED
    BY <2>1, <1>2
<1>4. PICK m \in S : \A k \in S : k <= m
  <2> HIDE DEF S
  <2> QED
    BY <1>3, HasLargest
<1>5. \E n \in same : \A l \in same : fns[l].place <= fns[n].place
  BY <1>4
<1> DEFINE last == CHOOSE n \in same : \A l \in same : fns[l].place <= fns[n].place
<1>6. last \in same
  <2> HIDE DEF same
  <2> QED
    BY <1>5
<1>7. TableOf(fns)[o] = fns[last].fn
  BY <1>1 DEF TableOf
<1> HIDE DEF last
<1> QED
  BY <1>6, <1>7

(***************************************************************************)
(* The inductive invariant                                                 *)
(***************************************************************************)

TypeOK ==
    /\ tagged \in Seq(Tools)
    /\ walked \in 0..Len(tagged)
    /\ pending \in Seq(Groups)
    /\ phase \in {"walking", "tabling", "ready", "aborted"}

\* Before the walk ends there is no table; afterwards every function has been
\* looked at; the server starts when no group is left.
Phased ==
    /\ phase = "walking" => DOMAIN tables = {} /\ DOMAIN index = {}
    /\ phase \in {"tabling", "ready"} => walked = Len(tagged)
    /\ phase = "ready" => pending = <<>>

Collected == \A g \in DOMAIN groups : g \in Groups /\ EntriesOf(g, groups[g])

Kept(i) ==
    IF tagged[i].group = Root THEN tagged[i].name \in served
    ELSE /\ tagged[i].group \in DOMAIN groups
         /\ tagged[i].name \in DOMAIN groups[tagged[i].group]

Walked == \A i \in 1..walked : Kept(i)

\* A group waits for its table or has it.
Opened ==
    /\ \A k \in 1..Len(pending) : pending[k] \in DOMAIN groups
    /\ \A g \in DOMAIN groups :
         g \in DOMAIN tables \/ \E k \in 1..Len(pending) : pending[k] = g

Tabled ==
    \A g \in DOMAIN tables :
        /\ g \in DOMAIN groups /\ tables[g] = TableOf(groups[g])
        /\ phase # "aborted" => g \in served /\ DOMAIN tables[g] \subseteq DOMAIN index

\* An agent was answered by a group, or followed a redirect and is done.
Answered ==
    ask # None =>
        /\ phase = "ready"
        /\ ask \in [op : Ops, first : DOMAIN tables, hops : {0, 1},
                    answer : [result : {"runs", "redirect", "unknown"}, to : DOMAIN tables]]
        /\ \/ /\ ask.hops = 0
              /\ ask.answer = Dispatch(ask.first, ask.op)
           \/ ask.hops = 1 /\ ask.answer.result = "runs"

Found ==
    found # None =>
        /\ phase = "ready"
        /\ found.by \in DOMAIN tables /\ found.hits \subseteq Grouped
        /\ found.names = Matches(found.by, found.hits)

IInv ==
    /\ TypeOK /\ Phased /\ Collected /\ Walked /\ Opened /\ Tabled
    /\ IndexSound /\ Answered /\ Found

LEMMA InitIInv == Init => IInv
<1> SUFFICES ASSUME Init PROVE IInv
  OBVIOUS
<1>1. PICK n \in 0..MaxTools : tagged \in [1..n -> Tools]
  BY DEF Init
<1>2. n \in Nat
  BY <1>1, RegistryAssumption
<1>3. tagged \in Seq(Tools) /\ Len(tagged) \in Nat
  BY <1>1, <1>2
<1>4. TypeOK
  BY <1>3 DEF Init, TypeOK
<1>5. DOMAIN NoFunctions = {}
  BY DEF NoFunctions
<1> QED
  BY <1>4, <1>5 DEF Init, IInv, Phased, Collected, Walked, Opened, Tabled,
     IndexSound, Answered, Found

(***************************************************************************)
(* Every step preserves it, action by action                               *)
(***************************************************************************)

LEMMA WalkRootStep ==
    ASSUME IInv, WalkRoot
    PROVE  IInv'
<1> USE DEF IInv, WalkRoot
<1>1. /\ walked' = walked + 1 /\ walked' \in 0..Len(tagged)
      /\ walked \in Nat /\ tagged \in Seq(Tools)
  BY DEF TypeOK
<1>2. TypeOK' /\ Phased'
  BY <1>1 DEF TypeOK, Phased
<1>3. Collected'
  BY <1>1 DEF Collected, EntriesOf
<1>4. Walked'
  <2> SUFFICES ASSUME NEW i \in 1..walked' PROVE Kept(i)'
    BY DEF Walked
  <2>1. CASE i = walked + 1
    BY <2>1 DEF Kept
  <2>2. CASE i # walked + 1
    <3>1. i \in 1..walked
      BY <2>2, <1>1
    <3> QED
      BY <3>1 DEF Walked, Kept
  <2> QED
    BY <2>1, <2>2
<1>5. Opened' /\ Tabled' /\ IndexSound'
  BY DEF Opened, Tabled, IndexSound
<1>6. Answered' /\ Found'
  BY DEF Answered, Found, agent
<1> QED
  BY <1>2, <1>3, <1>4, <1>5, <1>6

LEMMA WalkGroupedStep ==
    ASSUME IInv, WalkGrouped
    PROVE  IInv'
<1> USE DEF IInv
<1>0. PICK i \in 1..Len(tagged) : walked \in Nat /\ i = walked + 1 /\ walked' = i
  BY DEF TypeOK, WalkGrouped
<1>1. PICK g \in Groups, n \in Names :
        tagged[i].name = n /\ tagged[i].group = g
  <2>1. tagged[i] \in Tools
    BY DEF TypeOK
  <2>2. tagged[i].group # Root
    BY <1>0 DEF WalkGrouped
  <2> QED
    BY <2>1, <2>2 DEF Tools
<1>2. PICK fns : fns = IF g \in DOMAIN groups THEN groups[g] ELSE NoFunctions
  OBVIOUS
<1>3. PICK entry :
        entry = [fn |-> i, place |-> IF n \in DOMAIN fns THEN fns[n].place ELSE i]
  OBVIOUS
<1>4. /\ phase = "walking" /\ walked < Len(tagged)
      /\ groups' = Put(groups, g, Put(fns, n, entry))
      /\ pending' = IF g \in DOMAIN groups THEN pending ELSE Append(pending, g)
      /\ UNCHANGED <<tagged, tables, index, served, phase, agent>>
  BY <1>0, <1>1, <1>2, <1>3 DEF WalkGrouped
<1>f. EntriesOf(g, fns) /\ (g \in DOMAIN groups => fns = groups[g])
  BY <1>2 DEF Collected, EntriesOf, NoFunctions
<1>e. /\ entry.fn = i /\ entry.place \in 1..i
      /\ tagged[entry.place].name = n /\ tagged[entry.place].group = g
  BY <1>0, <1>1, <1>3, <1>f DEF EntriesOf
<1>s. TypeOK' /\ Phased'
  <2>1. pending' \in Seq(Groups)
    BY <1>4 DEF TypeOK
  <2> QED
    BY <2>1, <1>0, <1>4 DEF TypeOK, Phased
<1>p. PICK f : f = Put(fns, n, entry)
  OBVIOUS
<1>5. /\ DOMAIN groups' = DOMAIN groups \cup {g}
      /\ groups'[g] = f
      /\ \A h \in DOMAIN groups \ {g} : groups'[h] = groups[h]
  <2>1. groups' = Put(groups, g, f)
    BY <1>4, <1>p
  <2> QED
    BY <2>1 DEF Put
<1>6. /\ DOMAIN f = DOMAIN fns \cup {n}
      /\ f[n] = entry
      /\ \A m \in DOMAIN fns \ {n} : f[m] = fns[m]
  BY <1>p DEF Put
<1>7. Collected'
  <2> SUFFICES ASSUME NEW h \in DOMAIN groups' PROVE h \in Groups /\ EntriesOf(h, groups[h])'
    BY DEF Collected
  <2>1. CASE h # g
    <3>1. h \in Groups /\ EntriesOf(h, groups[h]) /\ groups'[h] = groups[h]
      BY <2>1, <1>5 DEF Collected
    <3> QED
      BY <3>1, <1>0, <1>4 DEF EntriesOf
  <2>2. CASE h = g
    <3>1. DOMAIN f \subseteq Names
      BY <1>6, <1>f DEF EntriesOf
    <3>2. walked' \in Nat /\ walked' = i /\ walked \in Nat /\ UNCHANGED tagged
      BY <1>0, <1>4
    <3>3. ASSUME NEW m \in DOMAIN f
          PROVE  /\ f[m].fn \in 1..walked' /\ f[m].place \in 1..walked'
                 /\ tagged[f[m].fn].name = m /\ tagged[f[m].fn].group = g
                 /\ tagged[f[m].place].name = m /\ tagged[f[m].place].group = g
      <4>1. CASE m = n
        BY <4>1, <3>2, <1>1, <1>6, <1>e
      <4>2. CASE m # n
        <5>1. m \in DOMAIN fns /\ f[m] = fns[m]
          BY <4>2, <1>6
        <5>2. /\ fns[m].fn \in 1..walked /\ fns[m].place \in 1..walked
              /\ tagged[fns[m].fn].name = m /\ tagged[fns[m].fn].group = g
              /\ tagged[fns[m].place].name = m /\ tagged[fns[m].place].group = g
          BY <5>1, <1>f DEF EntriesOf
        <5> QED
          BY <5>1, <5>2, <3>2, <1>0
      <4> QED
        BY <4>1, <4>2
    <3>4. EntriesOf(g, f)'
      BY <3>1, <3>2, <3>3 DEF EntriesOf
    <3> QED
      BY <3>4, <2>2, <1>5
  <2> QED
    BY <2>1, <2>2
<1>8. Walked'
  <2> SUFFICES ASSUME NEW j \in 1..walked' PROVE Kept(j)'
    BY DEF Walked
  <2>1. CASE j = i
    <3>1. n \in DOMAIN groups'[g] /\ g \in DOMAIN groups'
      BY <1>5, <1>6
    <3>2. tagged'[j].name = n /\ tagged'[j].group = g
      BY <2>1, <1>1, <1>4
    <3>3. g # Root
      BY RegistryAssumption
    <3> QED
      BY <3>1, <3>2, <3>3 DEF Kept
  <2>2. CASE j # i
    <3>1. j \in 1..walked
      BY <2>2, <1>0
    <3>2. Kept(j)
      BY <3>1 DEF Walked
    <3>3. ASSUME NEW h, NEW m, h \in DOMAIN groups, m \in DOMAIN groups[h]
          PROVE  h \in DOMAIN groups' /\ m \in DOMAIN groups'[h]
      BY <3>3, <1>5, <1>6, <1>f
    <3> QED
      BY <3>2, <3>3, <1>4 DEF Kept
  <2> QED
    BY <2>1, <2>2
<1>9. Opened'
  <2>1. CASE g \in DOMAIN groups
    BY <2>1, <1>4, <1>5 DEF Opened
  <2>2. CASE g \notin DOMAIN groups
    <3>1. /\ Len(pending') = Len(pending) + 1 /\ pending'[Len(pending) + 1] = g
          /\ \A k \in 1..Len(pending) : pending'[k] = pending[k]
          /\ Len(pending) \in Nat
      BY <2>2, <1>4 DEF TypeOK
    <3>2. \A k \in 1..Len(pending') : pending'[k] \in DOMAIN groups'
      BY <3>1, <1>5 DEF Opened
    <3>3. \A h \in DOMAIN groups' :
            h \in DOMAIN tables' \/ \E k \in 1..Len(pending') : pending'[k] = h
      BY <3>1, <1>4, <1>5 DEF Opened
    <3> QED
      BY <3>2, <3>3 DEF Opened
  <2> QED
    BY <2>1, <2>2
<1>10. Tabled' /\ IndexSound'
  BY <1>4 DEF Phased, Tabled, IndexSound
<1>11. Answered' /\ Found'
  BY <1>4 DEF Answered, Found, agent
<1> QED
  BY <1>s, <1>7, <1>8, <1>9, <1>10, <1>11

LEMMA AbortWalkStep ==
    ASSUME IInv, AbortWalk
    PROVE  IInv'
<1> USE DEF IInv
<1>1. /\ phase = "walking" /\ phase' = "aborted"
      /\ UNCHANGED <<tagged, walked, groups, pending, tables, index, served, agent>>
  BY DEF AbortWalk
<1>2. TypeOK' /\ Phased' /\ Opened' /\ IndexSound'
  BY <1>1 DEF TypeOK, Phased, Opened, IndexSound
<1>3. Collected' /\ Walked'
  BY <1>1 DEF Collected, EntriesOf, Walked, Kept
<1>4. Tabled'
  BY <1>1 DEF Tabled
<1>5. Answered' /\ Found'
  BY <1>1 DEF Answered, Found, agent
<1> QED
  BY <1>2, <1>3, <1>4, <1>5

LEMMA EndWalkStep ==
    ASSUME IInv, EndWalk \/ Serve
    PROVE  IInv'
<1> USE DEF IInv
<1>1. /\ UNCHANGED <<tagged, walked, groups, pending, tables, index, served, agent>>
      /\ \/ phase = "walking" /\ walked = Len(tagged) /\ phase' = "tabling"
         \/ phase = "tabling" /\ pending = <<>> /\ phase' = "ready"
  BY DEF EndWalk, Serve
<1>2. TypeOK' /\ Phased' /\ Opened' /\ IndexSound'
  BY <1>1 DEF TypeOK, Phased, Opened, IndexSound
<1>3. Collected' /\ Walked'
  BY <1>1 DEF Collected, EntriesOf, Walked, Kept
<1>4. Tabled'
  BY <1>1 DEF Tabled
<1>5. Answered' /\ Found'
  BY <1>1 DEF Answered, Found, agent
<1> QED
  BY <1>2, <1>3, <1>4, <1>5

LEMMA TableStep ==
    ASSUME IInv, Table
    PROVE  IInv'
<1> USE DEF IInv
<1>1. PICK g : g = Head(pending)
  OBVIOUS
<1>2. PICK t : t = TableOf(groups[g])
  OBVIOUS
<1>3. /\ phase = "tabling" /\ pending # <<>>
      /\ tables' = Put(tables, g, t)
      /\ index' = [o \in DOMAIN index \cup DOMAIN t |->
                      IF o \in DOMAIN t THEN g ELSE index[o]]
      /\ served' = served \cup {g}
      /\ pending' = Tail(pending)
      /\ UNCHANGED <<tagged, walked, groups, phase, agent>>
  BY <1>1, <1>2 DEF Table
<1>4. g \in DOMAIN groups /\ g \in Groups
  <2>1. 1 \in 1..Len(pending) /\ g = pending[1]
    BY <1>1, <1>3 DEF TypeOK
  <2> QED
    BY <2>1 DEF Opened, Collected
<1>5. /\ DOMAIN tables' = DOMAIN tables \cup {g}
      /\ tables'[g] = t
      /\ \A h \in DOMAIN tables \ {g} : tables'[h] = tables[h]
  BY <1>3 DEF Put
<1>6. \A h \in DOMAIN tables : tables'[h] = tables[h]
  BY <1>2, <1>5 DEF Tabled
<1>7. TypeOK' /\ Phased'
  BY <1>3 DEF TypeOK, Phased
<1>8. Collected' /\ Walked'
  BY <1>3 DEF Collected, EntriesOf, Walked, Kept
<1>9. Opened'
  <2>1. /\ Len(pending') = Len(pending) - 1 /\ Len(pending) \in Nat
        /\ \A k \in 1..Len(pending') : pending'[k] = pending[k + 1]
        /\ g = pending[1]
    BY <1>1, <1>3 DEF TypeOK
  <2>2. \A k \in 1..Len(pending') : pending'[k] \in DOMAIN groups'
    BY <2>1, <1>3 DEF Opened
  <2>3. ASSUME NEW h \in DOMAIN groups, h \notin DOMAIN tables'
        PROVE  \E k \in 1..Len(pending') : pending'[k] = h
    <3>1. PICK k \in 1..Len(pending) : pending[k] = h
      BY <2>3, <1>5 DEF Opened
    <3>2. k # 1
      BY <3>1, <2>1, <2>3, <1>5
    <3>3. k - 1 \in 1..Len(pending') /\ pending'[k - 1] = h
      BY <3>1, <3>2, <2>1
    <3> QED
      BY <3>3
  <2> QED
    BY <2>2, <2>3, <1>3 DEF Opened
<1>10. Tabled'
  <2> SUFFICES ASSUME NEW h \in DOMAIN tables'
               PROVE  /\ h \in DOMAIN groups /\ tables'[h] = TableOf(groups[h])
                      /\ h \in served' /\ DOMAIN tables'[h] \subseteq DOMAIN index'
    BY <1>3 DEF Tabled
  <2>1. CASE h = g
    BY <2>1, <1>2, <1>3, <1>4, <1>5
  <2>2. CASE h # g
    BY <2>2, <1>3, <1>5 DEF Tabled
  <2> QED
    BY <2>1, <2>2
<1>11. IndexSound'
  <2> SUFFICES ASSUME NEW o \in DOMAIN index'
               PROVE  index'[o] \in DOMAIN tables' /\ o \in DOMAIN tables'[index'[o]]
    BY DEF IndexSound
  <2>1. CASE o \in DOMAIN t
    BY <2>1, <1>3, <1>5
  <2>2. CASE o \notin DOMAIN t
    <3>1. index'[o] = index[o] /\ index[o] \in DOMAIN tables /\ o \in DOMAIN tables[index[o]]
      BY <2>2, <1>3 DEF IndexSound
    <3> QED
      BY <3>1, <1>5, <1>6
  <2> QED
    BY <2>1, <2>2
<1>12. Answered' /\ Found'
  BY <1>3 DEF Answered, Found, agent
<1> QED
  BY <1>7, <1>8, <1>9, <1>10, <1>11, <1>12

LEMMA AbortStep ==
    ASSUME IInv, Abort
    PROVE  IInv'
<1> USE DEF IInv
<1>1. PICK g : g = Head(pending)
  OBVIOUS
<1>2. PICK t : t = TableOf(groups[g])
  OBVIOUS
<1>3. /\ phase = "tabling" /\ pending # <<>> /\ phase' = "aborted"
      /\ tables' = Put(tables, g, t)
      /\ UNCHANGED <<tagged, walked, groups, pending, index, served, agent>>
  BY <1>1, <1>2 DEF Abort
<1>4. g \in DOMAIN groups
  <2>1. 1 \in 1..Len(pending) /\ g = pending[1]
    BY <1>1, <1>3 DEF TypeOK
  <2> QED
    BY <2>1 DEF Opened
<1>5. /\ DOMAIN tables' = DOMAIN tables \cup {g}
      /\ tables'[g] = t
      /\ \A h \in DOMAIN tables \ {g} : tables'[h] = tables[h]
  BY <1>3 DEF Put
<1>6. \A h \in DOMAIN tables : tables'[h] = tables[h]
  BY <1>2, <1>5 DEF Tabled
<1>7. TypeOK' /\ Phased' /\ Opened'
  BY <1>3, <1>5 DEF TypeOK, Phased, Opened
<1>8. Collected' /\ Walked'
  BY <1>3 DEF Collected, EntriesOf, Walked, Kept
<1>9. Tabled'
  <2> SUFFICES ASSUME NEW h \in DOMAIN tables'
               PROVE  h \in DOMAIN groups /\ tables'[h] = TableOf(groups[h])
    BY <1>3 DEF Tabled
  <2> QED
    BY <1>2, <1>4, <1>5 DEF Tabled
<1>10. IndexSound'
  BY <1>3, <1>5, <1>6 DEF IndexSound
<1>11. Answered' /\ Found'
  BY <1>3 DEF Answered, Found, agent
<1> QED
  BY <1>7, <1>8, <1>9, <1>10, <1>11

\* What a group answers, and that following a redirect ends in the operation.
LEMMA DispatchAnswers ==
    ASSUME IndexSound, NEW g \in DOMAIN tables, NEW o
    PROVE  /\ Dispatch(g, o) \in [result : {"runs", "redirect", "unknown"}, to : DOMAIN tables]
           /\ o \in DOMAIN tables[g] => Dispatch(g, o).result = "runs"
           /\ Dispatch(g, o).result = "redirect" =>
                  o \in DOMAIN tables[Dispatch(g, o).to]
           /\ Dispatch(g, o).result = "unknown" =>
                  o \notin DOMAIN tables[g] /\ o \notin DOMAIN index
<1>1. CASE o \in DOMAIN tables[g]
  BY <1>1 DEF Dispatch
<1>2. CASE o \notin DOMAIN tables[g] /\ o \in DOMAIN index
  <2>1. Dispatch(g, o) = [result |-> "redirect", to |-> index[o]]
    BY <1>2 DEF Dispatch
  <2> QED
    BY <1>2, <2>1 DEF IndexSound
<1>3. CASE o \notin DOMAIN tables[g] /\ o \notin DOMAIN index
  <2>1. Dispatch(g, o) = [result |-> "unknown", to |-> g]
    BY <1>3 DEF Dispatch
  <2> QED
    BY <1>3, <2>1
<1> QED
  BY <1>1, <1>2, <1>3

LEMMA CallStep ==
    ASSUME IInv, Call
    PROVE  IInv'
<1> USE DEF IInv
<1>1. PICK g \in DOMAIN tables, o \in Ops :
        ask' = [op |-> o, first |-> g, hops |-> 0, answer |-> Dispatch(g, o)]
  BY DEF Call
<1>2. /\ phase = "ready" /\ found = None
      /\ UNCHANGED <<tagged, walked, groups, pending, tables, index, served, phase, found>>
  BY DEF Call, agent
<1>3. TypeOK' /\ Phased' /\ Opened' /\ Tabled' /\ IndexSound'
  BY <1>2 DEF TypeOK, Phased, Opened, Tabled, IndexSound
<1>4. Collected' /\ Walked'
  BY <1>2 DEF Collected, EntriesOf, Walked, Kept
<1>5. PICK d : d = Dispatch(g, o)
  OBVIOUS
<1>6. d \in [result : {"runs", "redirect", "unknown"}, to : DOMAIN tables]
  BY <1>5, DispatchAnswers
<1>7. ask' = [op |-> o, first |-> g, hops |-> 0, answer |-> d]
  BY <1>1, <1>5
<1>8. Dispatch(g, o)' = d
  BY <1>2, <1>5 DEF Dispatch
<1>9. Answered'
  <2>1. ask'.first = g /\ ask'.op = o /\ ask'.hops = 0 /\ ask'.answer = d
    BY <1>7
  <2>2. Dispatch(ask.first, ask.op)' = d
    BY <1>2, <1>5, <2>1 DEF Dispatch
  <2> QED
    BY <1>2, <1>6, <1>7, <2>1, <2>2 DEF Answered
<1>10. Found'
  BY <1>2 DEF Found
<1> QED
  BY <1>3, <1>4, <1>9, <1>10

LEMMA FollowStep ==
    ASSUME IInv, Follow
    PROVE  IInv'
<1> USE DEF IInv
<1>1. /\ phase = "ready" /\ ask # None /\ ask.answer.result = "redirect"
      /\ ask' = [ask EXCEPT !.hops = @ + 1, !.answer = Dispatch(ask.answer.to, ask.op)]
      /\ UNCHANGED <<tagged, walked, groups, pending, tables, index, served, phase, found>>
  BY DEF Follow
<1>2. TypeOK' /\ Phased' /\ Opened' /\ Tabled' /\ IndexSound'
  BY <1>1 DEF TypeOK, Phased, Opened, Tabled, IndexSound
<1>3. Collected' /\ Walked'
  BY <1>1 DEF Collected, EntriesOf, Walked, Kept
<1>4. /\ ask.hops = 0 /\ ask.first \in DOMAIN tables
      /\ ask.answer = Dispatch(ask.first, ask.op)
  BY <1>1 DEF Answered
<1>5. ask.answer.to \in DOMAIN tables /\ ask.op \in DOMAIN tables[ask.answer.to]
  <2>1. IndexSound
    OBVIOUS
  <2>2. Dispatch(ask.first, ask.op).result = "redirect"
    BY <1>1, <1>4
  <2> QED
    BY <2>1, <2>2, <1>4, DispatchAnswers
<1>6. PICK d : d = Dispatch(ask.answer.to, ask.op)
  OBVIOUS
<1>7. /\ d \in [result : {"runs", "redirect", "unknown"}, to : DOMAIN tables]
      /\ d.result = "runs"
  BY <1>5, <1>6, DispatchAnswers
<1>8. ask' = [ask EXCEPT !.hops = @ + 1, !.answer = d]
  BY <1>1, <1>6
<1>9. ask' \in [op : Ops, first : DOMAIN tables, hops : {0, 1},
                answer : [result : {"runs", "redirect", "unknown"}, to : DOMAIN tables]]
  <2>1. ask \in [op : Ops, first : DOMAIN tables, hops : {0, 1},
                 answer : [result : {"runs", "redirect", "unknown"}, to : DOMAIN tables]]
    BY <1>1 DEF Answered
  <2>2. ask = [op |-> ask.op, first |-> ask.first, hops |-> 0, answer |-> ask.answer]
    BY <1>4, <2>1
  <2>3. PICK op \in Ops, first \in DOMAIN tables,
             answer \in [result : {"runs", "redirect", "unknown"}, to : DOMAIN tables] :
          ask = [op |-> op, first |-> first, hops |-> 0, answer |-> answer]
    BY <2>1, <2>2
  <2>4. ask' = [op |-> op, first |-> first, hops |-> 1, answer |-> d]
    <3>1. ask.hops + 1 = 1
      BY <1>4
    <3>2. ask' = [ask EXCEPT !.hops = 1, !.answer = d]
      BY <1>8, <3>1
    <3> QED
      BY <2>3, <3>2
  <2>5. tables' = tables
    BY <1>1
  <2> QED
    BY <1>7, <2>4, <2>5
<1>10. ask'.hops = 1 /\ ask'.answer = d
  <2>1. ask \in [op : Ops, first : DOMAIN tables, hops : {0, 1},
                answer : [result : {"runs", "redirect", "unknown"}, to : DOMAIN tables]]
    BY <1>1 DEF Answered
  <2> QED
    BY <1>4, <1>8, <2>1
<1>11. Answered'
  BY <1>1, <1>7, <1>9, <1>10 DEF Answered
<1>12. Found'
  <2>1. Matches(found.by, found.hits)' = Matches(found.by, found.hits)
    BY <1>1 DEF Matches
  <2> QED
    BY <1>1, <2>1 DEF Found, Grouped
<1> QED
  BY <1>2, <1>3, <1>11, <1>12

LEMMA SearchStep ==
    ASSUME IInv, Search
    PROVE  IInv'
<1> USE DEF IInv
<1>1. PICK g \in DOMAIN tables, hits \in SUBSET Grouped :
        found' = [by |-> g, hits |-> hits, names |-> Matches(g, hits)]
  BY DEF Search
<1>2. /\ phase = "ready" /\ ask = None
      /\ UNCHANGED <<tagged, walked, groups, pending, tables, index, served, phase, ask>>
  BY DEF Search, agent
<1>3. TypeOK' /\ Phased' /\ Opened' /\ Tabled' /\ IndexSound'
  BY <1>2 DEF TypeOK, Phased, Opened, Tabled, IndexSound
<1>4. Collected' /\ Walked'
  BY <1>2 DEF Collected, EntriesOf, Walked, Kept
<1>5. Answered'
  BY <1>2 DEF Answered
<1>6. Found'
  <2>1. found'.by = g /\ found'.hits = hits /\ found'.names = Matches(g, hits)
    BY <1>1
  <2>2. Matches(found.by, found.hits)' = Matches(g, hits)
    BY <1>2, <2>1 DEF Matches
  <2> QED
    BY <1>2, <2>1, <2>2 DEF Found, Grouped
<1> QED
  BY <1>3, <1>4, <1>5, <1>6

LEMMA RestStep ==
    ASSUME IInv, UNCHANGED vars
    PROVE  IInv'
<1> USE DEF IInv
<1>1. UNCHANGED <<tagged, walked, groups, pending, tables, index, served, phase, ask, found>>
  BY DEF vars
<1>2. TypeOK' /\ Phased' /\ Opened' /\ Tabled' /\ IndexSound'
  BY <1>1 DEF TypeOK, Phased, Opened, Tabled, IndexSound
<1>3. Collected' /\ Walked'
  BY <1>1 DEF Collected, EntriesOf, Walked, Kept
<1>4. Answered'
  <2>1. Dispatch(ask.first, ask.op)' = Dispatch(ask.first, ask.op)
    BY <1>1 DEF Dispatch
  <2> QED
    BY <1>1, <2>1 DEF Answered
<1>5. Found'
  <2>1. Matches(found.by, found.hits)' = Matches(found.by, found.hits)
    BY <1>1 DEF Matches
  <2> QED
    BY <1>1, <2>1 DEF Found, Grouped
<1> QED
  BY <1>2, <1>3, <1>4, <1>5

LEMMA NextIInv == IInv /\ [Next]_vars => IInv'
BY WalkRootStep, WalkGroupedStep, AbortWalkStep, EndWalkStep, TableStep, AbortStep, CallStep,
   FollowStep, SearchStep, RestStep DEF Next, Register, Rest

\* The inductive invariant of registration and of what agents are told.
THEOREM Invariance == Spec => []IInv
BY InitIInv, NextIInv, PTL DEF Spec

(***************************************************************************)
(* The theorems                                                            *)
(***************************************************************************)

\* The index never names a group that lacks the operation, not even when the
\* import aborts between a table and its index.
THEOREM IndexSoundThm == Spec => []IndexSound
<1>1. IInv => IndexSound
  BY DEF IInv
<1> QED
  BY <1>1, Invariance, PTL

\* Whoever follows a redirect runs the operation with the next call; "unknown"
\* is said only of an operation that no group has.
THEOREM RedirectsConvergeThm == Spec => []RedirectsConverge
<1>1. IInv => RedirectsConverge
  <2> SUFFICES ASSUME IInv, ask # None
               PROVE  /\ ask.hops <= 1
                      /\ ask.hops = 1 => ask.answer.result = "runs"
                      /\ ask.answer.result = "unknown" =>
                           \A g \in DOMAIN tables : ask.op \notin DOMAIN tables[g]
    BY DEF RedirectsConverge
  <2>1. ask.hops \in {0, 1} /\ (ask.hops = 1 => ask.answer.result = "runs")
    BY DEF IInv, Answered
  <2>2. ASSUME ask.answer.result = "unknown"
        PROVE  \A g \in DOMAIN tables : ask.op \notin DOMAIN tables[g]
    <3>1. ask.first \in DOMAIN tables /\ Dispatch(ask.first, ask.op).result = "unknown"
      BY <2>2 DEF IInv, Answered
    <3>2. ask.op \notin DOMAIN index
      BY <3>1, DispatchAnswers DEF IInv
    <3> QED
      BY <3>2 DEF IInv, Answered, Tabled
  <2> QED
    BY <2>1, <2>2
<1> QED
  BY <1>1, Invariance, PTL

\* A table's entry is a function of the table's group and of the operation.
LEMMA TabledEntry ==
    ASSUME IInv, NEW g \in DOMAIN tables, NEW o \in DOMAIN tables[g]
    PROVE  /\ tables[g][o] \in 1..Len(tagged)
           /\ tagged[tables[g][o]].group = g
           /\ Pascal[tagged[tables[g][o]].name] = o
<1>1. g \in DOMAIN groups /\ tables[g] = TableOf(groups[g])
  BY DEF IInv, Tabled
<1>2. EntriesOf(g, groups[g])
  BY <1>1 DEF IInv, Collected
<1>3. walked \in Nat /\ walked <= Len(tagged) /\ Len(tagged) \in Nat
  BY DEF IInv, TypeOK
<1>4. PICK n \in DOMAIN groups[g] : Pascal[n] = o /\ tables[g][o] = groups[g][n].fn
  BY <1>1, <1>2, <1>3, TableEntries
<1>5. /\ groups[g][n].fn \in 1..walked
      /\ tagged[groups[g][n].fn].name = n /\ tagged[groups[g][n].fn].group = g
  BY <1>2 DEF EntriesOf
<1> QED
  BY <1>3, <1>4, <1>5

\* When the server is ready, every grouped function's operation is in the
\* table of its group and in the index.
LEMMA ReadyHoldsAll ==
    ASSUME IInv, phase = "ready", NEW i \in Grouped
    PROVE  /\ tagged[i].group \in DOMAIN tables /\ tagged[i].group \in served
           /\ Pascal[tagged[i].name] \in DOMAIN tables[tagged[i].group]
           /\ Pascal[tagged[i].name] \in DOMAIN index
<1>1. i \in 1..walked /\ tagged[i].group # Root /\ pending = <<>>
  BY DEF IInv, Phased, Grouped
<1>2. PICK g, n : g = tagged[i].group /\ n = tagged[i].name
  OBVIOUS
<1>3. g \in DOMAIN groups /\ n \in DOMAIN groups[g]
  BY <1>1, <1>2 DEF IInv, Walked, Kept
<1>4. g \in DOMAIN tables
  BY <1>1, <1>3 DEF IInv, Opened
<1>5. tables[g] = TableOf(groups[g]) /\ g \in served /\ DOMAIN tables[g] \subseteq DOMAIN index
  BY <1>4 DEF IInv, Tabled
<1>6. Pascal[n] \in DOMAIN TableOf(groups[g])
  BY <1>3 DEF TableOf
<1> QED
  BY <1>2, <1>4, <1>5, <1>6

\* Every operation that a function stands for is served by its group, by that
\* very function unless names collide.
THEOREM NothingLostThm == Spec => []NothingLost
<1>1. IInv => NothingLost
  <2> SUFFICES ASSUME IInv, phase = "ready", NEW i \in 1..Len(tagged)
               PROVE  LET g == tagged[i].group
                          o == Pascal[tagged[i].name] IN
                      IF g = Root THEN tagged[i].name \in served
                      ELSE /\ g \in served /\ o \in DOMAIN tables[g]
                           /\ LET fn == tagged[tables[g][o]] IN
                                fn.group = g /\ Pascal[fn.name] = o
                           /\ Unambiguous => tables[g][o] = i
    BY DEF NothingLost
  <2>1. CASE tagged[i].group = Root
    <3>1. i \in 1..walked
      BY DEF IInv, Phased
    <3> QED
      BY <2>1, <3>1 DEF IInv, Walked, Kept
  <2>2. CASE tagged[i].group # Root
    <3>1. i \in Grouped
      BY <2>2 DEF Grouped
    <3>2. PICK g, o : g = tagged[i].group /\ o = Pascal[tagged[i].name]
      OBVIOUS
    <3>3. g \in DOMAIN tables /\ g \in served /\ o \in DOMAIN tables[g]
      BY <3>1, <3>2, ReadyHoldsAll
    <3>4. /\ tables[g][o] \in 1..Len(tagged)
          /\ tagged[tables[g][o]].group = g
          /\ Pascal[tagged[tables[g][o]].name] = o
      BY <3>3, TabledEntry
    <3>5. Unambiguous => tables[g][o] = i
      BY <3>2, <3>4 DEF Unambiguous
    <3> QED
      BY <2>2, <3>2, <3>3, <3>4, <3>5
  <2> QED
    BY <2>1, <2>2
<1> QED
  BY <1>1, Invariance, PTL

\* What a search names runs and matches, and every match whose name no other
\* function claims is named, through whichever group the search is made.
THEOREM SearchHonestThm == Spec => []SearchHonest
<1>1. IInv => SearchHonest
  <2> SUFFICES ASSUME IInv, found # None PROVE
        /\ \A g \in DOMAIN found.names : \A o \in found.names[g] :
             /\ Described(g, o)
             /\ Dispatch(g, o).result = "runs"
             /\ tables[g][o] \in found.hits
        /\ \A i \in found.hits :
             Alone(i) => Pascal[tagged[i].name] \in found.names[tagged[i].group]
    BY DEF SearchHonest
  <2>1. /\ phase = "ready" /\ found.by \in DOMAIN tables /\ found.hits \subseteq Grouped
        /\ found.names = Matches(found.by, found.hits)
    BY DEF IInv, Found
  <2>2. ASSUME NEW g \in DOMAIN found.names, NEW o \in found.names[g]
        PROVE  Described(g, o) /\ Dispatch(g, o).result = "runs" /\ tables[g][o] \in found.hits
    <3>1. g \in DOMAIN tables
      BY <2>1 DEF Matches
    <3>2. o \in DOMAIN tables[g] /\ tables[g][o] \in found.hits
      BY <2>1, <3>1 DEF Matches, IInv, IndexSound
    <3> QED
      BY <3>1, <3>2, DispatchAnswers DEF IInv, Described
  <2>3. ASSUME NEW i \in found.hits, Alone(i)
        PROVE  Pascal[tagged[i].name] \in found.names[tagged[i].group]
    <3>1. PICK g, o : g = tagged[i].group /\ o = Pascal[tagged[i].name]
      OBVIOUS
    <3>2. i \in Grouped
      BY <2>1
    <3>3. g \in DOMAIN tables /\ o \in DOMAIN tables[g] /\ o \in DOMAIN index
      BY <2>1, <3>1, <3>2, ReadyHoldsAll
    <3>4. ASSUME NEW h \in DOMAIN tables, o \in DOMAIN tables[h] PROVE tables[h][o] = i /\ h = g
      <4>1. PICK j : j = tables[h][o]
        OBVIOUS
      <4>2. j \in 1..Len(tagged) /\ tagged[j].group = h /\ Pascal[tagged[j].name] = o
        BY <3>4, <4>1, TabledEntry
      <4>3. h # Root
        BY RegistryAssumption DEF IInv, Tabled, Collected
      <4>4. j \in Grouped
        BY <4>2, <4>3 DEF Grouped
      <4>5. i = j
        BY <2>3, <3>1, <4>2, <4>4 DEF Alone
      <4> QED
        BY <3>1, <4>1, <4>2, <4>5
    <3>5. tables[g][o] = i /\ index[o] = g
      BY <3>3, <3>4 DEF IInv, IndexSound
    <3> QED
      BY <2>1, <3>1, <3>3, <3>5 DEF Matches
  <2> QED
    BY <2>2, <2>3
<1> QED
  BY <1>1, Invariance, PTL
=============================================================================
