--------------------------- MODULE PipelineProofs ---------------------------
(***************************************************************************)
(* What stands between an edit and a published version, for every          *)
(* inventory and any number of pushes.                                     *)
(*                                                                         *)
(* A tree that passes the gate serves one definition of each operation,    *)
(* nothing else, and every endpoint.                                       *)
(*                                                                         *)
(* Versions follow pushes, for any failures and any lag of the listing,    *)
(* and the index loses a version only to a listing that broke off, until   *)
(* the next whole one.  The tag and the computed version are two steps,    *)
(* and so are the listing and the deployment: what is read in the first    *)
(* must still hold in the second.  It does because the group has one       *)
(* active run, which is later than every run that was active before it.    *)
(***************************************************************************)
EXTENDS CodegenGate, Release, TLAPS

-----------------------------------------------------------------------------
(***************************************************************************)
(* The gate, seen from the files                                           *)
(***************************************************************************)

\* In a tree in sync, the only file that can define an operation is the one
\* of its module, and it does so unless the operation is written by hand.
LEMMA DefinersInSync ==
    ASSUME TypeOK, Generates, SyncClean, NEW n \in Names
    PROVE  Definers(n) = IF n \in Known \ overrides THEN {ops[n]} ELSE {}
<1>1. DOMAIN disk = modules /\ \A m \in modules : disk[m] = Emitted(m)
  BY DEF SyncClean, Tree
<1>2. Definers(n) = {m \in modules : n \in Emitted(m)}
  BY <1>1 DEF Definers
<1>3. \A m \in modules : n \in Emitted(m) <=> n \in Known \ overrides /\ ops[n] = m
  BY DEF Emitted
<1>4. CASE n \in Known \ overrides
  <2>1. ops[n] \in modules
    BY <1>4 DEF Generates
  <2> QED
    BY <1>2, <1>3, <1>4, <2>1
<1>5. CASE n \notin Known \ overrides
  BY <1>2, <1>3, <1>5
<1> QED
  BY <1>4, <1>5

\* An operation is written by hand exactly when overrides.py lists it.
LEMMA HandWritten ==
    ASSUME TypeOK, DedupeClean, Gated = Modules, NEW n \in Known
    PROVE  n \in impl <=> n \in overrides
<1>1. n \in Names /\ ops[n] \in Modules
  BY DEF Known, TypeOK
<1> QED
  BY <1>1 DEF DedupeClean

-----------------------------------------------------------------------------
(***************************************************************************)
(* Types                                                                   *)
(***************************************************************************)

\* The files hold operations of the inventory's names, whoever writes them.
LEMMA EmittedNames == \A m : Emitted(m) \subseteq Names
BY DEF Emitted, Known

LEMMA InitTypeOK == GateInit => TypeOK
<1> SUFFICES ASSUME GateInit PROVE TypeOK
  OBVIOUS
<1>1. DOMAIN disk = Modules /\ \A m \in Modules : disk[m] = Emitted(m)
  BY DEF GateInit, Tree
<1> QED
  BY <1>1, EmittedNames DEF GateInit, TypeOK, Known, Uncovered

LEMMA NextTypeOK == TypeOK /\ [GateNext]_gateVars => TypeOK'
<1> SUFFICES ASSUME TypeOK, [GateNext]_gateVars PROVE TypeOK'
  OBVIOUS
<1>1. ASSUME NEW n \in Names, EditInventory(n) PROVE TypeOK'
  BY <1>1 DEF EditInventory, TypeOK
<1>2. ASSUME NEW n \in Names, EditData(n) PROVE TypeOK'
  BY <1>2 DEF EditData, Toggled, TypeOK
<1>3. ASSUME NEW n \in Names, EditTools(n) PROVE TypeOK'
  BY <1>3 DEF EditTools, Toggled, TypeOK, data
<1>4. ASSUME NEW m \in Modules, DropModule(m) PROVE TypeOK'
  BY <1>4 DEF DropModule, TypeOK
<1>5. ASSUME NEW m \in Modules, EditGenerated(m) PROVE TypeOK'
  <2>1. CASE disk' = [disk EXCEPT ![m] = @ \cup {HandEdit}]
    <3>1. DOMAIN disk' = DOMAIN disk
      BY <2>1
    <3>2. \A f \in DOMAIN disk : disk'[f] \subseteq disk[f] \cup {HandEdit}
      BY <2>1
    <3> QED
      BY <1>5, <3>1, <3>2 DEF EditGenerated, TypeOK, data
  <2>2. CASE disk' = [f \in DOMAIN disk \ {m} |-> disk[f]]
    BY <1>5, <2>2 DEF EditGenerated, TypeOK, data
  <2> QED
    BY <1>5, <2>1, <2>2 DEF EditGenerated
<1>6. ASSUME NEW e \in Endpoints, EditWaivers(e) PROVE TypeOK'
  BY <1>6 DEF EditWaivers, Toggled, TypeOK
<1>7. CASE Generate
  <2>1. DOMAIN disk' = DOMAIN disk \cup modules
    BY <1>7 DEF Generate
  <2>2. \A m \in DOMAIN disk' :
            disk'[m] = IF m \in modules THEN Emitted(m) ELSE disk[m]
    BY <1>7 DEF Generate, Tree
  <2>3. UNCHANGED <<modules, ops, overrides, decided, waived, impl>>
    BY <1>7 DEF Generate, data
  <2>4. DOMAIN disk' \subseteq Modules
    BY <2>1 DEF TypeOK
  <2>5. \A m \in DOMAIN disk' : disk'[m] \subseteq Names \cup {HandEdit}
    BY <2>1, <2>2, EmittedNames DEF TypeOK
  <2> QED
    BY <2>3, <2>4, <2>5 DEF TypeOK
<1>8. CASE UNCHANGED gateVars
  BY <1>8 DEF gateVars, TypeOK
<1> QED
  BY <1>1, <1>2, <1>3, <1>4, <1>5, <1>6, <1>7, <1>8 DEF GateNext

\* Every edit, in any order, leaves a tree the gate can be run on.
THEOREM TypeCorrect == GateSpec => []TypeOK
BY InitTypeOK, NextTypeOK, PTL DEF GateSpec

-----------------------------------------------------------------------------
(***************************************************************************)
(* Soundness of the gate                                                   *)
(***************************************************************************)

\* A tree that passes defines each operation of the inventory exactly once:
\* by hand when overrides.py lists it, else in the file of its module.
THEOREM ServedOnceThm == GateSpec => []ServedOnce
<1>1. ASSUME TypeOK PROVE ServedOnce
  <2> SUFFICES ASSUME GatePasses, Gated = Modules, NEW n \in Known
               PROVE  \/ n \in impl /\ Definers(n) = {}
                      \/ n \notin impl /\ \E m \in Modules : Definers(n) = {m}
    BY DEF ServedOnce
  <2>1. n \in Names /\ ops[n] \in Modules
    BY <1>1 DEF Known, TypeOK
  <2>2. Definers(n) = IF n \in Known \ overrides THEN {ops[n]} ELSE {}
    BY <1>1, <2>1, DefinersInSync DEF GatePasses
  <2>3. n \in impl <=> n \in overrides
    BY <1>1, HandWritten DEF GatePasses
  <2> QED
    BY <2>1, <2>2, <2>3
<1> QED
  BY <1>1, TypeCorrect, PTL

\* A tree that passes defines nothing else: no removed operation, no unlisted
\* one, nothing edited into a generated file.
THEOREM NothingElseServedThm == GateSpec => []NothingElseServed
<1>1. ASSUME TypeOK PROVE NothingElseServed
  <2> SUFFICES ASSUME GatePasses PROVE /\ impl \subseteq Known
                                       /\ \A n \in Names : Definers(n) # {} => n \in Known
                                       /\ \A m \in DOMAIN disk : HandEdit \notin disk[m]
    BY DEF NothingElseServed
  <2>1. impl \subseteq Known
    BY <1>1 DEF GatePasses, DedupeClean, TypeOK
  <2>2. \A n \in Names : Definers(n) # {} => n \in Known
    BY <1>1, DefinersInSync DEF GatePasses
  <2>3. \A m \in DOMAIN disk : disk[m] = Emitted(m)
    BY DEF GatePasses, SyncClean, Tree
  <2>4. \A m \in DOMAIN disk : HandEdit \notin disk[m]
    BY <2>3, EmittedNames, GateAssumption
  <2> QED
    BY <2>1, <2>2, <2>4
<1> QED
  BY <1>1, TypeCorrect, PTL

\* In a tree that passes, every endpoint of the snapshot that is not waived
\* has an operation that is defined.
THEOREM EndpointsServedThm == GateSpec => []EndpointsServed
<1>1. ASSUME TypeOK PROVE EndpointsServed
  <2> SUFFICES ASSUME GatePasses, Gated = Modules, NEW e \in Endpoints \ waived
               PROVE  \E n \in Names : EndpointOf[n] = e /\ (n \in impl \/ Definers(n) # {})
    BY DEF EndpointsServed
  <2>1. PICK n \in Known : EndpointOf[n] = e
    BY DEF GatePasses, CoverageClean
  <2>2. n \in Names
    BY <2>1 DEF Known
  <2>3. Definers(n) = IF n \in Known \ overrides THEN {ops[n]} ELSE {}
    BY <1>1, <2>2, DefinersInSync DEF GatePasses
  <2>4. n \in impl <=> n \in overrides
    BY <1>1, <2>1, HandWritten DEF GatePasses
  <2> QED
    BY <2>1, <2>2, <2>3, <2>4
<1> QED
  BY <1>1, TypeCorrect, PTL
-----------------------------------------------------------------------------
(***************************************************************************)
(* Regeneration                                                            *)
(***************************************************************************)

\* generate.py, run in any tree it accepts, ends out of sync only when the
\* file of a dropped module is left: that file is the developer's to delete.
THEOREM RegenerationRepairsThm == GateSpec => RegenerationRepairs
<1>1. ASSUME Generate PROVE SyncClean' <=> DOMAIN disk \subseteq modules
  <2>1. modules' = modules /\ Tree' = Tree
    BY <1>1 DEF Generate, data, Tree, Emitted, Known
  <2>2. disk' = [m \in DOMAIN disk \cup modules |->
                    IF m \in modules THEN Tree[m] ELSE disk[m]]
    BY <1>1 DEF Generate
  <2>3. CASE DOMAIN disk \subseteq modules
    <3>1. disk' = [m \in modules |-> Tree[m]]
      BY <2>2, <2>3
    <3> QED
      BY <2>1, <2>3, <3>1 DEF SyncClean, Tree
  <2>4. CASE ~(DOMAIN disk \subseteq modules)
    <3>1. DOMAIN disk' # modules
      BY <2>2, <2>4
    <3> QED
      BY <2>1, <2>4, <3>1 DEF SyncClean, Tree
  <2> QED
    BY <2>3, <2>4
<1> QED
  BY <1>1, PTL DEF GateSpec, RegenerationRepairs

-----------------------------------------------------------------------------
(***************************************************************************)
(* The inductive invariant                                                 *)
(***************************************************************************)

\* Runs that have not tagged yet, and runs that may have.
Untagged == {"checking", "version", "tag"}

Tagging == {"release", "poll", "deploy", "done", "failed"}

Stages == {"none", "pending", "cancelled"} \cup Untagged \cup Tagging

ReleaseTypeOK ==
    /\ pc \in [Runs -> Stages]
    /\ version \in [Runs -> Nat \cup {NoVersion}]
    /\ listing \in [Runs -> [versions : SUBSET Nat, whole : BOOLEAN]]
    /\ Tagged \subseteq Nat /\ \A v \in Tagged : tags[v] \in Runs
    /\ released \subseteq Nat /\ visible \subseteq Nat /\ index \subseteq Nat /\ linked \subseteq Nat

\* Runs are triggered in order; one is active, one waits, and the one that
\* waits is later than all that were ever active.
Group ==
    /\ \A r, s \in Runs : pc[r] = "none" /\ r < s => pc[s] = "none"
    /\ \A r, s \in Runs : pc[r] \in Active /\ pc[s] \in Active => r = s
    /\ \A r, s \in Runs : pc[r] = "pending" /\ pc[s] = "pending" => r = s
    /\ \A r, s \in Runs :
         pc[r] = "pending" /\ pc[s] \in Untagged \cup Tagging => s < r

\* A run that has its version has a number.
Numbered == \A r \in Runs : pc[r] \in Active \ {"checking", "version"} => version[r] \in Nat

\* The tags have a highest version.  Every tag is of a run that was active,
\* and is earlier and lower than that of the run that is about to tag.
Tags ==
    /\ Tagged # {} => \E m \in Tagged : \A v \in Tagged : v <= m
    /\ \A v \in Tagged : pc[tags[v]] \in Tagging
    /\ \A r \in Runs : pc[r] \in Untagged => \A v \in Tagged : tags[v] < r
    /\ \A r \in Runs : pc[r] = "tag" => \A v \in Tagged : v < version[r]

\* What was ever linked is listed, and a run that is about to deploy a whole
\* listing has read all of it.
Index ==
    /\ index \subseteq linked /\ linked \subseteq visible
    /\ \A r \in Runs : pc[r] = "deploy" =>
         /\ listing[r].versions \subseteq visible
         /\ listing[r].whole => linked \subseteq listing[r].versions

IInv == ReleaseTypeOK /\ Group /\ Numbered /\ Tags /\ VersionsFollowPushes /\ Index

(***************************************************************************)
(* One lemma per action: what it disturbs                                  *)
(***************************************************************************)

\* In the beginning there is nothing.
LEMMA Initially == Init => IInv
<1> SUFFICES ASSUME Init PROVE IInv
  OBVIOUS
<1>1. Tagged = {}
  BY DEF Init, Tagged
<1>2. \A r \in Runs : pc[r] = "none"
  BY DEF Init
<1>3. ReleaseTypeOK
  BY <1>1, SMT DEF Init, ReleaseTypeOK, Stages, Runs
<1>4. Group
  BY <1>2 DEF Group, Active, Untagged, Tagging
<1>5. Numbered /\ Tags /\ VersionsFollowPushes /\ Index
  BY <1>1, <1>2 DEF Numbered, Tags, VersionsFollowPushes, Index, Init, Active, Untagged
<1> QED
  BY <1>3, <1>4, <1>5 DEF IInv

\* A trigger puts its run behind all others and cancels the one that waited.
LEMMA TriggerKeeps ==
    ASSUME IInv, NEW r \in Runs, Trigger(r)
    PROVE  IInv'
<1> USE DEF IInv, Trigger, repository
<1>1. /\ pc[r] = "none" /\ pc'[r] = "pending"
      /\ \A s \in Runs \ {r} : pc'[s] = IF pc[s] = "pending" THEN "cancelled" ELSE pc[s]
  BY DEF NextRun, ReleaseTypeOK
<1>2. \A s \in Runs : s < r => pc[s] # "none"
  BY DEF NextRun, Runs
<1>3. ReleaseTypeOK'
  BY <1>1, SMT DEF ReleaseTypeOK, Stages, Tagged
<1>4. Group'
  <2>1. \A s \in Runs : r < s => pc[s] = "none"
    BY <1>1 DEF Group
  <2>2. \A s, t \in Runs : pc'[s] = "none" /\ s < t => pc'[t] = "none"
    BY <1>1, <1>2, <2>1 DEF Group, Runs
  <2>3. \A s, t \in Runs : pc'[s] \in Active /\ pc'[t] \in Active => s = t
    BY <1>1 DEF Group, Active
  <2>4. \A s, t \in Runs : pc'[s] = "pending" /\ pc'[t] = "pending" => s = t
    BY <1>1 DEF Group
  <2>5. \A s, t \in Runs :
          pc'[s] = "pending" /\ pc'[t] \in Untagged \cup Tagging => t < s
    BY <1>1, <2>1 DEF Untagged, Tagging, Runs
  <2> QED
    BY <2>2, <2>3, <2>4, <2>5 DEF Group
<1>5. Numbered'
  BY <1>1 DEF Numbered, Active
<1>6. Tags'
  BY <1>1 DEF Tags, Tagged, Tagging, Untagged, ReleaseTypeOK
<1>7. VersionsFollowPushes'
  BY DEF VersionsFollowPushes, Tagged
<1>8. Index'
  BY <1>1 DEF Index
<1> QED
  BY <1>3, <1>4, <1>5, <1>6, <1>7, <1>8

\* The run that starts is later than every run that was active.
LEMMA StartKeeps ==
    ASSUME IInv, NEW r \in Runs, Start(r)
    PROVE  IInv'
<1> USE DEF IInv, Start, repository, Goto
<1>1. /\ pc[r] = "pending" /\ pc'[r] = "checking"
      /\ \A s \in Runs \ {r} : pc'[s] = pc[s]
  BY DEF ReleaseTypeOK
<1>2. \A s \in Runs : pc[s] \notin Active
  OBVIOUS
<1>3. ReleaseTypeOK'
  BY <1>1, SMT DEF ReleaseTypeOK, Stages, Untagged, Tagged
<1>4. Group'
  <2>1. \A s, t \in Runs : pc'[s] = "none" /\ s < t => pc'[t] = "none"
    BY <1>1 DEF Group
  <2>2. \A s, t \in Runs : pc'[s] \in Active /\ pc'[t] \in Active => s = t
    BY <1>1, <1>2
  <2>3. \A s, t \in Runs : pc'[s] = "pending" /\ pc'[t] = "pending" => s = t
    BY <1>1 DEF Group
  <2>4. \A s, t \in Runs :
          pc'[s] = "pending" /\ pc'[t] \in Untagged \cup Tagging => t < s
    BY <1>1 DEF Group
  <2> QED
    BY <2>1, <2>2, <2>3, <2>4 DEF Group
<1>5. Numbered'
  BY <1>1 DEF Numbered
<1>6. Tags'
  <2>1. \A v \in Tagged : tags[v] \in Runs /\ pc[tags[v]] \in Tagging
    BY DEF Tags, ReleaseTypeOK
  <2>2. \A v \in Tagged : tags[v] < r
    BY <1>1, <2>1 DEF Group
  <2> QED
    BY <1>1, <2>1, <2>2 DEF Tags, Tagged, Tagging, Untagged
<1>7. VersionsFollowPushes'
  BY DEF VersionsFollowPushes, Tagged
<1>8. Index'
  BY <1>1 DEF Index
<1> QED
  BY <1>3, <1>4, <1>5, <1>6, <1>7, <1>8

\* A step of the active run that leaves it active or over changes nothing
\* in the group.
LEMMA MoveKeepsGroup ==
    ASSUME ReleaseTypeOK, Group, NEW r \in Runs, NEW l \in Untagged \cup Tagging,
           pc[r] \in Active, Goto(r, l)
    PROVE  Group'
<1>1. pc'[r] = l /\ \A s \in Runs \ {r} : pc'[s] = pc[s]
  BY DEF ReleaseTypeOK, Goto
<1>2. \A s, t \in Runs : pc'[s] = "none" /\ s < t => pc'[t] = "none"
  BY <1>1 DEF Group, Active, Untagged, Tagging
<1>3. \A s, t \in Runs : pc'[s] \in Active /\ pc'[t] \in Active => s = t
  BY <1>1 DEF Group
<1>4. \A s, t \in Runs : pc'[s] = "pending" /\ pc'[t] = "pending" => s = t
  BY <1>1 DEF Group, Untagged, Tagging
<1>5. \A s, t \in Runs :
        pc'[s] = "pending" /\ pc'[t] \in Untagged \cup Tagging => t < s
  BY <1>1 DEF Group, Active, Untagged, Tagging
<1> QED
  BY <1>2, <1>3, <1>4, <1>5 DEF Group

\* The computed version is above all tags.
LEMMA CalculateKeeps ==
    ASSUME IInv, NEW r \in Runs, Calculate(r)
    PROVE  IInv'
<1> USE DEF IInv, Calculate, repository
<1>1. /\ pc[r] = "version" /\ pc'[r] = "tag"
      /\ \A s \in Runs \ {r} : pc'[s] = pc[s]
  BY DEF ReleaseTypeOK, Goto
<1>2. version'[r] = (IF Tagged = {} THEN 0 ELSE Max(Tagged) + 1)
      /\ \A s \in Runs \ {r} : version'[s] = version[s]
  BY DEF ReleaseTypeOK
<1>3. version'[r] \in Nat /\ \A v \in Tagged : v < version'[r]
  <2>1. CASE Tagged = {}
    BY <2>1, <1>2
  <2>2. CASE Tagged # {}
    <3>1. PICK m \in Tagged : \A v \in Tagged : v <= m
      BY <2>2 DEF Tags
    <3>2. Max(Tagged) \in Tagged /\ \A v \in Tagged : v <= Max(Tagged)
      BY <3>1 DEF Max
    <3>3. PICK k \in Tagged : k = Max(Tagged) /\ \A v \in Tagged : v <= k
      BY <3>2
    <3>4. version'[r] = k + 1 /\ k \in Nat /\ Tagged \subseteq Nat
      BY <2>2, <3>3, <1>2 DEF ReleaseTypeOK
    <3>5. \A v \in Tagged : v < k + 1
      BY <3>3, <3>4
    <3> QED
      BY <3>4, <3>5
  <2> QED
    BY <2>1, <2>2
<1>4. ReleaseTypeOK'
  BY <1>1, <1>3, SMT DEF ReleaseTypeOK, Goto, Stages, Untagged, Tagged
<1>5. Group'
  BY <1>1, MoveKeepsGroup DEF Active, Untagged
<1>6. Numbered'
  BY <1>1, <1>2, <1>3 DEF Numbered
<1>7. Tags'
  <2>1. \A v \in Tagged : pc'[tags[v]] \in Tagging
    BY <1>1 DEF Tags, ReleaseTypeOK, Tagging
  <2>2. \A s \in Runs : pc'[s] \in Untagged => \A v \in Tagged : tags[v] < s
    BY <1>1 DEF Tags, Untagged
  <2>3. \A s \in Runs : pc'[s] = "tag" => \A v \in Tagged : v < version'[s]
    BY <1>1, <1>2, <1>3 DEF Tags
  <2> QED
    BY <2>1, <2>2, <2>3 DEF Tags, Tagged
<1>8. VersionsFollowPushes'
  BY DEF VersionsFollowPushes, Tagged
<1>9. Index'
  BY <1>1 DEF Index
<1> QED
  BY <1>4, <1>5, <1>6, <1>7, <1>8, <1>9

\* The new tag is above all others, and its run later than theirs.
LEMMA TagKeeps ==
    ASSUME IInv, NEW r \in Runs, Tag(r)
    PROVE  IInv'
<1> USE DEF IInv, Tag
<1>1. /\ version[r] \in Nat
      /\ \A v \in Tagged : v < version[r] /\ tags[v] < r /\ v \in Nat
      /\ version[r] \notin Tagged
  BY DEF Tags, Untagged, Numbered, Active, ReleaseTypeOK
<1>2. /\ pc[r] = "tag" /\ pc'[r] = "release"
      /\ \A s \in Runs \ {r} : pc'[s] = pc[s]
  BY <1>1 DEF ReleaseTypeOK, Goto
<1>3. /\ Tagged' = Tagged \cup {version[r]}
      /\ tags'[version[r]] = r
      /\ \A v \in Tagged : tags'[v] = tags[v]
  BY <1>1 DEF Tagged
<1>4. ReleaseTypeOK'
  <2>1. pc' \in [Runs -> Stages]
    BY <1>1 DEF ReleaseTypeOK, Goto, Stages, Tagging
  <2>2. Tagged' \subseteq Nat
    BY <1>1, <1>3
  <2>3. \A v \in Tagged' : tags'[v] \in Runs
    BY <1>3 DEF ReleaseTypeOK
  <2>4. UNCHANGED <<version, listing, released, visible, index, linked>>
    OBVIOUS
  <2> QED
    BY <2>1, <2>2, <2>3, <2>4 DEF ReleaseTypeOK
<1>5. Group'
  BY <1>1, <1>2, MoveKeepsGroup DEF Active, Tagging
<1>6. Numbered'
  BY <1>2, <1>1 DEF Numbered
<1>7. \A s \in Runs \ {r} : pc[s] \notin Active
  BY <1>2 DEF Group, Active
<1>8. Tags'
  <2>1. \A v \in Tagged' : pc'[tags'[v]] \in Tagging
    BY <1>2, <1>3 DEF Tags, ReleaseTypeOK, Tagging
  <2>2. \A s \in Runs : pc'[s] \notin Untagged
    BY <1>2, <1>7 DEF Untagged, Active
  <2>3. \A v \in Tagged' : v <= version[r]
    BY <1>1, <1>3
  <2> QED
    BY <1>3, <2>1, <2>2, <2>3 DEF Tags, Untagged
<1>9. VersionsFollowPushes'
  BY <1>1, <1>3 DEF VersionsFollowPushes
<1>10. Index'
  BY <1>2 DEF Index
<1> QED
  BY <1>4, <1>5, <1>6, <1>8, <1>9, <1>10

\* The other steps of a run touch neither tags nor version: its place
\* changes to one that promises less, or to "deploy" with a new listing.
LEMMA MoveKeeps ==
    ASSUME IInv, NEW r \in Runs, NEW l \in Untagged \cup Tagging, Goto(r, l),
           pc[r] \in Active,
           l \in Untagged => pc[r] \in Untagged,
           pc[r] \in Tagging => l \in Tagging,
           l # "tag",
           l \in {"release", "poll", "deploy"} => version[r] \in Nat,
           UNCHANGED <<version, tags>>
    PROVE  Group' /\ Numbered' /\ Tags' /\ VersionsFollowPushes'
<1> USE DEF IInv
<1>1. pc'[r] = l /\ \A s \in Runs \ {r} : pc'[s] = pc[s]
  BY DEF ReleaseTypeOK, Goto
<1>2. Group'
  BY MoveKeepsGroup
<1>3. Numbered'
  BY <1>1 DEF Numbered, Active
<1>4. Tags'
  <2>1. \A v \in Tagged : pc'[tags[v]] \in Tagging
    BY <1>1 DEF Tags, ReleaseTypeOK
  <2>2. \A s \in Runs : pc'[s] \in Untagged => pc[s] \in Untagged
    BY <1>1
  <2>3. \A s \in Runs : pc'[s] = "tag" => pc[s] = "tag"
    BY <1>1
  <2> QED
    BY <2>1, <2>2, <2>3 DEF Tags, Tagged
<1>5. VersionsFollowPushes'
  BY DEF VersionsFollowPushes, Tagged
<1> QED
  BY <1>2, <1>3, <1>4, <1>5

\* Checks, the release and a failure move a run and leave the index alone.
LEMMA WalkKeeps ==
    ASSUME IInv, NEW r \in Runs, Check(r) \/ CreateRelease(r) \/ Fail(r)
    PROVE  IInv'
<1> USE DEF IInv, repository
<1>1. CASE Check(r)
  <2>1. PICK l \in {"version", "done", "failed"} : Goto(r, l)
    BY <1>1 DEF Check
  <2>2. Group' /\ Numbered' /\ Tags' /\ VersionsFollowPushes'
    BY <1>1, <2>1, MoveKeeps DEF Check, Active, Untagged, Tagging
  <2>3. ReleaseTypeOK'
    BY <1>1, <2>1, SMT DEF Check, ReleaseTypeOK, Goto, Stages, Untagged, Tagging, Tagged
  <2>4. Index'
    BY <1>1, <2>1 DEF Check, Index, Goto, ReleaseTypeOK
  <2> QED
    BY <2>2, <2>3, <2>4
<1>2. CASE CreateRelease(r)
  <2>1. pc[r] = "release" /\ Goto(r, "poll") /\ version[r] \in Nat
    BY <1>2 DEF CreateRelease, Numbered, Active
  <2>2. Group' /\ Numbered' /\ Tags' /\ VersionsFollowPushes'
    BY <1>2, <2>1, MoveKeeps DEF CreateRelease, Active, Untagged, Tagging
  <2>3. ReleaseTypeOK'
    <3>1. pc' \in [Runs -> Stages]
      BY <2>1 DEF ReleaseTypeOK, Goto, Stages, Tagging
    <3>2. released' \subseteq Nat
      BY <1>2, <2>1 DEF CreateRelease, ReleaseTypeOK
    <3>3. UNCHANGED <<version, listing, tags, visible, index, linked>>
      BY <1>2 DEF CreateRelease
    <3> QED
      BY <3>1, <3>2, <3>3 DEF ReleaseTypeOK, Tagged
  <2>4. Index'
    BY <1>2, <2>1 DEF CreateRelease, Index, Goto, ReleaseTypeOK
  <2> QED
    BY <2>2, <2>3, <2>4
<1>3. CASE Fail(r)
  <2>1. pc[r] \in Active /\ Goto(r, "failed")
    BY <1>3 DEF Fail
  <2>2. Group' /\ Numbered' /\ Tags' /\ VersionsFollowPushes'
    BY <1>3, <2>1, MoveKeeps DEF Fail, Untagged, Tagging
  <2>3. ReleaseTypeOK'
    BY <1>3, <2>1, SMT DEF Fail, ReleaseTypeOK, Goto, Stages, Untagged, Tagging, Tagged
  <2>4. Index'
    BY <1>3, <2>1 DEF Fail, Index, Goto, ReleaseTypeOK
  <2> QED
    BY <2>2, <2>3, <2>4
<1> QED
  BY <1>1, <1>2, <1>3

\* The listing has what is deployed, and no other run deploys in between.
LEMMA IndexKeeps ==
    ASSUME IInv, NEW r \in Runs, List(r) \/ Deploy(r)
    PROVE  IInv'
<1> USE DEF IInv, repository
<1>1. CASE List(r)
  <2>1. pc[r] = "poll" /\ Goto(r, "deploy") /\ version[r] \in Nat
    BY <1>1 DEF List, Numbered, Active
  <2>2. Group' /\ Numbered' /\ Tags' /\ VersionsFollowPushes'
    BY <1>1, <2>1, MoveKeeps DEF List, Active, Untagged, Tagging
  <2>3. ReleaseTypeOK'
    <3>1. PICK part \in SUBSET visible : listing' = [listing EXCEPT ![r] = Answered(part)]
      BY <1>1 DEF List
    <3>2. Answered(part) \in [versions : SUBSET Nat, whole : BOOLEAN]
      BY DEF Answered, ReleaseTypeOK
    <3> QED
      BY <1>1, <2>1, <3>1, <3>2, SMT DEF List, ReleaseTypeOK, Goto, Stages, Tagging, Tagged
  <2>4. PICK part \in SUBSET visible : listing' = [listing EXCEPT ![r] = Answered(part)]
    BY <1>1 DEF List
  <2>5. /\ listing'[r].versions = part
        /\ listing'[r].whole = (part = visible)
        /\ \A s \in Runs \ {r} : listing'[s] = listing[s] /\ pc'[s] = pc[s]
    BY <2>1, <2>4 DEF Goto, ReleaseTypeOK, Answered
  <2>6. UNCHANGED <<visible, index, linked>>
    BY <1>1 DEF List
  <2>7. part = visible => linked \subseteq part
    BY DEF Index
  <2>8. \A s \in Runs \ {r} : pc'[s] = "deploy" => pc[s] = "deploy"
    BY <2>5
  <2>9. Index'
    BY <2>5, <2>6, <2>7, <2>8 DEF Index
  <2> QED
    BY <2>2, <2>3, <2>9
<1>2. CASE Deploy(r)
  <2>1. pc[r] = "deploy" /\ Goto(r, "done") /\ index' = listing[r].versions
        /\ linked' = linked \cup listing[r].versions
    BY <1>2 DEF Deploy
  <2>2. Group' /\ Numbered' /\ Tags' /\ VersionsFollowPushes'
    BY <1>2, <2>1, MoveKeeps DEF Deploy, Active, Untagged, Tagging
  <2>3. ReleaseTypeOK'
    <3>1. listing[r].versions \subseteq Nat
      BY DEF ReleaseTypeOK
    <3>2. index' \subseteq Nat /\ linked' \subseteq Nat
      BY <2>1, <3>1 DEF ReleaseTypeOK
    <3>3. pc' \in [Runs -> Stages]
      BY <2>1 DEF ReleaseTypeOK, Goto, Stages, Tagging
    <3>4. UNCHANGED <<version, listing, tags, released, visible>>
      BY <1>2 DEF Deploy
    <3> QED
      BY <3>2, <3>3, <3>4 DEF ReleaseTypeOK, Tagged
  <2>4. \A s \in Runs : pc'[s] # "deploy"
    BY <2>1 DEF Goto, ReleaseTypeOK, Group, Active
  <2>5. Index'
    BY <1>2, <2>1, <2>4 DEF Deploy, Index
  <2> QED
    BY <2>2, <2>3, <2>5
<1> QED
  BY <1>1, <1>2

\* What the API lists grows; a poll counts.
LEMMA OthersKeep ==
    ASSUME IInv,
           \/ \E v \in released : Appear(v)
           \/ \E r \in Runs : Poll(r)
           \/ UNCHANGED vars
    PROVE  IInv'
<1> USE DEF IInv, repository
<1>1. /\ UNCHANGED <<pc, version, listing, tags, released, index, linked>>
      /\ visible \subseteq visible' /\ visible' \subseteq visible \cup released
  BY DEF Appear, Poll, vars
<1>2. ReleaseTypeOK'
  BY <1>1 DEF ReleaseTypeOK, Tagged
<1>3. Group' /\ Numbered'
  BY <1>1 DEF Group, Numbered
<1>4. Tags' /\ VersionsFollowPushes'
  BY <1>1 DEF Tags, VersionsFollowPushes, Tagged
<1>5. Index'
  BY <1>1 DEF Index
<1> QED
  BY <1>2, <1>3, <1>4, <1>5

(***************************************************************************)
(* The theorems                                                            *)
(***************************************************************************)

\* The inductive invariant of the release train: one active run, later than
\* all before it, with what it read of tags and listing still in force.
THEOREM Invariance == Spec => []IInv
<1>1. Init => IInv
  BY Initially
<1>2. IInv /\ [Next]_vars => IInv'
  <2> SUFFICES ASSUME IInv, [Next]_vars PROVE IInv'
    OBVIOUS
  <2>1. CASE \E r \in Runs : Trigger(r)
    BY <2>1, TriggerKeeps
  <2>2. CASE \E r \in Runs : Start(r)
    BY <2>2, StartKeeps
  <2>3. CASE \E r \in Runs : Calculate(r)
    BY <2>3, CalculateKeeps
  <2>4. CASE \E r \in Runs : Tag(r)
    BY <2>4, TagKeeps
  <2>5. CASE \E r \in Runs : Check(r) \/ CreateRelease(r) \/ Fail(r)
    BY <2>5, WalkKeeps
  <2>6. CASE \E r \in Runs : List(r) \/ Deploy(r)
    BY <2>6, IndexKeeps
  <2>7. CASE (\E v \in released : Appear(v)) \/ (\E r \in Runs : Poll(r)) \/ UNCHANGED vars
    BY <2>7, OthersKeep
  <2> QED
    BY <2>1, <2>2, <2>3, <2>4, <2>5, <2>6, <2>7 DEF Next, Step, Quiet
<1> QED
  BY <1>1, <1>2, PTL DEF Spec

\* The version a run computed is free when it tags (ci.yml, Calculate version
\* and Create tag): the concurrency group is all the locking there is.
THEOREM NoTagClashThm == Spec => []NoTagClash
<1>1. IInv => NoTagClash
  <2> SUFFICES ASSUME IInv, NEW r \in Runs, pc[r] = "tag" PROVE version[r] \notin Tagged
    BY DEF NoTagClash
  <2>1. version[r] \in Nat /\ \A v \in Tagged : v < version[r]
    BY DEF IInv, Tags, Numbered, Active
  <2> QED
    BY <2>1
<1> QED
  BY <1>1, Invariance, PTL

\* A higher version names a later push (ci.yml, Calculate version), whatever
\* failed or was cancelled in between.
THEOREM VersionsFollowPushesThm == Spec => []VersionsFollowPushes
<1>1. IInv => VersionsFollowPushes
  BY DEF IInv
<1> QED
  BY <1>1, Invariance, PTL

\* A deployment (ci.yml, Deploy to pages) of a listing that was whole links
\* all that was ever linked: nothing was deployed since it was read, and what
\* the API lists only grows.
THEOREM IndexRecoversThm == Spec => IndexRecovers
<1>1. IInv /\ [Next]_vars =>
        [\A r \in Runs : Deploy(r) /\ listing[r].whole => linked \subseteq index']_vars
  BY DEF IInv, Index, Deploy
<1> QED
  BY <1>1, Invariance, PTL DEF Spec, IndexRecovers

\* The index loses a version in one step only: the deployment of a listing
\* that broke off (ci.yml:109, whose failure does not fail the step).
THEOREM LossNeedsACut ==
    Spec => [][\/ index \subseteq index'
               \/ \E r \in Runs : Deploy(r) /\ ~listing[r].whole]_vars
<1>1. IInv /\ [Next]_vars =>
        [\/ index \subseteq index'
         \/ \E r \in Runs : Deploy(r) /\ ~listing[r].whole]_vars
  <2> SUFFICES ASSUME IInv, [Next]_vars
               PROVE  \/ index \subseteq index'
                      \/ \E r \in Runs : Deploy(r) /\ ~listing[r].whole
    OBVIOUS
  <2>1. CASE \E r \in Runs : Deploy(r)
    BY <2>1 DEF IInv, Index, Deploy
  <2>2. CASE ~ \E r \in Runs : Deploy(r)
    <3>1. index' = index
      BY <2>2 DEF Next, Step, Trigger, Start, Check, Calculate, Tag, CreateRelease, Poll,
                  List, Fail, Appear, Quiet, vars, repository
    <3> QED
      BY <3>1
  <2> QED
    BY <2>1, <2>2
<1> QED
  BY <1>1, Invariance, PTL DEF Spec
=============================================================================
