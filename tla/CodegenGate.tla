----------------------------- MODULE CodegenGate -----------------------------
(***************************************************************************)
(* The generated tool surface and the gate in front of every commit.       *)
(*                                                                         *)
(* codegen/ holds the inventory of operations and data about them;         *)
(* generate.py writes one tools module per inventory module, without the   *)
(* operations that tools/overrides.py implements by hand.  check.py        *)
(* compares the files with a fresh generation and the hand-written         *)
(* operations with their list.  A developer edits all of it in any order.  *)
(***************************************************************************)
CONSTANTS
    Names,      \* names of operations
    Modules,    \* names of generated modules
    Gated,      \* GATED_MODULES
    Endpoints,  \* path and verb pairs of the OpenAPI snapshot
    EndpointOf, \* the endpoint an operation of that name wraps
    HandEdit,   \* what a generated file holds besides generated operations
    Absent      \* no module: the inventory has no such operation

ASSUME GateAssumption ==
    /\ Gated \subseteq Modules
    /\ EndpointOf \in [Names -> Endpoints]
    /\ Absent \notin Modules
    /\ HandEdit \notin Names

VARIABLES
    modules,    \* inventory.MODULES
    ops,        \* inventory.OPS: the module of each name, Absent when unknown
    overrides,  \* keys of codegen/overrides.py
    decided,    \* keys of annotations.py, slims.py and verify.py
    waived,     \* WAIVED_UNCOVERED
    impl,       \* the @op functions of tools/overrides.py
    disk        \* the files tools/_generated_<module>.py: the operations each defines

gateVars == <<modules, ops, overrides, decided, waived, impl, disk>>

data == <<modules, ops, overrides, decided, waived>>

Known == {n \in Names : ops[n] # Absent}

\* What no operation wraps: the list of waivers.py in a tree that is in order.
Uncovered == {e \in Endpoints : \A n \in Known : EndpointOf[n] # e}

(***************************************************************************)
(* generate.py                                                             *)
(***************************************************************************)

\* emit_tree returns: data keys name known operations, and the module of
\* each operation it writes is one of MODULES.
Generates ==
    /\ overrides \cup decided \subseteq Known
    /\ \A n \in Known \ overrides : ops[n] \in modules

Emitted(m) == {n \in Known \ overrides : ops[n] = m}

\* emit_tree
Tree == [m \in modules |-> Emitted(m)]

(***************************************************************************)
(* check.py                                                                *)
(***************************************************************************)

\* Faulty SyncClean: only the files that are emitted are compared.
SyncCleanEmitted == \A m \in modules : m \in DOMAIN disk /\ disk[m] = Emitted(m)

\* check_sync: the emitted files and those on disk are the same.
SyncClean == disk = Tree

\* Faulty DedupeClean: an unlisted implementation is not looked for.
DedupeForward == \A n \in overrides : ops[n] \in Gated => n \in impl

\* check_override_dedupe, in both directions.
DedupeClean ==
    /\ \A n \in overrides : n \in Known /\ (ops[n] \in Gated => n \in impl)
    /\ impl \subseteq overrides

\* check_completeness
CompletenessClean == {n \in Known \ overrides : ops[n] \in Gated} \subseteq decided

\* check_spec_coverage
CoverageClean == \A e \in Endpoints \ waived : \E n \in Known : EndpointOf[n] = e

\* main(): status 0.
GatePasses ==
    Generates /\ SyncClean /\ DedupeClean /\ CompletenessClean /\ CoverageClean

(***************************************************************************)
(* Edits                                                                   *)
(***************************************************************************)

\* A consistent tree: the operations of a module, generated.
GateInit ==
    /\ modules = Modules
    /\ ops \in [Names -> Modules \cup {Absent}]
    /\ overrides = {} /\ impl = {}
    /\ decided = Known
    /\ waived = Uncovered
    /\ disk = Tree

EditInventory(n) ==
    /\ \E m \in Modules \cup {Absent} : m # ops[n] /\ ops' = [ops EXCEPT ![n] = m]
    /\ UNCHANGED <<modules, overrides, decided, waived, impl, disk>>

DropModule(m) ==
    /\ m \in modules
    /\ modules' = modules \ {m}
    /\ UNCHANGED <<ops, overrides, decided, waived, impl, disk>>

Toggled(set, x) == IF x \in set THEN set \ {x} ELSE set \cup {x}

EditData(n) ==
    /\ \/ overrides' = Toggled(overrides, n) /\ UNCHANGED decided
       \/ decided' = Toggled(decided, n) /\ UNCHANGED overrides
    /\ UNCHANGED <<modules, ops, waived, impl, disk>>

EditWaivers(e) ==
    /\ waived' = Toggled(waived, e)
    /\ UNCHANGED <<modules, ops, overrides, decided, impl, disk>>

EditTools(n) ==
    /\ impl' = Toggled(impl, n)
    /\ UNCHANGED <<data, disk>>

\* A generated file is edited by hand, or deleted.
EditGenerated(m) ==
    /\ m \in DOMAIN disk
    /\ \/ disk' = [disk EXCEPT ![m] = @ \cup {HandEdit}]
       \/ disk' = [f \in DOMAIN disk \ {m} |-> disk[f]]
    /\ UNCHANGED <<data, impl>>

\* Faulty Generate: a file that is there is not written again.
GenerateMissing ==
    /\ Generates
    /\ disk' = [m \in DOMAIN disk \cup modules |->
                    IF m \in DOMAIN disk THEN disk[m] ELSE Tree[m]]
    /\ UNCHANGED <<data, impl>>

\* python -m codegen.generate: every emitted file is written, no other one
\* is touched.
Generate ==
    /\ Generates
    /\ disk' = [m \in DOMAIN disk \cup modules |->
                    IF m \in modules THEN Tree[m] ELSE disk[m]]
    /\ UNCHANGED <<data, impl>>

GateNext ==
    \/ \E n \in Names : EditInventory(n) \/ EditData(n) \/ EditTools(n)
    \/ \E m \in Modules : DropModule(m) \/ EditGenerated(m)
    \/ \E e \in Endpoints : EditWaivers(e)
    \/ Generate

GateSpec == GateInit /\ [][GateNext]_gateVars

(***************************************************************************)
(* Properties                                                              *)
(***************************************************************************)

TypeOK ==
    /\ modules \subseteq Modules
    /\ ops \in [Names -> Modules \cup {Absent}]
    /\ overrides \subseteq Names /\ decided \subseteq Names /\ impl \subseteq Names
    /\ waived \subseteq Endpoints
    /\ DOMAIN disk \subseteq Modules
    /\ \A m \in DOMAIN disk : disk[m] \subseteq Names \cup {HandEdit}

\* The generated modules that define an operation: all files in tools/ are
\* imported, whether MODULES names them or not.
Definers(n) == {m \in DOMAIN disk : n \in disk[m]}

\* What the gate is for: in a tree that passes, every operation of the
\* inventory is defined, and by one function only, so no registration
\* silently replaces another.
ServedOnce ==
    GatePasses /\ Gated = Modules =>
        \A n \in Known :
            \/ n \in impl /\ Definers(n) = {}
            \/ n \notin impl /\ \E m \in Modules : Definers(n) = {m}

\* And nothing else is: no operation that was removed from the inventory, no
\* hand-written one that is not listed, no hand-edited file.
NothingElseServed ==
    GatePasses =>
        /\ impl \subseteq Known
        /\ \A n \in Names : Definers(n) # {} => n \in Known
        /\ \A m \in DOMAIN disk : HandEdit \notin disk[m]

\* Every endpoint of the snapshot that is not waived can be called.
EndpointsServed ==
    GatePasses /\ Gated = Modules =>
        \A e \in Endpoints \ waived :
            \E n \in Names : EndpointOf[n] = e /\ (n \in impl \/ Definers(n) # {})

\* "Run python -m codegen.generate and commit the result" is what the gate
\* advises when the files are out of sync.  Whatever was edited before, that
\* brings them into sync exactly when no file of a dropped module is left.
RegenerationRepairs == [][Generate => (SyncClean' <=> DOMAIN disk \subseteq modules)]_gateVars
=============================================================================
