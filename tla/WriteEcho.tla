------------------------------ MODULE WriteEcho ------------------------------
(***************************************************************************)
(* helpers.verify_response: does the echo of a write hold every key that   *)
(* was sent?                                                               *)
(*                                                                         *)
(* A document is a dict, a function from keys to documents, or a leaf:     *)
(* every value that is no dict, null and lists included.  A path is a      *)
(* sequence of keys.  The walk over the sent keys is a set of paths still  *)
(* to look at, so every order a dict can have is covered.                  *)
(***************************************************************************)
EXTENDS Naturals, SequencesExt

CONSTANTS
    Keys,       \* the keys of all dicts
    Leaf,       \* a value that is no dict
    Documents,  \* the documents that are sent and received
    Depth       \* bound on the paths that the properties ask for

IsDict(doc) == doc # Leaf

\* What a document holds is a document.
ASSUME EchoAssumption ==
    /\ Depth \in Nat
    /\ \A doc \in Documents : IsDict(doc) =>
         DOMAIN doc \subseteq Keys /\ \A k \in DOMAIN doc : doc[k] \in Documents

\* The documents on the way down a path, as far as they are there.
Way(doc, path) ==
    LET d[i \in 0..Len(path)] == IF i = 0 THEN doc ELSE d[i - 1][path[i]] IN d

\* The document at a path that is there.
At(doc, path) == Way(doc, path)[Len(path)]

VARIABLES
    sent,       \* the body, or the part of it the operation verifies
    received,   \* the answer of the proxy
    skipRoot,   \* keys not to look for at the root
    todo,       \* paths of sent still to be looked at
    raised      \* the path named by the ValueError, <<>> when none

echoVars == <<sent, received, skipRoot, todo, raised>>

\* Every sent key is looked at, unless the answer is no dict.
EchoInit ==
    /\ sent \in Documents \ {Leaf}
    /\ received \in Documents
    /\ skipRoot \in SUBSET Keys
    /\ todo = IF IsDict(received) THEN {<<k>> : k \in DOMAIN sent} ELSE {}
    /\ raised = <<>>

InEcho(path) == Last(path) \in DOMAIN At(received, Front(path))

\* Faulty Skipped: the skip set applies at every level.
SkippedAnywhere(path) == Last(path) \in skipRoot

\* "_path == "" and key in skip_root"
Skipped(path) == Len(path) = 1 /\ path[1] \in skipRoot

Skip(path) ==
    /\ Skipped(path)
    /\ todo' = todo \ {path}
    /\ UNCHANGED <<sent, received, skipRoot, raised>>

\* Faulty Drop: the key is named without the path to it.
DropUnnamed(path) ==
    /\ ~Skipped(path) /\ ~InEcho(path)
    /\ raised' = <<Last(path)>>
    /\ todo' = {}
    /\ UNCHANGED <<sent, received, skipRoot>>

\* The first missing key ends the walk.
Drop(path) ==
    /\ ~Skipped(path) /\ ~InEcho(path)
    /\ raised' = path
    /\ todo' = {}
    /\ UNCHANGED <<sent, received, skipRoot>>

\* The recursive call, which returns at once when the echo is no dict.
Below(path) ==
    IF IsDict(At(sent, path)) /\ IsDict(At(received, path))
    THEN {Append(path, k) : k \in DOMAIN At(sent, path)}
    ELSE {}

Found(path) ==
    /\ ~Skipped(path) /\ InEcho(path)
    /\ todo' = (todo \ {path}) \cup Below(path)
    /\ UNCHANGED <<sent, received, skipRoot, raised>>

Returned == todo = {} /\ UNCHANGED echoVars

EchoNext == (\E path \in todo : Skip(path) \/ Drop(path) \/ Found(path)) \/ Returned

EchoSpec == EchoInit /\ [][EchoNext]_echoVars

(***************************************************************************)
(* Properties                                                              *)
(***************************************************************************)

Paths == UNION {[1..n -> Keys] : n \in 1..Depth}

\* A document holds a path when every key of it is there.
Holds(doc, path) ==
    \A i \in 1..Len(path) :
        LET parent == Way(doc, path)[i - 1] IN
        IsDict(parent) /\ path[i] \in DOMAIN parent

\* The error names a key that was sent and that the echo really lacks, by its
\* full path, and never one that the operation told it to skip or below it.
NamesTheDrop ==
    raised # <<>> =>
        /\ Holds(sent, raised) /\ ~Holds(received, raised)
        /\ raised[1] \notin skipRoot

\* Somewhere on the way to this path the echo holds a value that is no dict.
HidesUnderLeaf(path) ==
    \E i \in 0..Len(path) - 1 :
        LET above == SubSeq(path, 1, i) IN
        Holds(received, above) /\ ~IsDict(At(received, above))

\* An echo that passes holds everything that was sent, except what lies below
\* a key that is skipped at the root or below a value that is no dict.
PassMeansEchoed ==
    todo = {} /\ raised = <<>> =>
        \A path \in Paths :
            Holds(sent, path) /\ path[1] \notin skipRoot =>
                Holds(received, path) \/ HidesUnderLeaf(path)
=============================================================================
