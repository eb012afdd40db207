------------------------------- MODULE Release -------------------------------
(***************************************************************************)
(* The CI workflow: from pushes and pull requests to tags, releases and    *)
(* the package index that uvx installs from.                               *)
(*                                                                         *)
(* Every run of the workflow belongs to the concurrency group "pages": one *)
(* run at a time, at most one more waits, and a run that is queued behind  *)
(* a waiting one replaces it.  The release job of a push to main takes its *)
(* version from the tags, pushes the next tag, creates the release, waits  *)
(* some tries for the API to list its asset, and deploys an index built    *)
(* from what the API answers.  Any step may fail.  A request of the index  *)
(* step may also fail without failing the step: it feeds a pipeline under  *)
(* bash -e without pipefail, whose status is that of the loop.             *)
(***************************************************************************)
EXTENDS Naturals, FiniteSetsExt

CONSTANTS
    MaxRuns,    \* bound on the runs that are triggered
    Events,     \* the events that occur: "push" to main, "pr"
    Patience,   \* how often the index step asks for the new asset
    NoVersion

ASSUME ReleaseAssumption ==
    /\ MaxRuns \in Nat /\ Patience \in Nat \ {0}
    /\ Events \subseteq {"push", "pr"}
    /\ NoVersion \notin Nat

Runs == 1..MaxRuns

VARIABLES
    event,      \* what triggered each run
    good,       \* does the commit of the run pass the checks?
    pc,         \* how far each run is
    version,    \* the patch level each run computed
    tries,      \* polls of the index step
    listing,    \* the versions each run read from the API; were they all?
    tags,       \* the run whose commit each tag of the repository names
    released,   \* versions that have a release with a wheel
    visible,    \* those of them that the API lists
    index,      \* the versions the deployed index links to
    linked      \* those an index ever linked to (no step reads it)

vars == <<event, good, pc, version, tries, listing, tags, released, visible, index, linked>>

\* The patch levels that are tagged.
Tagged == DOMAIN tags

repository == <<tags, released, visible, index, linked>>

Active == {"checking", "version", "tag", "release", "poll", "deploy"}

Over == {"done", "failed", "cancelled"}

Init ==
    /\ event = [r \in Runs |-> "none"]
    /\ good = [r \in Runs |-> FALSE]
    /\ pc = [r \in Runs |-> "none"]
    /\ version = [r \in Runs |-> NoVersion]
    /\ tries = [r \in Runs |-> 0]
    /\ listing = [r \in Runs |-> [versions |-> {}, whole |-> FALSE]]
    /\ tags = <<>> /\ released = {} /\ visible = {} /\ index = {} /\ linked = {}

Goto(r, label) == pc' = [pc EXCEPT ![r] = label]

\* Runs are triggered in the order of their numbers.
NextRun(r) == pc[r] = "none" /\ \A s \in 1..r - 1 : pc[s] # "none"

\* Faulty Trigger: a run is dropped when another one waits already.
TriggerUnlessPending(r) ==
    /\ NextRun(r)
    /\ \E e \in Events, ok \in BOOLEAN :
         event' = [event EXCEPT ![r] = e] /\ good' = [good EXCEPT ![r] = ok]
    /\ Goto(r, IF \E s \in Runs : pc[s] = "pending" THEN "cancelled" ELSE "pending")
    /\ UNCHANGED <<version, tries, listing, repository>>

\* A new run joins the group and replaces the one that waits.
Trigger(r) ==
    /\ NextRun(r)
    /\ \E e \in Events, ok \in BOOLEAN :
         event' = [event EXCEPT ![r] = e] /\ good' = [good EXCEPT ![r] = ok]
    /\ pc' = [s \in Runs |->
                IF s = r THEN "pending" ELSE IF pc[s] = "pending" THEN "cancelled" ELSE pc[s]]
    /\ UNCHANGED <<version, tries, listing, repository>>

\* Faulty Start: no concurrency group.
StartAtOnce(r) ==
    /\ pc[r] = "pending"
    /\ Goto(r, "checking")
    /\ UNCHANGED <<event, good, version, tries, listing, repository>>

Start(r) ==
    /\ pc[r] = "pending"
    /\ \A s \in Runs : pc[s] \notin Active
    /\ Goto(r, "checking")
    /\ UNCHANGED <<event, good, version, tries, listing, repository>>

\* Unit and integration jobs; only a push to main goes on to release.
Check(r) ==
    /\ pc[r] = "checking"
    /\ IF good[r]
       THEN Goto(r, IF event[r] = "push" THEN "version" ELSE "done")
       ELSE Goto(r, "failed")
    /\ UNCHANGED <<event, good, version, tries, listing, repository>>

\* Faulty Calculate: the version follows the newest release.
CalculateFromReleases(r) ==
    /\ pc[r] = "version"
    /\ version' = [version EXCEPT ![r] = IF released = {} THEN 0 ELSE Max(released) + 1]
    /\ Goto(r, "tag")
    /\ UNCHANGED <<event, good, tries, listing, repository>>

\* The newest tag and one more patch level, or 1.0.0.
Calculate(r) ==
    /\ pc[r] = "version"
    /\ version' = [version EXCEPT ![r] = IF Tagged = {} THEN 0 ELSE Max(Tagged) + 1]
    /\ Goto(r, "tag")
    /\ UNCHANGED <<event, good, tries, listing, repository>>

\* git tag and git push refuse a tag that exists.
Tag(r) ==
    /\ pc[r] = "tag"
    /\ tags' = [v \in Tagged \cup {version[r]} |-> IF v \in Tagged THEN tags[v] ELSE r]
    /\ Goto(r, IF version[r] \in Tagged THEN "failed" ELSE "release")
    /\ UNCHANGED <<event, good, version, tries, listing, released, visible, index, linked>>

CreateRelease(r) ==
    /\ pc[r] = "release"
    /\ released' = released \cup {version[r]}
    /\ Goto(r, "poll")
    /\ UNCHANGED <<event, good, version, tries, listing, tags, visible, index, linked>>

\* The API lists a release some time after it was created.
Appear(v) ==
    /\ v \in released \ visible
    /\ visible' = visible \cup {v}
    /\ UNCHANGED <<event, good, pc, version, tries, listing, tags, released, index, linked>>

\* Not listed, or the request failed: sleep and ask again.
Poll(r) ==
    /\ pc[r] = "poll" /\ tries[r] < Patience
    /\ tries' = [tries EXCEPT ![r] = @ + 1]
    /\ UNCHANGED <<event, good, pc, version, listing, repository>>

Answered(part) == [versions |-> part, whole |-> part = visible]

\* Faulty List: the index is built from the new asset only.
ListNewOnly(r) ==
    /\ pc[r] = "poll"
    /\ version[r] \in visible \/ tries[r] = Patience
    /\ listing' = [listing EXCEPT ![r] =
                     [versions |-> visible \cap {version[r]}, whole |-> TRUE]]
    /\ Goto(r, "deploy")
    /\ UNCHANGED <<event, good, version, tries, repository>>

\* The new asset was listed, or patience is over: the releases are asked for
\* once more, and the index is built from what arrives before the request
\* ends or breaks off.
List(r) ==
    /\ pc[r] = "poll"
    /\ version[r] \in visible \/ tries[r] = Patience
    /\ \E part \in SUBSET visible : listing' = [listing EXCEPT ![r] = Answered(part)]
    /\ Goto(r, "deploy")
    /\ UNCHANGED <<event, good, version, tries, repository>>

Deploy(r) ==
    /\ pc[r] = "deploy"
    /\ index' = listing[r].versions
    /\ linked' = linked \cup listing[r].versions
    /\ Goto(r, "done")
    /\ UNCHANGED <<event, good, version, tries, listing, tags, released, visible>>

\* Any step of a run may fail, and ends it with what was done so far.
Fail(r) ==
    /\ pc[r] \in Active
    /\ Goto(r, "failed")
    /\ UNCHANGED <<event, good, version, tries, listing, repository>>

Quiet ==
    /\ \A r \in Runs : pc[r] \in Over
    /\ released = visible
    /\ UNCHANGED vars

Step(r) ==
    \/ Start(r) \/ Check(r) \/ Calculate(r) \/ Tag(r) \/ CreateRelease(r)
    \/ Poll(r) \/ List(r) \/ Deploy(r)

Next ==
    \/ \E r \in Runs : Trigger(r) \/ Step(r) \/ Fail(r)
    \/ \E v \in released : Appear(v)
    \/ Quiet

\* The runner works on.  Nobody has to push, and the API may lag for ever.
Spec == Init /\ [][Next]_vars /\ \A r \in Runs : WF_vars(Step(r))

(***************************************************************************)
(* Properties                                                              *)
(***************************************************************************)

\* A computed version is still free when it is tagged, also after runs that
\* failed between tag and release: no run is lost to a version clash.
NoTagClash == \A r \in Runs : pc[r] = "tag" => version[r] \notin Tagged

\* A higher version is a later push, whatever failed in between, so "latest"
\* is never older code than what it replaces.
VersionsFollowPushes == \A u, v \in Tagged : u < v => tags[u] < tags[v]

\* A deployment from a listing that was whole when it was read links every
\* version that was ever linked, those that a broken-off listing lost
\* meanwhile included.  So the index of ci.yml:109 loses a version in one way
\* only, through a request that broke off, and the next whole one repairs it.
IndexRecovers ==
    [][\A r \in Runs : Deploy(r) /\ listing[r].whole => linked \subseteq index']_vars

\* Only pushes so far, and no run failed but for its own code.
Undisturbed == \A r \in Runs : event[r] # "pr" /\ (pc[r] = "failed" => ~good[r])

\* Without failures and pull requests, the newest good push to main gets its
\* release and deploys an index in the end, although the waiting runs before it
\* are cancelled, unless a later push takes its place.
HeadReleased ==
    []Undisturbed =>
        \A r \in Runs :
            good[r] ~> pc[r] = "done" \/ \E s \in Runs : s > r /\ event[s] = "push"
=============================================================================
