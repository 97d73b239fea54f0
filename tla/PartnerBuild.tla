------------------------------ MODULE PartnerBuild ------------------------------
(***************************************************************************)
(* rawduck-build.py: check out a commit of RawDuck, build it against our   *)
(* own DuckDB, and keep the build in a cache named after the two.  A run   *)
(* may be killed between any two steps, and in the middle of a clone, a    *)
(* checkout, a build or a copy.  RAWDUCK_REF=head works in directories of  *)
(* its own, on whatever commit the partner's default branch is at.         *)
(***************************************************************************)
EXTENDS Pins, Naturals

CONSTANTS Commits, Refs,  \* commits of RawDuck, versions of DuckDB
          Modes,          \* which of "pinned" and "head" are run
          MaxBuilds       \* bound: runs started

ASSUME PinsAssumption == \A p \in PinSets : p.commit \in Commits /\ p.ref \in Refs
ASSUME MaxBuildsAssumption == MaxBuilds \in Nat

VARIABLES
  checkout,  \* per mode, the commit at HEAD, the one whose files are there, the
             \* version in duckdb/, the artifact
  cache,     \* per mode, the cached artifact of every key
  build,     \* the run
  builds     \* how many runs were started

partnerVars == <<checkout, cache, build, builds>>

\* An artifact is what it was built from and how it came to be what it is, which the
\* script does not see: built, left in place by a later make, or cut short.
None == [from |-> <<>>, state |-> "none"]
Truncated == [from |-> <<>>, state |-> "cut"]
BuiltFrom(commit, ref) == [from |-> <<commit, ref>>, state |-> "built"]
Broken == "not a usable checkout"
NoHead == "no checkout"
Own == "the partner's own gitlink"
Torn == "files of several"  \* what a checkout that was cut short leaves

ASSUME NamesAssumption == {Broken, NoHead, Torn} \cap Commits = {} /\ {Own, Torn} \cap Refs = {}

\* Mutant: the key forgets the version of DuckDB.
MutantCacheKey(commit, ref) == <<commit, CHOOSE r \in Refs : TRUE>>

cache_key(commit, ref) == <<commit, ref>>
Keys == {cache_key(c, r) : c \in Commits, r \in Refs}

NotRunning == {"idle", "passed", "failed"}
Idle == [pc |-> "idle", mode |-> "", commit |-> "", ref |-> ""]

PartnerInit ==
  /\ checkout = [m \in Modes |-> [head |-> NoHead, tree |-> Torn, duckdb |-> Own, artifact |-> None]]
  /\ cache = [m \in Modes |-> [k \in Keys |-> None]]
  /\ build = Idle
  /\ builds = 0

Here == checkout[build.mode]
Key == cache_key(build.commit, build.ref)

At(pc) == build.pc = pc
GoesTo(pc) == build' = [build EXCEPT !.pc = pc]

\* In head mode the target is what `git ls-remote` answers.
StartBuild(mode) ==
  /\ build.pc \in NotRunning
  /\ builds < MaxBuilds
  /\ \E target \in IF mode = "head" THEN Commits ELSE {pins.commit} :
       build' = [pc |-> "checkout", mode |-> mode, commit |-> target, ref |-> pins.ref]
  /\ builds' = builds + 1
  /\ UNCHANGED <<checkout, cache>>

\* Clone if there is nothing yet, check the target out, fetching it if need be.  HEAD
\* at the target is enough: nothing is checked out then, and a checkout carries what
\* does not belong to HEAD over, where it can.
CheckedOut ==
  CASE Here.head = NoHead       -> {build.commit}
    [] Here.head = build.commit -> {Here.tree}
    [] OTHER                    -> {build.commit} \cup ({Here.tree} \cap {Torn})
CheckOut ==
  /\ At("checkout")
  /\ Here.head # Broken
  /\ \E tree \in CheckedOut :
       checkout' = [checkout EXCEPT ![build.mode].head = build.commit, ![build.mode].tree = tree]
  /\ GoesTo("cache")
  /\ UNCHANGED <<cache, builds>>

CacheMiss ==
  /\ At("cache")
  /\ cache[build.mode][Key] = None
  /\ GoesTo("submodules")
  /\ UNCHANGED <<checkout, cache, builds>>

\* Mutant: a hit leaves the artifact in the checkout as it is.
MutantCacheHit ==
  /\ At("cache")
  /\ cache[build.mode][Key] # None
  /\ GoesTo("passed")
  /\ UNCHANGED <<checkout, cache, builds>>

CacheHit ==
  /\ At("cache")
  /\ cache[build.mode][Key] # None
  /\ checkout' = [checkout EXCEPT ![build.mode].artifact = Truncated]
  /\ GoesTo("placing")
  /\ UNCHANGED <<cache, builds>>

PlaceCached ==
  /\ At("placing")
  /\ checkout' = [checkout EXCEPT ![build.mode].artifact = cache[build.mode][Key]]
  /\ GoesTo("passed")
  /\ UNCHANGED <<cache, builds>>

\* The submodules as the partner pins them...
InitSubmodules ==
  /\ At("submodules")
  /\ \E duckdb \in {Own} \cup ({Here.duckdb} \cap {Torn}) :
       checkout' = [checkout EXCEPT ![build.mode].duckdb = duckdb]
  /\ GoesTo("repoint")
  /\ UNCHANGED <<cache, builds>>

\* Mutant: duckdb/ stays where the partner has it.
MutantRepoint == At("repoint") /\ GoesTo("make") /\ UNCHANGED <<checkout, cache, builds>>

\* ... and then duckdb/ as we do.
Repoint ==
  /\ At("repoint")
  /\ \E duckdb \in {build.ref} \cup ({Here.duckdb} \cap {Torn}) :
       checkout' = [checkout EXCEPT ![build.mode].duckdb = duckdb]
  /\ GoesTo("make")
  /\ UNCHANGED <<cache, builds>>

\* All the script knows of a make that exits 0 is that there is an artifact: it may be
\* the one that was there before.
Built == BuiltFrom(Here.tree, Here.duckdb)
Left == IF Here.artifact.state = "built" /\ Here.artifact # Built
        THEN [Here.artifact EXCEPT !.state = "left"] ELSE Here.artifact
Make ==
  /\ At("make")
  /\ \E artifact \in {Built, Left} \ {None} :
       checkout' = [checkout EXCEPT ![build.mode].artifact = artifact]
  /\ GoesTo("save")
  /\ UNCHANGED <<cache, builds>>

OpenCacheFile ==
  /\ At("save")
  /\ cache' = [cache EXCEPT ![build.mode][Key] = Truncated]
  /\ GoesTo("saving")
  /\ UNCHANGED <<checkout, builds>>

FillCacheFile ==
  /\ At("saving")
  /\ cache' = [cache EXCEPT ![build.mode][Key] = Here.artifact]
  /\ GoesTo("passed")
  /\ UNCHANGED <<checkout, builds>>

\* What the command a run is in may leave of the checkout if it does not end well.
Unfinished ==
  CASE At("checkout") /\ Here.head = NoHead ->
         {Here, [Here EXCEPT !.head = Broken]}
         \cup {[Here EXCEPT !.head = c, !.tree = c] : c \in Commits}
         \cup {[Here EXCEPT !.head = c, !.tree = Torn] : c \in Commits}
    [] At("checkout") /\ Here.head \in Commits \ {build.commit} -> {Here, [Here EXCEPT !.tree = Torn]}
    [] At("submodules") \/ At("repoint") -> {Here, [Here EXCEPT !.duckdb = Torn]}
    [] At("make") -> {[Here EXCEPT !.artifact = a] : a \in {Here.artifact, None, Truncated, Built}}
    [] OTHER -> {Here}

\* A signal; a command that fails ends a run in the same way.
KillBuild ==
  /\ build.pc \notin NotRunning
  /\ \E left \in Unfinished : checkout' = [checkout EXCEPT ![build.mode] = left]
  /\ GoesTo("failed")
  /\ UNCHANGED <<cache, builds>>

PartnerNext == \/ \E m \in Modes : StartBuild(m)
               \/ CheckOut \/ CacheMiss \/ CacheHit \/ PlaceCached \/ InitSubmodules \/ Repoint
               \/ Make \/ OpenCacheFile \/ FillCacheFile \/ KillBuild

--------------------------------------------------------------------------------
BuiltFor(artifact, commit, ref) ==
  artifact.from[1] \in {commit, Torn} /\ artifact.from[2] \in {ref, Torn}

(* A cached artifact was built from the commit and the DuckDB its name says, *)
(* whatever was built in the same directory before and however runs ended.   *)
(* What the script cannot tell is excepted and shows in the artifact: a copy *)
(* that was cut short, a make that exited 0 and left an earlier artifact,    *)
(* files that a checkout cut short left among those of the commit.           *)
CachedBuildsAreTheirKeys ==
  \A m \in Modes, k \in Keys : cache[m][k].state = "built" => BuiltFor(cache[m][k], k[1], k[2])

(* What the partner tests load after a run that passed is what is cached     *)
(* under the commit the run reports and our DuckDB, and was built from these *)
(* with the same exceptions, each of which is then in the cache as well.     *)
PassedArtifactIsPinned ==
  build.pc = "passed" =>
    /\ Here.head = build.commit
    /\ Here.artifact # None /\ cache[build.mode][Key] = Here.artifact
    /\ Here.artifact.state = "built" => BuiltFor(Here.artifact, build.commit, build.ref)
================================================================================
