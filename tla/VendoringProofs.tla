---------------------------- MODULE VendoringProofs ----------------------------
(***************************************************************************)
(* What builds and fetches leave behind, for every number of runs, every   *)
(* set of pins and every moment a run is killed at: proofs about Vendoring.*)
(*                                                                         *)
(* The two scripts share nothing but the pins, which each reads once; so   *)
(* each has an invariant of its own, kept by its steps.                    *)
(***************************************************************************)
EXTENDS Vendoring, TLAPS

Heads == Commits \cup {Broken, NoHead}
Checkouts == [head : Heads, tree : Trees, duckdb : Refs \cup {Own, Torn}, artifact : Artifacts]

AfterCheckOut == {"cache", "placing", "submodules", "repoint", "make", "save", "saving", "passed"}
BuildSteps == AfterCheckOut \cup {"idle", "failed", "checkout"}

BuildTypeInv ==
  /\ checkout \in [Modes -> Checkouts]
  /\ cache \in [Modes -> [Keys -> Artifacts]]
  /\ build \in [pc : BuildSteps, mode : Modes \cup {""}, commit : Commits \cup {""}, ref : Refs \cup {""}]
  /\ build.pc # "idle" => build.mode \in Modes /\ build.commit \in Commits /\ build.ref \in Refs
  /\ builds \in 0 .. MaxBuilds

\* The files of a checkout are those of its HEAD, or of several commits.
FilesFit(c) == c.head \in Commits => c.tree \in {c.head, Torn}
FilesOfHead == \A m \in Modes : FilesFit(checkout[m])

\* What a run has in hand at each of its steps.
InHand ==
  /\ build.pc \in AfterCheckOut => Here.head = build.commit
  /\ build.pc = "placing" => cache[build.mode][Key] # None
  /\ build.pc = "make" => Here.duckdb \in {build.ref, Torn}
  /\ build.pc \in {"save", "saving"} =>
       /\ Here.artifact # None
       /\ Here.artifact.state = "built" => BuiltFor(Here.artifact, build.commit, build.ref)

BuildInv == BuildTypeInv /\ FilesOfHead /\ InHand /\ CachedBuildsAreTheirKeys /\ PassedArtifactIsPinned

FetchSteps == {"idle", "download", "remove", "rename", "passed", "failed"}

FetchTypeInv ==
  /\ dest \in [Tags -> [files : SUBSET Names, asset : Assets]]
  /\ fetch \in [Fetchers -> [pc : FetchSteps, tag : Tags \cup {""}, sha256 : Assets \cup {""}]]
  /\ vendored \subseteq Tags /\ cut \subseteq Tags

\* A run fetches what the pins it read say.
FetchesAPin ==
  \A f \in Fetchers : fetch[f].pc # "idle" =>
    \E p \in PinSets : p.tag = fetch[f].tag /\ p.sha256 = fetch[f].sha256

\* A directory that is neither empty nor whole is being removed, or was when its
\* run was cut.
WholeOrBeingRemoved ==
  \A t \in Tags \ cut :
    \/ dest[t].files \in {{}, Names}
    \/ \E f \in Fetchers : fetch[f].tag = t /\ fetch[f].pc = "remove"

\* A directory that a run has passed for is whole, or being replaced.
ReplacedIfNotWhole ==
  \A t \in vendored \ cut :
    \/ dest[t].files = Names
    \/ \E f \in Fetchers : fetch[f].tag = t /\ fetch[f].pc \in {"remove", "rename"}

FetchInv == FetchTypeInv /\ FetchesAPin /\ WholeOrBeingRemoved /\ ReplacedIfNotWhole /\ VendoredIsVerified

IInv == pins \in PinSets /\ BuildInv /\ FetchInv

--------------------------------------------------------------------------------
\* Where the running build works, and the name of what it makes.
LEMMA HereAndKey ==
  ASSUME BuildTypeInv, build.pc # "idle"
  PROVE  /\ Here \in Checkouts /\ build.mode \in Modes /\ build.commit \in Commits
         /\ build.ref \in Refs /\ Key \in Keys /\ Key = <<build.commit, build.ref>>
<1>1. build.mode \in Modes /\ build.commit \in Commits /\ build.ref \in Refs
  BY DEF BuildTypeInv
<1>2. Here \in Checkouts
  BY <1>1 DEF BuildTypeInv, Here
<1>3. Key \in Keys /\ Key = <<build.commit, build.ref>>
  BY <1>1 DEF Key, Keys, cache_key
<1> QED
  BY <1>1, <1>2, <1>3

\* What has not been built, and what is built of given files.
LEMMA ArtifactType ==
  /\ None \in Artifacts /\ Truncated \in Artifacts
  /\ None.state # "built" /\ Truncated.state # "built" /\ Truncated # None
  /\ \A t \in Trees, r \in Refs \cup {Torn} : BuiltFrom(t, r) \in Artifacts /\ BuiltFrom(t, r) # None
BY DEF Artifacts, None, Truncated, BuiltFrom

\* No run is started yet.
LEMMA NoneYet == PartnerInit => builds \in 0 .. MaxBuilds
<1>1. PartnerInit => builds = 0
  BY DEF PartnerInit
<1>2. 0 \in 0 .. MaxBuilds
  BY MaxBuildsAssumption
<1> QED
  BY <1>1, <1>2

\* The invariant of the builds holds at first.
LEMMA BuildInit == pins \in PinSets /\ PartnerInit => BuildInv
<1> SUFFICES ASSUME pins \in PinSets, PartnerInit
             PROVE  BuildInv
  OBVIOUS
<1>1. BuildTypeInv
  <2>1. [head |-> NoHead, tree |-> Torn, duckdb |-> Own, artifact |-> None] \in Checkouts
    BY ArtifactType DEF Checkouts, Heads, Trees
  <2>2. checkout \in [Modes -> Checkouts]
    BY <2>1 DEF PartnerInit
  <2>3. cache \in [Modes -> [Keys -> Artifacts]]
    BY ArtifactType DEF PartnerInit
  <2>4. builds \in 0 .. MaxBuilds
    BY NoneYet
  <2> QED
    BY <2>2, <2>3, <2>4 DEF PartnerInit, Idle, BuildTypeInv, BuildSteps, AfterCheckOut
<1>2. FilesOfHead
  BY DEF PartnerInit, FilesOfHead, FilesFit
<1>3. InHand /\ PassedArtifactIsPinned
  BY DEF PartnerInit, Idle, InHand, PassedArtifactIsPinned, AfterCheckOut
<1>4. CachedBuildsAreTheirKeys
  BY ArtifactType DEF PartnerInit, CachedBuildsAreTheirKeys
<1> QED
  BY <1>1, <1>2, <1>3, <1>4 DEF BuildInv

\* A run goes to another of its steps, with the pins it read, and leaves x in its
\* checkout.
LEMMA Goes ==
  ASSUME BuildTypeInv, FilesOfHead, build.pc # "idle",
         NEW pc \in BuildSteps, build' = [build EXCEPT !.pc = pc],
         NEW x \in Checkouts, FilesFit(x), checkout' = [checkout EXCEPT ![build.mode] = x]
  PROVE  /\ build' \in [pc : BuildSteps, mode : Modes \cup {""}, commit : Commits \cup {""},
                        ref : Refs \cup {""}]
         /\ build'.pc = pc /\ build'.mode = build.mode /\ build'.commit = build.commit
         /\ build'.ref = build.ref /\ Key' = Key
         /\ checkout' \in [Modes -> Checkouts] /\ FilesOfHead' /\ Here' = x
<1>1. /\ build' \in [pc : BuildSteps, mode : Modes \cup {""}, commit : Commits \cup {""},
                     ref : Refs \cup {""}]
      /\ build'.pc = pc /\ build'.mode = build.mode /\ build'.commit = build.commit
      /\ build'.ref = build.ref /\ Key' = Key
  BY DEF BuildTypeInv, Key, cache_key
<1>2. build.mode \in Modes /\ checkout \in [Modes -> Checkouts]
  BY DEF BuildTypeInv
<1>3. checkout' \in [Modes -> Checkouts] /\ Here' = x
  BY <1>1, <1>2 DEF Here
<1>4. \A m \in Modes : checkout'[m] \in {checkout[m], x}
  BY <1>2
<1>5. FilesOfHead'
  BY <1>4 DEF FilesOfHead, FilesFit
<1> QED
  BY <1>1, <1>3, <1>5

\* A step that leaves the checkout alone leaves in it what is there.
LEMMA LeavesIt ==
  ASSUME BuildTypeInv, FilesOfHead, build.pc # "idle", UNCHANGED checkout
  PROVE  Here \in Checkouts /\ FilesFit(Here) /\ checkout' = [checkout EXCEPT ![build.mode] = Here]
BY DEF BuildTypeInv, FilesOfHead, Here

\* What a run writes in the cache.
LEMMA SetCache ==
  ASSUME BuildTypeInv, build.pc # "idle", NEW x \in Artifacts,
         cache' = [cache EXCEPT ![build.mode][Key] = x]
  PROVE  /\ cache' \in [Modes -> [Keys -> Artifacts]]
         /\ cache'[build.mode][Key] = x
         /\ \A m \in Modes, k \in Keys :
              cache'[m][k] = cache[m][k] \/ (k = Key /\ cache'[m][k] = x)
BY HereAndKey DEF BuildTypeInv

\* A make that exits 0 leaves what it built, or what was there.
LEMMA MakeLeaves ==
  ASSUME BuildTypeInv, FilesOfHead, InHand, build.pc = "make",
         NEW a \in {Built, Left} \ {None}
  PROVE  /\ a \in Artifacts /\ Built \in Artifacts
         /\ a.state = "built" => BuiltFor(a, build.commit, build.ref)
<1>1. Here \in Checkouts /\ build.commit \in Commits /\ build.ref \in Refs /\ FilesFit(Here)
  BY HereAndKey DEF FilesOfHead, Here
<1>2. Here.tree \in {build.commit, Torn} /\ Here.duckdb \in {build.ref, Torn}
  BY <1>1 DEF InHand, FilesFit, AfterCheckOut
<1>3. Built \in Artifacts /\ BuiltFor(Built, build.commit, build.ref)
  BY <1>1, <1>2 DEF Built, BuiltFrom, BuiltFor, Artifacts, Trees
<1>4. Here.artifact \in Artifacts
  BY <1>1 DEF Checkouts
<1>5. CASE Here.artifact.state = "built" /\ Here.artifact # Built
  <2>1. Left = [Here.artifact EXCEPT !.state = "left"]
    BY <1>5 DEF Left
  <2>2. Left \in Artifacts /\ Left.state = "left"
    BY <1>4, <1>5, <2>1 DEF Artifacts, None, Truncated
  <2> QED
    BY <1>3, <2>2
<1>6. CASE ~(Here.artifact.state = "built" /\ Here.artifact # Built)
  <2>1. Left = Here.artifact
    BY <1>6 DEF Left
  <2> QED
    BY <1>3, <1>4, <1>6, <2>1
<1> QED
  BY <1>5, <1>6

\* What a command that does not end well leaves is a checkout.
LEMMA UnfinishedFits ==
  ASSUME BuildTypeInv, FilesOfHead, InHand, build.pc # "idle", NEW x \in Unfinished
  PROVE  x \in Checkouts /\ FilesFit(x)
<1>1. Here \in Checkouts /\ FilesFit(Here) /\ Here.artifact \in Artifacts
  BY HereAndKey DEF FilesOfHead, Here, Checkouts
<1>2. CASE At("checkout") /\ Here.head = NoHead
  <2>1. \/ x = Here
        \/ x = [Here EXCEPT !.head = Broken]
        \/ \E c \in Commits : x = [Here EXCEPT !.head = c, !.tree = c]
        \/ \E c \in Commits : x = [Here EXCEPT !.head = c, !.tree = Torn]
    <3>1. Here.head \notin Commits
      BY <1>2, NamesAssumption
    <3>2. Unfinished =
            {Here, [Here EXCEPT !.head = Broken]}
            \cup {[Here EXCEPT !.head = c, !.tree = c] : c \in Commits}
            \cup {[Here EXCEPT !.head = c, !.tree = Torn] : c \in Commits}
      BY <1>2, <3>1 DEF Unfinished, At
    <3> QED
      BY <3>2
  <2>2. CASE x = [Here EXCEPT !.head = Broken]
    BY <1>1, <2>2, NamesAssumption DEF Checkouts, Heads, FilesFit
  <2>3. CASE \E c \in Commits : \/ x = [Here EXCEPT !.head = c, !.tree = c]
                               \/ x = [Here EXCEPT !.head = c, !.tree = Torn]
    BY <1>1, <2>3 DEF Checkouts, Heads, Trees, FilesFit
  <2> QED
    BY <1>1, <2>1, <2>2, <2>3
<1>3. CASE At("checkout") /\ Here.head \in Commits \ {build.commit}
  <2>1. Here.head # NoHead
    BY <1>3, NamesAssumption
  <2>2. Unfinished = {Here, [Here EXCEPT !.tree = Torn]}
    BY <1>3, <2>1 DEF Unfinished, At
  <2> QED
    BY <1>1, <2>2 DEF Checkouts, Trees, FilesFit
<1>4. CASE At("submodules") \/ At("repoint")
  <2>1. x \in {Here, [Here EXCEPT !.duckdb = Torn]}
    BY <1>4 DEF Unfinished, At
  <2> QED
    BY <1>1, <2>1 DEF Checkouts, FilesFit
<1>5. CASE At("make")
  <2>1. PICK a \in {Here.artifact, None, Truncated, Built} : x = [Here EXCEPT !.artifact = a]
    BY <1>5 DEF Unfinished, At
  <2>2. Built \in Artifacts
    <3>1. Built \in {Built, Left} \ {None}
      BY DEF Built, BuiltFrom, None
    <3> QED
      BY <1>5, <3>1, MakeLeaves DEF At
  <2> QED
    BY <1>1, <2>1, <2>2, ArtifactType DEF Checkouts, FilesFit
<1>6. CASE /\ ~(At("checkout") /\ (Here.head = NoHead \/ Here.head \in Commits \ {build.commit}))
           /\ ~(At("submodules") \/ At("repoint")) /\ ~At("make")
  <2>1. x = Here
    BY <1>6 DEF Unfinished
  <2> QED
    BY <1>1, <2>1
<1> QED
  BY <1>2, <1>3, <1>4, <1>5, <1>6

\* One step of the build script keeps its invariant.
LEMMA BuildStep == pins \in PinSets /\ BuildInv /\ PartnerNext => BuildInv'
<1> SUFFICES ASSUME pins \in PinSets, BuildInv, PartnerNext
             PROVE  BuildInv'
  OBVIOUS
<1> USE DEF BuildInv
<1>1. ASSUME NEW m \in Modes, StartBuild(m)
      PROVE  BuildInv'
  <2>1. PICK target \in Commits :
          build' = [pc |-> "checkout", mode |-> m, commit |-> target, ref |-> pins.ref]
    BY <1>1, PinsAssumption DEF StartBuild
  <2>2. BuildTypeInv'
    <3>1. builds < MaxBuilds /\ builds' = builds + 1 /\ UNCHANGED <<checkout, cache>>
      BY <1>1 DEF StartBuild
    <3>2. builds \in 0 .. MaxBuilds
      BY DEF BuildTypeInv
    <3>3. builds' \in 0 .. MaxBuilds
      BY <3>1, <3>2, MaxBuildsAssumption
    <3>4. pins.ref \in Refs
      BY PinsAssumption
    <3> QED
      BY <2>1, <3>1, <3>3, <3>4 DEF BuildTypeInv, BuildSteps, AfterCheckOut
  <2>3. InHand' /\ PassedArtifactIsPinned'
    BY <2>1 DEF InHand, PassedArtifactIsPinned, AfterCheckOut
  <2>4. CachedBuildsAreTheirKeys' /\ FilesOfHead'
    BY <1>1 DEF StartBuild, CachedBuildsAreTheirKeys, FilesOfHead
  <2> QED
    BY <2>2, <2>3, <2>4
<1>2. CASE CheckOut
  <2>1. /\ build.pc = "checkout" /\ build' = [build EXCEPT !.pc = "cache"] /\ UNCHANGED builds
        /\ "cache" \in BuildSteps
        /\ UNCHANGED cache
    BY <1>2 DEF CheckOut, At, GoesTo, BuildSteps, AfterCheckOut
  <2>2. /\ Here \in Checkouts /\ FilesFit(Here) /\ build.mode \in Modes /\ build.commit \in Commits
        /\ build.ref \in Refs /\ Key = <<build.commit, build.ref>> /\ Key \in Keys
    BY <2>1, HereAndKey DEF FilesOfHead, Here
  <2>3. PICK tree \in CheckedOut :
          checkout' = [checkout EXCEPT ![build.mode] = [Here EXCEPT !.head = build.commit, !.tree = tree]]
    BY <1>2, <2>2 DEF CheckOut, Here
  <2> DEFINE x == [Here EXCEPT !.head = build.commit, !.tree = tree]
  <2>4. checkout' = [checkout EXCEPT ![build.mode] = x]
    BY <2>3
  <2>5. x \in Checkouts /\ FilesFit(x)
    <3>1. tree \in {build.commit, Torn}
      BY <2>2, <2>3 DEF CheckedOut, FilesFit
    <3> QED
      BY <2>2, <3>1 DEF Checkouts, Heads, Trees, FilesFit
  <2> HIDE DEF x
  <2>6. /\ build' \in [pc : BuildSteps, mode : Modes \cup {""}, commit : Commits \cup {""},
                       ref : Refs \cup {""}]
        /\ build'.pc = "cache" /\ build'.mode = build.mode /\ build'.commit = build.commit
        /\ build'.ref = build.ref /\ Key' = Key
        /\ checkout' \in [Modes -> Checkouts] /\ FilesOfHead' /\ Here' = x
    BY <2>1, <2>4, <2>5, Goes
  <2>7. BuildTypeInv'
    BY <2>1, <2>6 DEF BuildTypeInv
  <2>8. Here'.head = build.commit /\ PassedArtifactIsPinned' /\ InHand'
    <3>1. x.head = build.commit
      BY <2>2 DEF x, Checkouts
    <3> QED
      BY <2>1, <2>6, <3>1 DEF InHand, PassedArtifactIsPinned, AfterCheckOut, BuiltFor
  <2>9. CachedBuildsAreTheirKeys'
    BY <2>1 DEF CachedBuildsAreTheirKeys
  <2> QED
    BY <2>6, <2>7, <2>8, <2>9
<1>3. CASE CacheMiss
  <2>1. /\ build.pc = "cache" /\ build' = [build EXCEPT !.pc = "submodules"] /\ UNCHANGED builds
        /\ "submodules" \in BuildSteps
        /\ UNCHANGED cache
    BY <1>3 DEF CacheMiss, At, GoesTo, BuildSteps, AfterCheckOut
  <2>2. /\ Here \in Checkouts /\ FilesFit(Here) /\ build.mode \in Modes /\ build.commit \in Commits
        /\ build.ref \in Refs /\ Key = <<build.commit, build.ref>> /\ Key \in Keys
    BY <2>1, HereAndKey DEF FilesOfHead, Here
  <2>3. Here \in Checkouts /\ FilesFit(Here) /\ checkout' = [checkout EXCEPT ![build.mode] = Here]
    BY <1>3, <2>1, LeavesIt DEF CacheMiss
  <2>4. /\ build' \in [pc : BuildSteps, mode : Modes \cup {""}, commit : Commits \cup {""},
                       ref : Refs \cup {""}]
        /\ build'.pc = "submodules" /\ build'.mode = build.mode /\ build'.commit = build.commit
        /\ build'.ref = build.ref /\ Key' = Key
        /\ checkout' \in [Modes -> Checkouts] /\ FilesOfHead' /\ Here' = Here
    BY <2>1, <2>3, Goes
  <2>5. BuildTypeInv'
    BY <2>1, <2>4 DEF BuildTypeInv
  <2>6. InHand' /\ PassedArtifactIsPinned'
    BY <2>1, <2>4 DEF InHand, PassedArtifactIsPinned, AfterCheckOut, BuiltFor
  <2>7. CachedBuildsAreTheirKeys'
    BY <2>1 DEF CachedBuildsAreTheirKeys
  <2> QED
    BY <2>4, <2>5, <2>6, <2>7
<1>4. CASE CacheHit
  <2>1. /\ build.pc = "cache" /\ build' = [build EXCEPT !.pc = "placing"] /\ UNCHANGED builds
        /\ "placing" \in BuildSteps
        /\ UNCHANGED cache
        /\ cache[build.mode][Key] # None
    BY <1>4 DEF CacheHit, At, GoesTo, BuildSteps, AfterCheckOut
  <2>2. /\ Here \in Checkouts /\ FilesFit(Here) /\ build.mode \in Modes /\ build.commit \in Commits
        /\ build.ref \in Refs /\ Key = <<build.commit, build.ref>> /\ Key \in Keys
    BY <2>1, HereAndKey DEF FilesOfHead, Here
  <2> DEFINE x == [Here EXCEPT !.artifact = Truncated]
  <2>3. checkout' = [checkout EXCEPT ![build.mode] = x]
    BY <1>4, <2>2 DEF CacheHit, Here
  <2>4. x \in Checkouts /\ FilesFit(x)
    BY <2>2, ArtifactType DEF Checkouts, FilesFit
  <2> HIDE DEF x
  <2>5. /\ build' \in [pc : BuildSteps, mode : Modes \cup {""}, commit : Commits \cup {""},
                       ref : Refs \cup {""}]
        /\ build'.pc = "placing" /\ build'.mode = build.mode /\ build'.commit = build.commit
        /\ build'.ref = build.ref /\ Key' = Key
        /\ checkout' \in [Modes -> Checkouts] /\ FilesOfHead' /\ Here' = x
    BY <2>1, <2>3, <2>4, Goes
  <2>6. BuildTypeInv'
    BY <2>1, <2>5 DEF BuildTypeInv
  <2>7. Here'.head = build.commit /\ PassedArtifactIsPinned' /\ InHand'
    <3>1. Here.head = build.commit
      BY <2>1 DEF InHand, AfterCheckOut
    <3>2. x.head = build.commit
      BY <2>2, <3>1 DEF x, Checkouts
    <3> QED
      BY <2>1, <2>5, <3>2 DEF InHand, PassedArtifactIsPinned, AfterCheckOut, BuiltFor
  <2>8. CachedBuildsAreTheirKeys'
    BY <2>1 DEF CachedBuildsAreTheirKeys
  <2> QED
    BY <2>5, <2>6, <2>7, <2>8
<1>5. CASE PlaceCached
  <2>1. /\ build.pc = "placing" /\ build' = [build EXCEPT !.pc = "passed"] /\ UNCHANGED builds
        /\ "passed" \in BuildSteps
        /\ UNCHANGED cache
    BY <1>5 DEF PlaceCached, At, GoesTo, BuildSteps, AfterCheckOut
  <2>2. /\ Here \in Checkouts /\ FilesFit(Here) /\ build.mode \in Modes /\ build.commit \in Commits
        /\ build.ref \in Refs /\ Key = <<build.commit, build.ref>> /\ Key \in Keys
    BY <2>1, HereAndKey DEF FilesOfHead, Here
  <2> DEFINE x == [Here EXCEPT !.artifact = cache[build.mode][Key]]
  <2>3. checkout' = [checkout EXCEPT ![build.mode] = x]
    BY <1>5, <2>2 DEF PlaceCached, Here
  <2>4. x \in Checkouts /\ FilesFit(x)
    <3>1. cache[build.mode][Key] \in Artifacts
      BY <2>2 DEF BuildTypeInv
    <3> QED
      BY <2>2, <3>1 DEF Checkouts, FilesFit
  <2> HIDE DEF x
  <2>5. /\ build' \in [pc : BuildSteps, mode : Modes \cup {""}, commit : Commits \cup {""},
                       ref : Refs \cup {""}]
        /\ build'.pc = "passed" /\ build'.mode = build.mode /\ build'.commit = build.commit
        /\ build'.ref = build.ref /\ Key' = Key
        /\ checkout' \in [Modes -> Checkouts] /\ FilesOfHead' /\ Here' = x
    BY <2>1, <2>3, <2>4, Goes
  <2>6. BuildTypeInv'
    BY <2>1, <2>5 DEF BuildTypeInv
  <2>7. Here'.head = build.commit /\ PassedArtifactIsPinned' /\ InHand'
    <3>1. Here.head = build.commit
      BY <2>1 DEF InHand, AfterCheckOut
    <3>2. x.head = build.commit /\ x.artifact = cache[build.mode][Key] /\ x.artifact # None
      BY <2>1, <2>2, <3>1 DEF x, Checkouts, InHand
    <3>3. x.artifact.state = "built" => BuiltFor(x.artifact, build.commit, build.ref)
      BY <2>2, <3>2 DEF CachedBuildsAreTheirKeys
    <3> QED
      BY <2>1, <2>5, <3>2, <3>3 DEF InHand, PassedArtifactIsPinned, AfterCheckOut, BuiltFor
  <2>8. CachedBuildsAreTheirKeys'
    BY <2>1 DEF CachedBuildsAreTheirKeys
  <2> QED
    BY <2>5, <2>6, <2>7, <2>8
<1>6. CASE InitSubmodules
  <2>1. /\ build.pc = "submodules" /\ build' = [build EXCEPT !.pc = "repoint"] /\ UNCHANGED builds
        /\ "repoint" \in BuildSteps
        /\ UNCHANGED cache
    BY <1>6 DEF InitSubmodules, At, GoesTo, BuildSteps, AfterCheckOut
  <2>2. /\ Here \in Checkouts /\ FilesFit(Here) /\ build.mode \in Modes /\ build.commit \in Commits
        /\ build.ref \in Refs /\ Key = <<build.commit, build.ref>> /\ Key \in Keys
    BY <2>1, HereAndKey DEF FilesOfHead, Here
  <2>3. PICK duckdb \in {Own, Torn} :
          checkout' = [checkout EXCEPT ![build.mode] = [Here EXCEPT !.duckdb = duckdb]]
    BY <1>6, <2>2 DEF InitSubmodules, Here
  <2> DEFINE x == [Here EXCEPT !.duckdb = duckdb]
  <2>4. checkout' = [checkout EXCEPT ![build.mode] = x]
    BY <2>3
  <2>5. x \in Checkouts /\ FilesFit(x)
    BY <2>2 DEF Checkouts, FilesFit
  <2> HIDE DEF x
  <2>6. /\ build' \in [pc : BuildSteps, mode : Modes \cup {""}, commit : Commits \cup {""},
                       ref : Refs \cup {""}]
        /\ build'.pc = "repoint" /\ build'.mode = build.mode /\ build'.commit = build.commit
        /\ build'.ref = build.ref /\ Key' = Key
        /\ checkout' \in [Modes -> Checkouts] /\ FilesOfHead' /\ Here' = x
    BY <2>1, <2>4, <2>5, Goes
  <2>7. BuildTypeInv'
    BY <2>1, <2>6 DEF BuildTypeInv
  <2>8. Here'.head = build.commit /\ PassedArtifactIsPinned' /\ InHand'
    <3>1. Here.head = build.commit
      BY <2>1 DEF InHand, AfterCheckOut
    <3>2. x.head = build.commit
      BY <2>2, <3>1 DEF x, Checkouts
    <3> QED
      BY <2>1, <2>6, <3>2 DEF InHand, PassedArtifactIsPinned, AfterCheckOut, BuiltFor
  <2>9. CachedBuildsAreTheirKeys'
    BY <2>1 DEF CachedBuildsAreTheirKeys
  <2> QED
    BY <2>6, <2>7, <2>8, <2>9
<1>7. CASE Repoint
  <2>1. /\ build.pc = "repoint" /\ build' = [build EXCEPT !.pc = "make"] /\ UNCHANGED builds
        /\ "make" \in BuildSteps
        /\ UNCHANGED cache
    BY <1>7 DEF Repoint, At, GoesTo, BuildSteps, AfterCheckOut
  <2>2. /\ Here \in Checkouts /\ FilesFit(Here) /\ build.mode \in Modes /\ build.commit \in Commits
        /\ build.ref \in Refs /\ Key = <<build.commit, build.ref>> /\ Key \in Keys
    BY <2>1, HereAndKey DEF FilesOfHead, Here
  <2>3. PICK duckdb \in {build.ref, Torn} :
          checkout' = [checkout EXCEPT ![build.mode] = [Here EXCEPT !.duckdb = duckdb]]
    BY <1>7, <2>2 DEF Repoint, Here
  <2> DEFINE x == [Here EXCEPT !.duckdb = duckdb]
  <2>4. checkout' = [checkout EXCEPT ![build.mode] = x]
    BY <2>3
  <2>5. x \in Checkouts /\ FilesFit(x)
    BY <2>2 DEF Checkouts, FilesFit
  <2> HIDE DEF x
  <2>6. /\ build' \in [pc : BuildSteps, mode : Modes \cup {""}, commit : Commits \cup {""},
                       ref : Refs \cup {""}]
        /\ build'.pc = "make" /\ build'.mode = build.mode /\ build'.commit = build.commit
        /\ build'.ref = build.ref /\ Key' = Key
        /\ checkout' \in [Modes -> Checkouts] /\ FilesOfHead' /\ Here' = x
    BY <2>1, <2>4, <2>5, Goes
  <2>7. BuildTypeInv'
    BY <2>1, <2>6 DEF BuildTypeInv
  <2>8. Here'.head = build.commit /\ PassedArtifactIsPinned' /\ InHand'
    <3>1. Here.head = build.commit
      BY <2>1 DEF InHand, AfterCheckOut
    <3>2. x.head = build.commit /\ x.duckdb \in {build.ref, Torn}
      BY <2>2, <2>3, <3>1 DEF x, Checkouts
    <3> QED
      BY <2>1, <2>6, <3>2 DEF InHand, PassedArtifactIsPinned, AfterCheckOut, BuiltFor
  <2>9. CachedBuildsAreTheirKeys'
    BY <2>1 DEF CachedBuildsAreTheirKeys
  <2> QED
    BY <2>6, <2>7, <2>8, <2>9
<1>8. CASE Make
  <2>1. /\ build.pc = "make" /\ build' = [build EXCEPT !.pc = "save"] /\ UNCHANGED builds
        /\ "save" \in BuildSteps
        /\ UNCHANGED cache
    BY <1>8 DEF Make, At, GoesTo, BuildSteps, AfterCheckOut
  <2>2. /\ Here \in Checkouts /\ FilesFit(Here) /\ build.mode \in Modes /\ build.commit \in Commits
        /\ build.ref \in Refs /\ Key = <<build.commit, build.ref>> /\ Key \in Keys
    BY <2>1, HereAndKey DEF FilesOfHead, Here
  <2>3. PICK a \in {Built, Left} \ {None} :
          checkout' = [checkout EXCEPT ![build.mode] = [Here EXCEPT !.artifact = a]]
    BY <1>8, <2>2 DEF Make, Here
  <2> DEFINE x == [Here EXCEPT !.artifact = a]
  <2>4. checkout' = [checkout EXCEPT ![build.mode] = x]
    BY <2>3
  <2>5. x \in Checkouts /\ FilesFit(x)
    BY <2>1, <2>2, MakeLeaves DEF Checkouts, FilesFit
  <2> HIDE DEF x
  <2>6. /\ build' \in [pc : BuildSteps, mode : Modes \cup {""}, commit : Commits \cup {""},
                       ref : Refs \cup {""}]
        /\ build'.pc = "save" /\ build'.mode = build.mode /\ build'.commit = build.commit
        /\ build'.ref = build.ref /\ Key' = Key
        /\ checkout' \in [Modes -> Checkouts] /\ FilesOfHead' /\ Here' = x
    BY <2>1, <2>4, <2>5, Goes
  <2>7. BuildTypeInv'
    BY <2>1, <2>6 DEF BuildTypeInv
  <2>8. Here'.head = build.commit /\ PassedArtifactIsPinned' /\ InHand'
    <3>1. Here.head = build.commit
      BY <2>1 DEF InHand, AfterCheckOut
    <3>2. /\ x.head = build.commit /\ x.artifact # None
          /\ x.artifact.state = "built" => BuiltFor(x.artifact, build.commit, build.ref)
      BY <2>1, <2>2, <2>3, <3>1, MakeLeaves DEF x, Checkouts
    <3> QED
      BY <2>1, <2>6, <3>2 DEF InHand, PassedArtifactIsPinned, AfterCheckOut, BuiltFor
  <2>9. CachedBuildsAreTheirKeys'
    BY <2>1 DEF CachedBuildsAreTheirKeys
  <2> QED
    BY <2>6, <2>7, <2>8, <2>9
<1>9. CASE OpenCacheFile
  <2>1. /\ build.pc = "save" /\ build' = [build EXCEPT !.pc = "saving"] /\ UNCHANGED builds
        /\ "saving" \in BuildSteps
        /\ cache' = [cache EXCEPT ![build.mode][Key] = Truncated]
    BY <1>9 DEF OpenCacheFile, At, GoesTo, BuildSteps, AfterCheckOut
  <2>2. /\ Here \in Checkouts /\ FilesFit(Here) /\ build.mode \in Modes /\ build.commit \in Commits
        /\ build.ref \in Refs /\ Key = <<build.commit, build.ref>> /\ Key \in Keys
    BY <2>1, HereAndKey DEF FilesOfHead, Here
  <2>3. Here \in Checkouts /\ FilesFit(Here) /\ checkout' = [checkout EXCEPT ![build.mode] = Here]
    BY <1>9, <2>1, LeavesIt DEF OpenCacheFile
  <2>4. /\ build' \in [pc : BuildSteps, mode : Modes \cup {""}, commit : Commits \cup {""},
                       ref : Refs \cup {""}]
        /\ build'.pc = "saving" /\ build'.mode = build.mode /\ build'.commit = build.commit
        /\ build'.ref = build.ref /\ Key' = Key
        /\ checkout' \in [Modes -> Checkouts] /\ FilesOfHead' /\ Here' = Here
    BY <2>1, <2>3, Goes
  <2>5. /\ cache' \in [Modes -> [Keys -> Artifacts]] /\ cache'[build.mode][Key] = Truncated
        /\ \A m \in Modes, k \in Keys :
             cache'[m][k] = cache[m][k] \/ (k = Key /\ cache'[m][k] = Truncated)
    <3>1. Truncated \in Artifacts
      BY <2>2, ArtifactType DEF Checkouts
    <3> QED
      BY <2>1, <3>1, SetCache
  <2>6. BuildTypeInv'
    BY <2>1, <2>4, <2>5 DEF BuildTypeInv
  <2>7. InHand' /\ PassedArtifactIsPinned'
    BY <2>1, <2>4 DEF InHand, PassedArtifactIsPinned, AfterCheckOut, BuiltFor
  <2>8. CachedBuildsAreTheirKeys'
    BY <2>5, ArtifactType DEF CachedBuildsAreTheirKeys, BuiltFor
  <2> QED
    BY <2>4, <2>6, <2>7, <2>8
<1>10. CASE FillCacheFile
  <2>1. /\ build.pc = "saving" /\ build' = [build EXCEPT !.pc = "passed"] /\ UNCHANGED builds
        /\ "passed" \in BuildSteps
        /\ cache' = [cache EXCEPT ![build.mode][Key] = Here.artifact]
    BY <1>10 DEF FillCacheFile, At, GoesTo, BuildSteps, AfterCheckOut
  <2>2. /\ Here \in Checkouts /\ FilesFit(Here) /\ build.mode \in Modes /\ build.commit \in Commits
        /\ build.ref \in Refs /\ Key = <<build.commit, build.ref>> /\ Key \in Keys
    BY <2>1, HereAndKey DEF FilesOfHead, Here
  <2>3. Here \in Checkouts /\ FilesFit(Here) /\ checkout' = [checkout EXCEPT ![build.mode] = Here]
    BY <1>10, <2>1, LeavesIt DEF FillCacheFile
  <2>4. /\ build' \in [pc : BuildSteps, mode : Modes \cup {""}, commit : Commits \cup {""},
                       ref : Refs \cup {""}]
        /\ build'.pc = "passed" /\ build'.mode = build.mode /\ build'.commit = build.commit
        /\ build'.ref = build.ref /\ Key' = Key
        /\ checkout' \in [Modes -> Checkouts] /\ FilesOfHead' /\ Here' = Here
    BY <2>1, <2>3, Goes
  <2>5. /\ cache' \in [Modes -> [Keys -> Artifacts]] /\ cache'[build.mode][Key] = Here.artifact
        /\ \A m \in Modes, k \in Keys :
             cache'[m][k] = cache[m][k] \/ (k = Key /\ cache'[m][k] = Here.artifact)
    <3>1. Here.artifact \in Artifacts
      BY <2>2, ArtifactType DEF Checkouts
    <3> QED
      BY <2>1, <3>1, SetCache
  <2>6. BuildTypeInv'
    BY <2>1, <2>4, <2>5 DEF BuildTypeInv
  <2>7. InHand' /\ PassedArtifactIsPinned'
    BY <2>1, <2>4, <2>5 DEF InHand, PassedArtifactIsPinned, AfterCheckOut, BuiltFor
  <2>8. CachedBuildsAreTheirKeys'
    BY <2>1, <2>2, <2>5 DEF CachedBuildsAreTheirKeys, InHand, BuiltFor
  <2> QED
    BY <2>4, <2>6, <2>7, <2>8
<1>11. CASE KillBuild
  <2>1. /\ build.pc # "idle" /\ build' = [build EXCEPT !.pc = "failed"] /\ UNCHANGED <<cache, builds>>
        /\ "failed" \in BuildSteps
    BY <1>11 DEF KillBuild, NotRunning, GoesTo, BuildSteps
  <2>2. PICK x \in Unfinished : checkout' = [checkout EXCEPT ![build.mode] = x]
    BY <1>11 DEF KillBuild
  <2>3. x \in Checkouts /\ FilesFit(x)
    BY <2>1, UnfinishedFits
  <2>4. /\ build' \in [pc : BuildSteps, mode : Modes \cup {""}, commit : Commits \cup {""},
                       ref : Refs \cup {""}]
        /\ build'.pc = "failed" /\ build'.mode = build.mode /\ build'.commit = build.commit
        /\ build'.ref = build.ref /\ checkout' \in [Modes -> Checkouts] /\ FilesOfHead'
    BY <2>1, <2>2, <2>3, Goes
  <2>5. BuildTypeInv'
    BY <2>1, <2>4 DEF BuildTypeInv
  <2>6. InHand' /\ PassedArtifactIsPinned'
    BY <2>4 DEF InHand, PassedArtifactIsPinned, AfterCheckOut
  <2>7. CachedBuildsAreTheirKeys'
    BY <2>1 DEF CachedBuildsAreTheirKeys
  <2> QED
    BY <2>4, <2>5, <2>6, <2>7
<1> QED
  BY <1>1, <1>2, <1>3, <1>4, <1>5, <1>6, <1>7, <1>8, <1>9, <1>10, <1>11 DEF PartnerNext

--------------------------------------------------------------------------------
\* The invariant of the fetches holds at first.
LEMMA FetchInitially == pins \in PinSets /\ FetchInit => FetchInv
<1> SUFFICES ASSUME FetchInit
             PROVE  FetchInv
  OBVIOUS
<1>1. FetchTypeInv
  BY DEF FetchInit, FetchTypeInv, FetchSteps, Empty, Assets
<1>2. FetchesAPin
  BY DEF FetchInit, FetchesAPin
<1>3. \A t \in Tags : dest[t].files = {}
  BY DEF FetchInit, Empty
<1>4. WholeOrBeingRemoved /\ VendoredIsVerified
  BY <1>3 DEF WholeOrBeingRemoved, VendoredIsVerified, Looked
<1>5. ReplacedIfNotWhole
  BY DEF FetchInit, ReplacedIfNotWhole
<1> QED
  BY <1>1, <1>2, <1>4, <1>5 DEF FetchInv

\* A run that started fetches a tag that is pinned.
LEMMA PinnedTag ==
  ASSUME FetchTypeInv, FetchesAPin, NEW f \in Fetchers, fetch[f].pc # "idle"
  PROVE  fetch[f].tag \in Tags /\ fetch[f].sha256 \in Assets
BY DEF FetchesAPin, Tags, Assets

\* A run goes on, and the others stay where they are.
LEMMA Moves ==
  ASSUME FetchTypeInv, NEW f \in Fetchers, NEW pc \in FetchSteps, Steps(f, pc)
  PROVE  /\ fetch' \in [Fetchers -> [pc : FetchSteps, tag : Tags \cup {""}, sha256 : Assets \cup {""}]]
         /\ fetch'[f] = [pc |-> pc, tag |-> fetch[f].tag, sha256 |-> fetch[f].sha256]
         /\ fetch'[f].tag = fetch[f].tag /\ fetch'[f].sha256 = fetch[f].sha256
         /\ \A g \in Fetchers : g # f => fetch'[g] = fetch[g]
BY DEF FetchTypeInv, Steps

\* A run that goes on fetches the pin it did before.
LEMMA KeepsPin ==
  ASSUME FetchesAPin, NEW f \in Fetchers, fetch[f].pc # "idle",
         fetch'[f].tag = fetch[f].tag, fetch'[f].sha256 = fetch[f].sha256,
         \A g \in Fetchers : g # f => fetch'[g] = fetch[g]
  PROVE  FetchesAPin'
BY DEF FetchesAPin

\* One step of a fetch keeps the invariant of the fetches.
LEMMA FetchStep == pins \in PinSets /\ FetchInv /\ FetchNext => FetchInv'
<1> SUFFICES ASSUME pins \in PinSets, FetchInv, NEW f \in Fetchers,
                    \/ StartFetch(f) \/ Download(f) \/ RemoveFile(f) \/ Removed(f)
                    \/ Rename(f) \/ KillFetch(f)
             PROVE  FetchInv'
  BY DEF FetchNext
<1> USE DEF FetchInv
<1>1. CASE StartFetch(f)
  <2>1. PICK pc \in {"passed", "download"} :
          /\ fetch[f].pc = "idle" /\ UNCHANGED <<dest, cut>>
          /\ fetch' = [fetch EXCEPT ![f] = [pc |-> pc, tag |-> pins.tag, sha256 |-> pins.sha256]]
          /\ \/ vendored' = vendored
             \/ AlreadyVendored(pins.tag) /\ vendored' = vendored \cup {pins.tag}
    BY <1>1 DEF StartFetch
  <2>2. pins.tag \in Tags /\ pins.sha256 \in Assets /\ pc \in FetchSteps
    BY DEF Tags, Assets, FetchSteps
  <2>3. /\ fetch'[f] = [pc |-> pc, tag |-> pins.tag, sha256 |-> pins.sha256]
        /\ \A g \in Fetchers : g # f => fetch'[g] = fetch[g]
    BY <2>1 DEF FetchTypeInv
  <2>4. FetchTypeInv'
    BY <2>1, <2>2 DEF FetchTypeInv
  <2>5. FetchesAPin'
    BY <2>3 DEF FetchesAPin
  <2>6. \A g \in Fetchers : fetch[g].pc \in {"remove", "rename"} => fetch'[g] = fetch[g]
    BY <2>1, <2>3
  <2>7. WholeOrBeingRemoved'
    BY <2>1, <2>6 DEF WholeOrBeingRemoved
  <2>8. ReplacedIfNotWhole'
    <3> SUFFICES ASSUME NEW t \in vendored' \ cut'
                 PROVE  \/ dest'[t].files = Names
                        \/ \E g \in Fetchers : fetch'[g].tag = t /\ fetch'[g].pc \in {"remove", "rename"}
      BY DEF ReplacedIfNotWhole
    <3>1. \/ dest[t].files = Names
          \/ \E g \in Fetchers : fetch[g].tag = t /\ fetch[g].pc \in {"remove", "rename"}
      <4>1. CASE t \in vendored
        BY <2>1, <4>1 DEF ReplacedIfNotWhole
      <4>2. CASE t \notin vendored
        <5>1. t = pins.tag /\ dest[t].files # {}
          BY <2>1, <4>2 DEF AlreadyVendored, Looked
        <5> QED
          BY <2>1, <2>2, <5>1 DEF WholeOrBeingRemoved
      <4> QED
        BY <4>1, <4>2
    <3> QED
      BY <2>1, <2>6, <3>1
  <2>9. VendoredIsVerified'
    BY <2>1 DEF VendoredIsVerified
  <2> QED
    BY <2>4, <2>5, <2>7, <2>8, <2>9
<1>2. CASE Download(f)
  <2>1. PICK pc \in {"remove", "failed"} :
          /\ fetch[f].pc = "download" /\ UNCHANGED <<dest, vendored, cut>>
          /\ Steps(f, pc)
    <3>1. ASSUME NEW body \in Assets, Accepted(f, body),
                 fetch' = [fetch EXCEPT ![f].pc = "remove", ![f].sha256 = body]
          PROVE  Steps(f, "remove")
      BY <3>1 DEF Accepted, Steps, FetchTypeInv
    <3> QED
      BY <1>2, <3>1 DEF Download
  <2>2. pc \in FetchSteps
    BY DEF FetchSteps
  <2>3. FetchTypeInv'
    BY <2>1, <2>2, Moves DEF FetchTypeInv
  <2>4. FetchesAPin'
    BY <2>1, <2>2, Moves, KeepsPin
  <2>5. \A g \in Fetchers : fetch[g].pc \in {"remove", "rename"} => fetch'[g] = fetch[g]
    BY <2>1, <2>2, Moves
  <2>6. WholeOrBeingRemoved' /\ ReplacedIfNotWhole'
    BY <2>1, <2>5 DEF WholeOrBeingRemoved, ReplacedIfNotWhole
  <2>7. VendoredIsVerified'
    BY <2>1 DEF VendoredIsVerified
  <2> QED
    BY <2>3, <2>4, <2>6, <2>7
<1>3. CASE RemoveFile(f)
  <2> DEFINE tag == fetch[f].tag
  <2>1. PICK n \in dest[tag].files : /\ fetch[f].pc = "remove"
                                     /\ dest' = [dest EXCEPT ![tag].files = @ \ {n}]
                                     /\ UNCHANGED <<fetch, vendored, cut>>
    BY <1>3 DEF RemoveFile
  <2>2. tag \in Tags
    BY <2>1, PinnedTag
  <2>3. /\ dest'[tag] = [files |-> dest[tag].files \ {n}, asset |-> dest[tag].asset]
        /\ \A t \in Tags : t # tag => dest'[t] = dest[t]
    BY <2>1, <2>2 DEF FetchTypeInv
  <2>4. FetchTypeInv'
    BY <2>1, <2>2 DEF FetchTypeInv
  <2>5. FetchesAPin'
    BY <2>1 DEF FetchesAPin
  <2>6. WholeOrBeingRemoved'
    BY <2>1, <2>3 DEF WholeOrBeingRemoved
  <2>7. ReplacedIfNotWhole'
    <3>1. vendored \subseteq Tags
      BY DEF FetchTypeInv
    <3> QED
      BY <2>1, <2>3, <3>1 DEF ReplacedIfNotWhole
  <2>8. VendoredIsVerified'
    BY <2>3 DEF VendoredIsVerified
  <2> QED
    BY <2>4, <2>5, <2>6, <2>7, <2>8
<1>4. CASE Removed(f)
  <2>1. /\ fetch[f].pc = "remove" /\ cut' \in {cut, cut \cup {fetch[f].tag}}
        /\ dest[fetch[f].tag].files \in {{}, Names} \/ fetch[f].tag \in cut'
        /\ Steps(f, "rename") /\ UNCHANGED <<dest, vendored>> /\ "rename" \in FetchSteps
    BY <1>4 DEF Removed, FetchSteps
  <2>2. /\ fetch'[f] = [pc |-> "rename", tag |-> fetch[f].tag, sha256 |-> fetch[f].sha256]
        /\ \A g \in Fetchers : g # f => fetch'[g] = fetch[g]
    BY <2>1, Moves
  <2>3. FetchTypeInv'
    BY <2>1, Moves, PinnedTag DEF FetchTypeInv
  <2>4. FetchesAPin'
    BY <2>1, <2>2, KeepsPin
  <2>5. WholeOrBeingRemoved'
    BY <2>1, <2>2 DEF WholeOrBeingRemoved
  <2>6. ReplacedIfNotWhole'
    BY <2>1, <2>2 DEF ReplacedIfNotWhole
  <2>7. VendoredIsVerified'
    BY <2>1 DEF VendoredIsVerified
  <2> QED
    BY <2>3, <2>4, <2>5, <2>6, <2>7
<1>5. CASE Rename(f)
  <2> DEFINE tag == fetch[f].tag
  <2>1. fetch[f].pc = "rename" /\ UNCHANGED cut
    BY <1>5 DEF Rename
  <2>2. tag \in Tags /\ fetch[f].sha256 \in Assets
    BY <2>1, PinnedTag
  <2>3. CASE dest[tag].files = {}
    <3>1. /\ dest' = [dest EXCEPT ![tag] = [files |-> Names, asset |-> fetch[f].sha256]]
          /\ vendored' = vendored \cup {tag}
          /\ Steps(f, "passed") /\ "passed" \in FetchSteps
      BY <1>5, <2>3 DEF Rename, FetchSteps
    <3>2. /\ fetch'[f] = [pc |-> "passed", tag |-> tag, sha256 |-> fetch[f].sha256]
          /\ \A g \in Fetchers : g # f => fetch'[g] = fetch[g]
      BY <3>1, Moves
    <3>3. /\ dest'[tag] = [files |-> Names, asset |-> fetch[f].sha256]
          /\ \A t \in Tags : t # tag => dest'[t] = dest[t]
      BY <2>2, <3>1 DEF FetchTypeInv
    <3>4. FetchTypeInv'
      BY <2>1, <2>2, <3>1, Moves DEF FetchTypeInv
    <3>5. FetchesAPin'
      BY <2>1, <3>2, KeepsPin
    <3>6. WholeOrBeingRemoved'
      BY <2>1, <3>2, <3>3 DEF WholeOrBeingRemoved
    <3>7. ReplacedIfNotWhole'
      <4>1. vendored \subseteq Tags
        BY DEF FetchTypeInv
      <4> QED
        BY <2>1, <3>1, <3>2, <3>3, <4>1 DEF ReplacedIfNotWhole
    <3>8. VendoredIsVerified'
      <4>1. \E p \in PinSets : p.tag = tag /\ p.sha256 = fetch[f].sha256
        BY <2>1 DEF FetchesAPin
      <4> QED
        BY <3>3, <4>1 DEF VendoredIsVerified
    <3> QED
      BY <3>4, <3>5, <3>6, <3>7, <3>8
  <2>4. CASE dest[tag].files # {}
    <3>1. UNCHANGED <<dest, vendored>> /\ Steps(f, "failed") /\ "failed" \in FetchSteps
      BY <1>5, <2>4 DEF Rename, FetchSteps
    <3>2. /\ fetch'[f].tag = tag /\ fetch'[f].sha256 = fetch[f].sha256
          /\ \A g \in Fetchers : g # f => fetch'[g] = fetch[g]
      BY <3>1, Moves
    <3>3. FetchTypeInv'
      BY <2>1, <3>1, Moves DEF FetchTypeInv
    <3>4. FetchesAPin'
      BY <2>1, <3>2, KeepsPin
    <3>5. \A g \in Fetchers : fetch[g].pc = "remove" => fetch'[g] = fetch[g]
      BY <2>1, <3>2
    <3>6. WholeOrBeingRemoved'
      BY <2>1, <3>1, <3>5 DEF WholeOrBeingRemoved
    <3>7. ReplacedIfNotWhole'
      <4> SUFFICES ASSUME NEW t \in vendored \ cut, dest[t].files # Names
                   PROVE  \E g \in Fetchers : fetch'[g].tag = t /\ fetch'[g].pc \in {"remove", "rename"}
        BY <2>1, <3>1 DEF ReplacedIfNotWhole
      <4>1. CASE t = tag
        BY <2>2, <2>4, <3>5, <4>1 DEF WholeOrBeingRemoved
      <4>2. CASE t # tag
        BY <3>2, <4>2 DEF ReplacedIfNotWhole
      <4> QED
        BY <4>1, <4>2
    <3>8. VendoredIsVerified'
      BY <3>1 DEF VendoredIsVerified
    <3> QED
      BY <3>3, <3>4, <3>6, <3>7, <3>8
  <2> QED
    BY <2>3, <2>4
<1>6. CASE KillFetch(f)
  <2>1. /\ fetch[f].pc # "idle" /\ Steps(f, "failed") /\ "failed" \in FetchSteps
        /\ UNCHANGED <<dest, vendored>>
        /\ cut' \in {cut, cut \cup {fetch[f].tag}}
        /\ fetch[f].pc \in {"remove", "rename"} => cut' = cut \cup {fetch[f].tag}
    BY <1>6 DEF KillFetch, FetchSteps
  <2>2. /\ fetch'[f].tag = fetch[f].tag /\ fetch'[f].sha256 = fetch[f].sha256
        /\ \A g \in Fetchers : g # f => fetch'[g] = fetch[g]
    BY <2>1, Moves
  <2>3. FetchTypeInv'
    BY <2>1, Moves, PinnedTag DEF FetchTypeInv
  <2>4. FetchesAPin'
    BY <2>1, <2>2, KeepsPin
  <2>5. \A t \in Tags \ cut', g \in Fetchers :
          fetch[g].tag = t /\ fetch[g].pc \in {"remove", "rename"} => fetch'[g] = fetch[g]
    BY <2>1, <2>2
  <2>6. cut \subseteq cut' /\ vendored \subseteq Tags
    BY <2>1 DEF FetchTypeInv
  <2>7. WholeOrBeingRemoved'
    BY <2>1, <2>5, <2>6 DEF WholeOrBeingRemoved
  <2>8. ReplacedIfNotWhole'
    BY <2>1, <2>5, <2>6 DEF ReplacedIfNotWhole
  <2>9. VendoredIsVerified'
    BY <2>1 DEF VendoredIsVerified
  <2> QED
    BY <2>3, <2>4, <2>7, <2>8, <2>9
<1> QED
  BY <1>1, <1>2, <1>3, <1>4, <1>5, <1>6

--------------------------------------------------------------------------------
\* A step of something else keeps the invariant of the fetches.
LEMMA FetchesIdle == UNCHANGED fetchVars /\ FetchInv => FetchInv'
<1> SUFFICES ASSUME UNCHANGED fetchVars, FetchInv
             PROVE  FetchInv'
  OBVIOUS
<1> USE DEF fetchVars, FetchInv
<1>1. FetchTypeInv'
  BY DEF FetchTypeInv
<1>2. FetchesAPin'
  BY DEF FetchesAPin
<1>3. WholeOrBeingRemoved'
  BY DEF WholeOrBeingRemoved
<1>4. ReplacedIfNotWhole'
  BY DEF ReplacedIfNotWhole
<1>5. VendoredIsVerified'
  BY DEF VendoredIsVerified
<1> QED
  BY <1>1, <1>2, <1>3, <1>4, <1>5

\* The two scripts write nothing of each other's, nor the pins.
LEMMA Inductive == Spec => []IInv
<1>1. Init => IInv
  BY BuildInit, FetchInitially DEF Init, PinsInit, IInv
<1>2. IInv /\ [Next]_vars => IInv'
  <2> SUFFICES ASSUME IInv, [Next]_vars
               PROVE  IInv'
    OBVIOUS
  <2>1. UNCHANGED partnerVars /\ BuildInv => BuildInv'
    BY DEF partnerVars, BuildInv, BuildTypeInv, FilesOfHead, InHand, CachedBuildsAreTheirKeys,
           PassedArtifactIsPinned, Here, Key
  <2>2. UNCHANGED fetchVars /\ FetchInv => FetchInv'
    BY FetchesIdle
  <2>3. CASE GitPull /\ UNCHANGED <<partnerVars, fetchVars>>
    BY <2>1, <2>2, <2>3 DEF GitPull, IInv
  <2>4. CASE PartnerNext /\ UNCHANGED <<pins, fetchVars>>
    BY <2>2, <2>4, BuildStep DEF IInv
  <2>5. CASE FetchNext /\ UNCHANGED <<pins, partnerVars>>
    BY <2>1, <2>5, FetchStep DEF IInv
  <2>6. CASE UNCHANGED vars
    BY <2>1, <2>2, <2>6 DEF IInv, vars
  <2> QED
    BY <2>3, <2>4, <2>5, <2>6 DEF Next
<1> QED
  BY <1>1, <1>2, PTL DEF Spec

(* Every checkout, cache file and directory holds what can be in it, for    *)
(* every number of runs and every history of the pins.                      *)
THEOREM TypeCorrect == Spec => []TypeOK
<1>1. IInv => TypeOK
  <2> SUFFICES ASSUME IInv
               PROVE  TypeOK
    OBVIOUS
  <2>1. BuildTypeInv /\ FetchTypeInv /\ pins \in PinSets
    BY DEF IInv, BuildInv, FetchInv
  <2>2. /\ checkout \in [Modes -> [head : Commits \cup {Broken, NoHead}, tree : Trees,
                                 duckdb : Refs \cup {Own, Torn}, artifact : Artifacts]]
        /\ cache \in [Modes -> [Keys -> Artifacts]]
    BY <2>1 DEF BuildTypeInv, Checkouts, Heads
  <2>3. build.pc \in NotRunning \cup {"checkout", "cache", "placing", "submodules", "repoint", "make",
                                      "save", "saving"}
    BY <2>1 DEF BuildTypeInv, BuildSteps, AfterCheckOut, NotRunning
  <2>4. builds \in 0 .. MaxBuilds
    BY <2>1 DEF BuildTypeInv
  <2>5. \A t \in Tags : dest[t].files \subseteq Names /\ dest[t].asset \in Assets
    BY <2>1 DEF FetchTypeInv
  <2>6. vendored \cup cut \subseteq Tags
    BY <2>1 DEF FetchTypeInv
  <2> QED
    BY <2>1, <2>2, <2>3, <2>4, <2>5, <2>6 DEF TypeOK
<1> QED
  BY <1>1, Inductive, PTL

(* A cached artifact of rawduck-build.py was built from the commit and the  *)
(* DuckDB its name says, unless the artifact itself shows that its copy was *)
(* cut short, that make left an earlier one, or that a checkout was torn.   *)
THEOREM CachedBuildsAreKeys == Spec => []CachedBuildsAreTheirKeys
<1>1. IInv => CachedBuildsAreTheirKeys
  BY DEF IInv, BuildInv
<1> QED
  BY <1>1, Inductive, PTL

(* A run of rawduck-build.py that passed leaves the artifact that is cached *)
(* under the commit it reports and our DuckDB, built from these with the    *)
(* same exceptions.                                                         *)
THEOREM PassedArtifactPinned == Spec => []PassedArtifactIsPinned
<1>1. IInv => PassedArtifactIsPinned
  BY DEF IInv, BuildInv
<1> QED
  BY <1>1, Inductive, PTL

(* What chdb-fetch.py takes for vendored comes from an asset that was       *)
(* pinned for the tag, however many runs fetch at the same time.            *)
THEOREM VerifiedOnly == Spec => []VendoredIsVerified
<1>1. IInv => VendoredIsVerified
  BY DEF IInv, FetchInv
<1> QED
  BY <1>1, Inductive, PTL

(* Once a run of chdb-fetch.py has passed, the files are there when all     *)
(* runs have ended, unless one was killed between the removal and the       *)
(* rename, or went on to the rename over a file it could not remove.        *)
THEOREM VendoredStay == Spec => []VendoredStays
<1>1. IInv => VendoredStays
  BY DEF IInv, FetchInv, ReplacedIfNotWhole, VendoredStays
<1> QED
  BY <1>1, Inductive, PTL

(* check-pins.py objects to the checkout a passed run has left exactly when *)
(* the pin is no longer the commit it was built from.                       *)
THEOREM PinsAgree == Spec => []CheckPinsAgrees
<1>1. IInv => CheckPinsAgrees
  <2> SUFFICES ASSUME IInv, build.pc = "passed", build.mode = "pinned"
               PROVE  check_pins(Workspace) = {} <=> pins.commit = build.commit
    BY DEF CheckPinsAgrees
  <2>1. BuildTypeInv /\ PassedArtifactIsPinned
    BY DEF IInv, BuildInv
  <2>2. checkout["pinned"].head = build.commit
    BY <2>1 DEF PassedArtifactIsPinned, Here
  <2>3. build.commit \notin {Broken, NoHead}
    BY <2>1, NamesAssumption DEF BuildTypeInv
  <2>4. /\ submodule_pin(Workspace.duckdb, EXPECTED_DUCKDB_REF) = {}
        /\ submodule_pin(Workspace.ci_tools, EXPECTED_CI_TOOLS) = {}
    BY DEF submodule_pin, Ref, Workspace, Pinned
  <2>5. workflow_versions(Workspace.workflow) = {} /\ libchdb_pin_status(Workspace.libchdb) = {}
    BY DEF workflow_versions, libchdb_pin_status, Workspace
  <2>6. partner_pin_status(Workspace.partner) = IF pins.commit = build.commit THEN {} ELSE {"PARTNER"}
    BY <2>2, <2>3 DEF partner_pin_status, Workspace
  <2>7. check_pins(Workspace) = {<<v, "rawduck">> : v \in partner_pin_status(Workspace.partner)}
    BY <2>4, <2>5 DEF check_pins
  <2> QED
    BY <2>6, <2>7
<1> QED
  BY <1>1, Inductive, PTL
================================================================================
