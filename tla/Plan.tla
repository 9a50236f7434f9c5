-------------------------------- MODULE Plan --------------------------------
(***************************************************************************)
(* Closure planning: host/src/orchestrator/plan.rs, with the graph queries *)
(* of orchestrator/mod.rs it rests on. Given a derivation closure and what *)
(* happens to be on the local disk and upstream, decide which store paths  *)
(* to download, which to realize with builtin:fetchurl and which           *)
(* derivations to build, so that every input of every build has an image.  *)
(*                                                                         *)
(* A store path and a derivation are model values. The availability of     *)
(* each path is arbitrary: it is chosen in Init and read by the walk.      *)
(***************************************************************************)
EXTENDS Naturals, FiniteSets

CONSTANTS
  Paths,        \* the store paths of the world
  Drvs,         \* closure.drvs: the derivations reachable from Root
  Root,         \* the root derivation
  Deps,         \* [Drvs -> SUBSET Drvs], the keys of inputDrvs
  Outputs,      \* [Drvs -> SUBSET Paths]
  Sources,      \* the inputSrcs of all of them
  Direct,       \* [Drvs -> SUBSET Paths], what drv_direct_inputs returns
  Fetchurls,    \* the derivations whose builder is builtin:fetchurl
  References,   \* [Paths -> SUBSET Paths], the References of each narinfo
  Producer,     \* [Paths -> Drvs \cup {NoDrv}], what producing_drv returns
  NoDrv,
  Primary,      \* primary_output(Root)
  Cached,       \* paths that the disk or the binary cache may have (a bound)
  Extra         \* images a caller may hand in

PlanAssumption ==
  /\ Root \in Drvs /\ NoDrv \notin Drvs
  /\ Deps \in [Drvs -> SUBSET Drvs]
  /\ Outputs \in [Drvs -> SUBSET Paths]
  /\ Sources \subseteq Paths
  /\ Direct \in [Drvs -> SUBSET Paths]
  /\ Fetchurls \subseteq Drvs
  /\ References \in [Paths -> SUBSET Paths]
  /\ Producer \in [Paths -> Drvs \cup {NoDrv}]
  /\ \A p \in Paths :
       IF Producer[p] = NoDrv THEN \A d \in Drvs : p \notin Outputs[d]
                              ELSE p \in Outputs[Producer[p]]
  /\ Primary \in Outputs[Root]
  /\ Extra \subseteq Paths /\ Cached \subseteq Paths

\* Only the root's own build names the root's outputs, and no other path
\* refers to them: derivations do not depend on what depends on them.
RootIsLast ==
  /\ \A d \in Drvs \ {Root} : Direct[d] \cap Outputs[Root] = {}
                              /\ Outputs[d] \cap Outputs[Root] = {}
  /\ \A p \in Paths \ Outputs[Root] : References[p] \cap Outputs[Root] = {}

\* closure.drvs is what a walk along inputDrvs finds from the root; and as the
\* path of a derivation is a hash over those of its inputs, none is among its
\* own inputs, directly or not.
ClosedUnderDeps(S) == \A d \in S : Deps[d] \subseteq S

GraphIsRooted ==
  /\ \A S \in SUBSET Drvs : Root \in S /\ ClosedUnderDeps(S) => S = Drvs
  /\ \A S \in SUBSET Drvs : S # {} => \E d \in S : Deps[d] \cap S = {}

ASSUME PlanConstants == PlanAssumption
ASSUME RootConstants == RootIsLast
ASSUME GraphConstants == GraphIsRooted

VARIABLES
  extra_images,   \* the images this caller does hand in
  expand_roots,   \* a closure goal, and not a build goal
  onDisk,     \* paths whose image file exists when the run starts
  narinfo,    \* paths with a hit in the local narinfo cache
  upstream,   \* other paths the binary cache has
  phase,      \* "start", "resolve", "planned" or "failed"
  images,     \* ws.images: paths known to have an image
  hits,       \* ws.plan.hits: paths whose references are known exactly
  fetches, fetchurl, to_build,   \* the plan
  frontier,   \* <<path, expand references?>> still to be visited
  done        \* paths visited

goal == <<extra_images, expand_roots>>
world == <<goal, onDisk, narinfo, upstream>>
plan == <<hits, fetches, fetchurl, to_build>>
vars == <<world, phase, images, plan, frontier, done>>

\* closure.store_paths
StorePaths == Sources \cup UNION {Outputs[d] : d \in Drvs}

\* Workspace::refs_of, with the set of narinfo hits it consults.
RefsOf(known, p) ==
  CASE p \in known -> References[p]
    [] p \notin known /\ Producer[p] \in Drvs \ Fetchurls -> Direct[Producer[p]]
    [] OTHER -> {}

Pairs(paths, expand) == {<<p, expand>> : p \in paths}

RootFrontier ==
  IF expand_roots THEN {<<Primary, TRUE>>} ELSE Pairs(Outputs[Root], FALSE)

Init ==
  /\ extra_images \in SUBSET Extra /\ expand_roots \in BOOLEAN
  /\ onDisk \in SUBSET Cached
  /\ narinfo \in SUBSET Cached
  /\ upstream \in SUBSET (Cached \ narinfo)
  /\ phase = "start"
  /\ images = {} /\ hits = {}
  /\ fetches = {} /\ fetchurl = {} /\ to_build = {}
  /\ frontier = {} /\ done = {}

\* "when every output of the root drv already has a local image, the build
\* goal is already realized".
FastPath ==
  /\ phase = "start"
  /\ ~expand_roots /\ Outputs[Root] \subseteq onDisk
  /\ images' = Outputs[Root]
  /\ phase' = "planned"
  /\ UNCHANGED <<world, plan, frontier, done>>

Preload ==
  /\ phase = "start"
  /\ expand_roots \/ ~(Outputs[Root] \subseteq onDisk)
  /\ images' = (onDisk \cap StorePaths) \cup extra_images
  /\ hits' = onDisk \cap StorePaths \cap narinfo
  /\ frontier' = RootFrontier
  /\ phase' = "resolve"
  /\ UNCHANGED <<world, fetches, fetchurl, to_build, done>>

-----------------------------------------------------------------------------
(* One turn of the loop of resolve: p is taken from the frontier.          *)

\* Already materialized, or queued to be. The fault forgets the images that
\* are there.
KnownIfQueued(p) == p \in fetches \cup fetchurl
Known(p) == p \in images \cup fetches \cup fetchurl

\* if !done.insert(p) { continue }: without it a path is visited for ever.
AlwaysNew(p) == TRUE
New(p) == p \notin done

NoExpansion(expand, known, p) == {}
Expansion(expand, known, p) == IF expand THEN Pairs(RefsOf(known, p), TRUE) ELSE {}

Take(p, expand) ==
  /\ phase = "resolve"
  /\ <<p, expand>> \in frontier

Revisit(p, expand) ==
  /\ Take(p, expand) /\ ~New(p)
  /\ frontier' = frontier \ {<<p, expand>>}
  /\ UNCHANGED <<world, phase, images, plan, done>>

\* The walk goes on: p is done, the inputs of a build that it triggered and
\* the references it is expanded to join the frontier.
Visit(p, expand, inputs) ==
  /\ done' = done \cup {p}
  /\ frontier' = (frontier \ {<<p, expand>>})
                   \cup Pairs(inputs, TRUE) \cup Expansion(expand, hits', p)
  /\ UNCHANGED <<world, phase, images>>

VisitKnown(p, expand) ==
  /\ Take(p, expand) /\ New(p) /\ Known(p)
  /\ UNCHANGED plan
  /\ Visit(p, expand, {})

\* The lookup answers Hit: upstream has it, or the narinfo cache remembers.
VisitHit(p, expand) ==
  /\ Take(p, expand) /\ New(p) /\ ~Known(p)
  /\ p \in upstream \cup narinfo
  /\ hits' = hits \cup {p}
  /\ fetches' = fetches \cup {p}
  /\ UNCHANGED <<fetchurl, to_build>>
  /\ Visit(p, expand, {})

Miss(p, expand) ==
  /\ Take(p, expand) /\ New(p) /\ ~Known(p)
  /\ p \notin upstream \cup narinfo

\* fetchurl maps the path to its drv, and not the other way round.
FetchurlSwapped(p) == fetchurl' = fetchurl \cup {Producer[p]}
FetchurlQueued(p) == fetchurl' = fetchurl \cup {p}

VisitFetchurl(p, expand) ==
  /\ Miss(p, expand) /\ Producer[p] \in Fetchurls
  /\ FetchurlQueued(p)
  /\ UNCHANGED <<hits, fetches, to_build>>
  /\ Visit(p, expand, {})

\* The direct inputs of a build join the frontier when it is first marked.
NoInputs(d) == {}
NewInputs(d) == IF d \in to_build THEN {} ELSE Direct[d]

VisitBuild(p, expand) ==
  /\ Miss(p, expand) /\ Producer[p] \in Drvs \ Fetchurls
  /\ to_build' = to_build \cup {Producer[p]}
  /\ UNCHANGED <<hits, fetches, fetchurl>>
  /\ Visit(p, expand, NewInputs(Producer[p]))

\* "no drv in closure produces {p}", or the lookup itself fails.
ResolveFails(p, expand) ==
  /\ Take(p, expand) /\ New(p) /\ ~Known(p)
  /\ phase' = "failed"
  /\ done' = done \cup {p}
  /\ frontier' = frontier \ {<<p, expand>>}
  /\ UNCHANGED <<world, images, plan>>

NoProducer(p, expand) ==
  /\ Miss(p, expand) /\ Producer[p] = NoDrv
  /\ ResolveFails(p, expand)

LookupError(p, expand) == ResolveFails(p, expand)

\* The frontier is empty: the plan is decided.
Resolved ==
  /\ phase = "resolve" /\ frontier = {}
  /\ phase' = "planned"
  /\ UNCHANGED <<world, images, plan, frontier, done>>

Resolve(p, expand) ==
  \/ Revisit(p, expand) \/ VisitKnown(p, expand) \/ VisitHit(p, expand)
  \/ VisitFetchurl(p, expand) \/ VisitBuild(p, expand) \/ NoProducer(p, expand)

Next ==
  \/ FastPath \/ Preload \/ Resolved
  \/ \E p \in Paths, expand \in BOOLEAN : Resolve(p, expand) \/ LookupError(p, expand)

Spec == Init /\ [][Next]_vars

-----------------------------------------------------------------------------
(* What the plan is for.                                                   *)

TypeOK ==
  /\ extra_images \subseteq Extra /\ expand_roots \in BOOLEAN
  /\ onDisk \subseteq Paths /\ narinfo \subseteq Paths /\ upstream \subseteq Paths
  /\ phase \in {"start", "resolve", "planned", "failed"}
  /\ images \subseteq Paths /\ hits \subseteq Paths
  /\ fetches \subseteq Paths /\ fetchurl \subseteq Paths
  /\ to_build \subseteq Drvs
  /\ frontier \subseteq Paths \X BOOLEAN
  /\ done \subseteq Paths

Built(builds) == UNION {Outputs[d] : d \in builds}

\* The paths that will have an image once the plan is carried out.
Available == images \cup fetches \cup fetchurl \cup Built(to_build)

\* S holds the inputs of d and everything its members refer to, the outputs
\* of d excepted.
InputClosed(S, d, known) ==
  /\ Direct[d] \ Outputs[d] \subseteq S
  /\ \A p \in S : RefsOf(known, p) \ Outputs[d] \subseteq S

\* Workspace::input_set: the worklist computes the least such set.
InputSet(d, known) ==
  {p \in Paths : \A S \in SUBSET Paths : InputClosed(S, d, known) => p \in S}

\* Workspace::output_closure of the default output.
OutputClosed(S, known) == Primary \in S /\ \A p \in S : RefsOf(known, p) \subseteq S

OutputClosure(known) ==
  {p \in Paths : \A S \in SUBSET Paths : OutputClosed(S, known) => p \in S}

\* Every input that any planned build will mount - its direct inputs and all
\* they refer to - has or will have an image, so the "missing image for
\* input" error of the build phase (mod.rs:212) is never due to the plan.
NoMissingInput ==
  phase = "planned" => \A d \in to_build : InputSet(d, hits) \subseteq Available

\* "only paths that actually need materializing (their EROFS image is absent)
\* are looked up, fetched, or built" (plan.rs:1-2): nothing that has an image
\* is downloaded, nothing a cache has is realized from source, and every
\* build produces a path that was to be had in no other way.
OnlyWhatIsMissing == phase = "resolve" =>
  /\ (fetches \cup fetchurl) \cap images = {}
  /\ fetchurl \cap (upstream \cup narinfo) = {}
  /\ \A d \in to_build : \E p \in Outputs[d] : p \notin images \cup upstream \cup narinfo

\* Why, as inductive invariants (RealizeProofs). While the plan is made and
\* after it, a path that matters has been visited or is waiting for it; what
\* has been visited will have an image; and what a build needs, or a visited
\* path refers to, follows.
Follows(p) == p \in done \/ <<p, TRUE>> \in frontier

WalkCovers == phase \in {"resolve", "planned"} =>
  /\ \A p \in done : p \in images \cup fetches \cup fetchurl \/ Producer[p] \in to_build
  /\ \A d \in to_build : \A p \in Direct[d] : Follows(p)
  /\ \A p \in done : expand_roots \/ p \notin Outputs[Root] =>
       \A q \in RefsOf(hits, p) : Follows(q)
  /\ expand_roots => Follows(Primary)

\* Only the outputs of a build goal are visited for themselves alone.
UnexpandedAreRoots ==
  \A p \in Paths : <<p, FALSE>> \in frontier => p \in Outputs[Root] /\ ~expand_roots

\* Nothing is planned before the walk, and all is when it is over.
WalkEnds ==
  /\ phase = "start" => to_build = {} /\ fetches = {} /\ fetchurl = {} /\ frontier = {} /\ done = {}
  /\ phase = "planned" => frontier = {}
  /\ to_build \cup fetches \cup fetchurl # {} => done # {}

=============================================================================
