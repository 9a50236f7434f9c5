---------------------------- MODULE RealizeProofs ---------------------------
(***************************************************************************)
(* Theorems about Plan and Realize, for every derivation graph and every   *)
(* state of the disk and of the caches: the plan forgets no input and      *)
(* fetches and builds nothing it need not, the builds are ordered by their *)
(* dependencies, and - when no two derivations share an output - a build   *)
(* or a closure never lacks an image.                                      *)
(***************************************************************************)
EXTENDS Realize, SequenceTheorems, TLAPS

-----------------------------------------------------------------------------
(* Types of the plan.                                                      *)

LEMMA RefsArePaths ==
  ASSUME NEW known, NEW p \in Paths
  PROVE  RefsOf(known, p) \subseteq Paths
BY PlanConstants DEF PlanAssumption, RefsOf

LEMMA ProducerHasIt ==
  ASSUME NEW p \in Paths, Producer[p] \in Drvs
  PROVE  p \in Outputs[Producer[p]]
BY PlanConstants DEF PlanAssumption

LEMMA PairsTyped ==
  ASSUME NEW S \in SUBSET Paths, NEW expand \in BOOLEAN
  PROVE  Pairs(S, expand) \subseteq Paths \X BOOLEAN
<1> SUFFICES ASSUME NEW x \in Pairs(S, expand) PROVE x \in Paths \X BOOLEAN
  OBVIOUS
<1>1. PICK p \in S : x = <<p, expand>>
  BY DEF Pairs
<1> QED
  BY <1>1

LEMMA VisitTyped ==
  ASSUME TypeOK, NEW p \in Paths, NEW expand \in BOOLEAN,
         NEW inputs \in SUBSET Paths, Visit(p, expand, inputs),
         hits' \subseteq Paths, fetches' \subseteq Paths, fetchurl' \subseteq Paths,
         to_build' \subseteq Drvs
  PROVE  TypeOK'
<1>1. Expansion(expand, hits', p) \subseteq Paths \X BOOLEAN
  BY RefsArePaths, PairsTyped DEF Expansion
<1>2. Pairs(inputs, TRUE) \subseteq Paths \X BOOLEAN
  BY PairsTyped
<1>3. frontier' \subseteq Paths \X BOOLEAN /\ done' \subseteq Paths
  BY <1>1, <1>2 DEF Visit, TypeOK
<1> QED
  BY <1>3 DEF Visit, TypeOK, world, goal

LEMMA InitPlanned == Init => TypeOK
BY PlanConstants DEF Init, TypeOK, PlanAssumption

LEMMA PlanTyped ==
  ASSUME TypeOK, Next PROVE TypeOK'
<1>1. CASE FastPath
  BY <1>1, PlanConstants DEF FastPath, TypeOK, PlanAssumption, world, goal, plan
<1>2. CASE Preload
  <2>1. RootFrontier \subseteq Paths \X BOOLEAN
    <3>1. Pairs(Outputs[Root], FALSE) \subseteq Paths \X BOOLEAN
      BY PlanConstants, PairsTyped DEF PlanAssumption
    <3>2. <<Primary, TRUE>> \in Paths \X BOOLEAN
      BY PlanConstants DEF PlanAssumption
    <3> QED
      BY <3>1, <3>2 DEF RootFrontier
  <2>2. images' \subseteq Paths /\ hits' \subseteq Paths
    BY <1>2, PlanConstants DEF Preload, TypeOK, PlanAssumption
  <2> QED
    BY <1>2, <2>1, <2>2 DEF Preload, TypeOK, world, goal
<1>3. CASE Resolved
  BY <1>3 DEF Resolved, TypeOK, world, goal, plan
<1>4. ASSUME NEW p \in Paths, NEW expand \in BOOLEAN,
             Resolve(p, expand) \/ LookupError(p, expand)
      PROVE  TypeOK'
  <2>1. CASE Revisit(p, expand)
    BY <2>1 DEF Revisit, TypeOK, world, goal, plan
  <2>2. CASE VisitKnown(p, expand)
    BY <2>2, VisitTyped DEF VisitKnown, TypeOK, plan
  <2>3. CASE VisitHit(p, expand)
    BY <2>3, VisitTyped DEF VisitHit, TypeOK
  <2>4. CASE VisitFetchurl(p, expand)
    BY <2>4, VisitTyped DEF VisitFetchurl, FetchurlQueued, TypeOK
  <2>5. CASE VisitBuild(p, expand)
    <3>1. NewInputs(Producer[p]) \subseteq Paths
      BY <2>5, PlanConstants DEF VisitBuild, NewInputs, PlanAssumption
    <3> QED
      BY <2>5, <3>1, VisitTyped DEF VisitBuild, TypeOK
  <2>6. CASE ResolveFails(p, expand)
    BY <2>6 DEF ResolveFails, TypeOK, world, goal, plan
  <2> QED
    BY <1>4, <2>1, <2>2, <2>3, <2>4, <2>5, <2>6 DEF Resolve, NoProducer, LookupError
<1> QED
  BY <1>1, <1>2, <1>3, <1>4 DEF Next

-----------------------------------------------------------------------------
(* The walk of the plan.                                                   *)

WalkInv == TypeOK /\ WalkCovers /\ UnexpandedAreRoots /\ WalkEnds

\* What a path must be for its visit to keep the walk complete: it will have an
\* image, and the inputs of a derivation it adds to the builds follow.
LEMMA VisitCovers ==
  ASSUME WalkInv, TypeOK', NEW p \in Paths, NEW expand \in BOOLEAN,
         NEW inputs \in SUBSET Paths,
         Take(p, expand), New(p), Visit(p, expand, inputs),
         hits \subseteq hits', hits' \subseteq hits \cup {p},
         fetches \subseteq fetches', fetchurl \subseteq fetchurl', to_build \subseteq to_build',
         p \in images \cup fetches' \cup fetchurl' \/ Producer[p] \in to_build',
         \A d \in to_build' \ to_build : Direct[d] \subseteq inputs
  PROVE  WalkInv'
<1>1. /\ done' = done \cup {p} /\ p \notin done
      /\ frontier' = (frontier \ {<<p, expand>>})
                       \cup Pairs(inputs, TRUE) \cup Expansion(expand, hits', p)
      /\ phase = "resolve" /\ phase' = "resolve" /\ images' = images
      /\ expand_roots' = expand_roots /\ <<p, expand>> \in frontier
  BY DEF Visit, New, Take, world, goal
<1>2. \A q \in Paths : Follows(q) => Follows(q)'
  BY <1>1 DEF Follows
<1>3. \A q \in inputs : Follows(q)'
  BY <1>1 DEF Follows, Pairs
<1>4. expand = TRUE => \A q \in RefsOf(hits', p) : Follows(q)'
  BY <1>1 DEF Follows, Expansion, Pairs
<1>5. \A q \in done : RefsOf(hits', q) = RefsOf(hits, q)
  BY <1>1 DEF RefsOf
<1>6. \A known, q : RefsOf(known, q)' = RefsOf(known', q)
  BY DEF RefsOf
<1>7. expand = FALSE => p \in Outputs[Root] /\ ~expand_roots
  BY <1>1 DEF WalkInv, UnexpandedAreRoots
<1>8. expand_roots => Follows(Primary)
  BY <1>1 DEF WalkInv, WalkCovers
<1>9. WalkCovers'
  <2>1. \A q \in done' : q \in images' \cup fetches' \cup fetchurl' \/ Producer[q] \in to_build'
    BY <1>1 DEF WalkInv, WalkCovers
  <2>2. \A d \in to_build' : \A q \in Direct[d] : Follows(q)'
    <3> SUFFICES ASSUME NEW d \in to_build', NEW q \in Direct[d] PROVE Follows(q)'
      OBVIOUS
    <3>1. q \in Paths
      BY PlanConstants DEF TypeOK, PlanAssumption
    <3>2. CASE d \in to_build
      BY <1>1, <1>2, <3>1, <3>2 DEF WalkInv, WalkCovers
    <3>3. CASE d \notin to_build
      BY <1>3, <3>3
    <3> QED
      BY <3>2, <3>3
  <2>3. ASSUME NEW q \in done', expand_roots \/ q \notin Outputs[Root], NEW r \in RefsOf(hits', q)
        PROVE  Follows(r)'
    <3>1. CASE q = p
      BY <1>4, <1>7, <2>3, <3>1
    <3>2. CASE q # p
      <4>1. q \in done /\ r \in RefsOf(hits, q)
        BY <1>1, <1>5, <2>3, <3>2
      <4>2. q \in Paths /\ r \in Paths
        BY <4>1, RefsArePaths DEF WalkInv, TypeOK
      <4> QED
        BY <1>1, <1>2, <2>3, <4>1, <4>2 DEF WalkInv, WalkCovers
    <3> QED
      BY <3>1, <3>2
  <2>4. expand_roots' => Follows(Primary)'
    <3>1. Primary \in Paths
      BY PlanConstants DEF PlanAssumption
    <3> QED
      BY <1>1, <1>2, <1>8, <3>1
  <2> QED
    BY <1>1, <1>6, <2>1, <2>2, <2>3, <2>4 DEF WalkCovers
<1>10. UnexpandedAreRoots'
  <2>1. \A q \in Paths : <<q, FALSE>> \notin Pairs(inputs, TRUE) \cup Expansion(expand, hits', p)
    BY DEF Pairs, Expansion
  <2> QED
    BY <1>1, <2>1 DEF WalkInv, UnexpandedAreRoots
<1>11. WalkEnds'
  BY <1>1 DEF WalkEnds
<1> QED
  BY <1>9, <1>10, <1>11 DEF WalkInv

LEMMA PreloadCovers ==
  ASSUME WalkInv, TypeOK', Preload PROVE WalkInv'
<1>1. /\ done' = {} /\ to_build' = {} /\ fetches' = {} /\ fetchurl' = {}
      /\ frontier' = RootFrontier
      /\ phase' = "resolve" /\ expand_roots' = expand_roots
  BY DEF Preload, WalkInv, WalkEnds, world, goal
<1>2. \A p \in Paths : <<p, FALSE>> \in RootFrontier => p \in Outputs[Root] /\ ~expand_roots
  BY DEF RootFrontier, Pairs
<1>3. expand_roots => <<Primary, TRUE>> \in RootFrontier
  BY DEF RootFrontier
<1> QED
  BY <1>1, <1>2, <1>3 DEF WalkInv, WalkCovers, UnexpandedAreRoots, WalkEnds, Follows

LEMMA PlanCovers ==
  ASSUME WalkInv, Next PROVE WalkInv'
<1>0. TypeOK'
  BY PlanTyped DEF WalkInv
<1>1. CASE FastPath
  <2>1. /\ UNCHANGED <<expand_roots, hits, fetches, fetchurl, to_build, frontier, done>>
        /\ phase = "start" /\ phase' = "planned" /\ ~expand_roots
    BY <1>1 DEF FastPath, world, goal, plan
  <2> QED
    BY <1>0, <2>1 DEF WalkInv, WalkCovers, UnexpandedAreRoots, WalkEnds, Follows
<1>2. CASE Preload
  BY <1>0, <1>2, PreloadCovers
<1>3. CASE Resolved
  <2>1. /\ UNCHANGED <<expand_roots, images, hits, fetches, fetchurl, to_build, frontier, done>>
        /\ phase = "resolve" /\ phase' = "planned" /\ frontier = {}
    BY <1>3 DEF Resolved, world, goal, plan
  <2>2. \A q : RefsOf(hits, q)' = RefsOf(hits, q)
    BY <2>1 DEF RefsOf
  <2> QED
    BY <1>0, <2>1, <2>2 DEF WalkInv, WalkCovers, UnexpandedAreRoots, WalkEnds, Follows
<1>4. ASSUME NEW p \in Paths, NEW expand \in BOOLEAN,
             Resolve(p, expand) \/ LookupError(p, expand)
      PROVE  WalkInv'
  <2>1. CASE Revisit(p, expand)
    <3>1. /\ UNCHANGED <<expand_roots, images, hits, fetches, fetchurl, to_build, done, phase>>
          /\ p \in done /\ frontier' = frontier \ {<<p, expand>>} /\ phase = "resolve"
      BY <2>1 DEF Revisit, Take, New, world, goal, plan
    <3>2. \A q \in Paths : Follows(q) => Follows(q)'
      BY <3>1 DEF Follows
    <3>3. \A q : RefsOf(hits, q)' = RefsOf(hits, q)
      BY <3>1 DEF RefsOf
    <3>4. /\ \A d \in to_build : Direct[d] \subseteq Paths
          /\ \A q \in done : RefsOf(hits, q) \subseteq Paths
          /\ Primary \in Paths
      BY RefsArePaths, PlanConstants DEF PlanAssumption, WalkInv, TypeOK
    <3>5. WalkCovers'
      BY <3>1, <3>2, <3>3, <3>4 DEF WalkInv, WalkCovers
    <3> QED
      BY <1>0, <3>1, <3>5 DEF WalkInv, UnexpandedAreRoots, WalkEnds
  <2>2. CASE VisitKnown(p, expand)
    <3>1. /\ UNCHANGED <<hits, fetches, fetchurl, to_build>> /\ p \in images \cup fetches \cup fetchurl
          /\ Take(p, expand) /\ New(p) /\ Visit(p, expand, {})
      BY <2>2 DEF VisitKnown, Known, plan
    <3> QED
      BY <1>0, <3>1, VisitCovers
  <2>3. CASE VisitHit(p, expand)
    BY <1>0, <2>3, VisitCovers DEF VisitHit
  <2>4. CASE VisitFetchurl(p, expand)
    <3>1. /\ UNCHANGED <<hits, fetches, to_build>> /\ fetchurl' = fetchurl \cup {p}
          /\ Take(p, expand) /\ New(p) /\ Visit(p, expand, {})
      BY <2>4 DEF VisitFetchurl, Miss, FetchurlQueued
    <3> QED
      BY <1>0, <3>1, VisitCovers
  <2>5. CASE VisitBuild(p, expand)
    <3>1. /\ UNCHANGED <<hits, fetches, fetchurl>> /\ to_build' = to_build \cup {Producer[p]}
          /\ Producer[p] \in Drvs
          /\ Take(p, expand) /\ New(p) /\ Visit(p, expand, NewInputs(Producer[p]))
      BY <2>5 DEF VisitBuild, Miss
    <3>2. /\ NewInputs(Producer[p]) \in SUBSET Paths
          /\ \A d \in to_build' \ to_build : Direct[d] \subseteq NewInputs(Producer[p])
      BY <3>1, PlanConstants DEF NewInputs, PlanAssumption
    <3> QED
      BY <1>0, <3>1, <3>2, VisitCovers
  <2>6. CASE ResolveFails(p, expand)
    <3>1. /\ UNCHANGED <<expand_roots, fetches, fetchurl, to_build>>
          /\ phase' = "failed" /\ done' # {} /\ frontier' \subseteq frontier
      BY <2>6 DEF ResolveFails, world, goal, plan
    <3> QED
      BY <1>0, <3>1 DEF WalkInv, WalkCovers, UnexpandedAreRoots, WalkEnds
  <2> QED
    BY <1>4, <2>1, <2>2, <2>3, <2>4, <2>5, <2>6 DEF Resolve, NoProducer, LookupError
<1> QED
  BY <1>1, <1>2, <1>3, <1>4 DEF Next

LEMMA InitCovers == Init => WalkInv
<1> SUFFICES ASSUME Init PROVE WalkInv
  OBVIOUS
<1>1. TypeOK
  BY InitPlanned
<1> QED
  BY <1>1 DEF Init, WalkInv, WalkCovers, UnexpandedAreRoots, WalkEnds

\* When the walk is over, the inputs of a build are among the paths visited:
\* those other than the outputs of the root are closed under what they refer to.
LEMMA InputsAreVisited ==
  ASSUME WalkInv, phase = "planned", NEW d \in to_build
  PROVE  InputSet(d, hits) \subseteq done
<1> DEFINE S == done \ Outputs[Root]
<1>1. /\ frontier = {}
      /\ \A q \in Direct[d] : q \in done
      /\ \A p \in S : \A q \in RefsOf(hits, p) : q \in done
  BY DEF WalkInv, WalkCovers, WalkEnds, Follows
<1>2. d \in Drvs /\ done \subseteq Paths
  BY DEF WalkInv, TypeOK
<1>3. Direct[d] \ Outputs[d] \subseteq S
  BY <1>1, <1>2, RootConstants DEF RootIsLast
<1>4. ASSUME NEW p \in S, NEW q \in RefsOf(hits, p) PROVE q \in S
  <2>1. p \in Paths /\ p \notin Outputs[Root]
    BY <1>2
  <2>2. q \in done
    BY <1>1, <1>4
  <2>3. CASE p \in hits
    BY <2>1, <2>2, <2>3, <1>4, RootConstants DEF RefsOf, RootIsLast
  <2>4. CASE p \notin hits /\ Producer[p] \in Drvs \ Fetchurls
    <3>1. Producer[p] # Root /\ q \in Direct[Producer[p]]
      BY <1>4, <2>1, <2>4, ProducerHasIt DEF RefsOf
    <3> QED
      BY <2>2, <2>4, <3>1, RootConstants DEF RootIsLast
  <2>5. CASE p \notin hits /\ Producer[p] \notin Drvs \ Fetchurls
    BY <1>4, <2>5 DEF RefsOf
  <2> QED
    BY <2>3, <2>4, <2>5
<1>5. InputClosed(S, d, hits)
  BY <1>3, <1>4 DEF InputClosed
<1>6. S \in SUBSET Paths
  BY <1>2
<1> QED
  BY <1>5, <1>6 DEF InputSet

\* ... and so are the paths of a closure goal.
LEMMA ClosureIsVisited ==
  ASSUME WalkInv, phase = "planned", expand_roots
  PROVE  OutputClosure(hits) \subseteq done
<1>1. /\ Primary \in done
      /\ \A p \in done : \A q \in RefsOf(hits, p) : q \in done
      /\ done \in SUBSET Paths
  BY DEF WalkInv, WalkCovers, WalkEnds, TypeOK, Follows
<1>2. OutputClosed(done, hits)
  BY <1>1 DEF OutputClosed
<1> QED
  BY <1>1, <1>2 DEF OutputClosure

LEMMA WalkHasNoMissingInput == WalkInv => NoMissingInput
<1> SUFFICES ASSUME WalkInv, phase = "planned", NEW d \in to_build
             PROVE  InputSet(d, hits) \subseteq Available
  BY DEF NoMissingInput
<1>1. done \subseteq Available
  <2> SUFFICES ASSUME NEW p \in done PROVE p \in Available
    OBVIOUS
  <2>1. p \in Paths
    BY DEF WalkInv, TypeOK
  <2>2. CASE p \in images \cup fetches \cup fetchurl
    BY <2>2 DEF Available
  <2>3. CASE Producer[p] \in to_build
    <3>1. p \in Outputs[Producer[p]]
      BY <2>1, <2>3, ProducerHasIt DEF WalkInv, TypeOK
    <3> QED
      BY <2>3, <3>1 DEF Available, Built
  <2> QED
    BY <2>2, <2>3 DEF WalkInv, WalkCovers
<1> QED
  BY <1>1, InputsAreVisited

\* Once the plan is made, images only come.
LEMMA RunKeepsWalk ==
  ASSUME WalkInv, images \subseteq images', images' \subseteq Paths,
         UNCHANGED <<world, phase, plan, frontier, done>>
  PROVE  WalkInv'
<1>1. UNCHANGED <<extra_images, expand_roots, onDisk, narinfo, upstream, phase, hits,
                  fetches, fetchurl, to_build, frontier, done>>
  BY DEF world, goal, plan
<1>2. \A p : RefsOf(hits, p)' = RefsOf(hits, p)
  BY <1>1 DEF RefsOf
<1> QED
  BY <1>1, <1>2 DEF WalkInv, TypeOK, WalkCovers, UnexpandedAreRoots, WalkEnds, Follows

-----------------------------------------------------------------------------
(* The stack of the recursion, as a sequence.                              *)

LEMMA WithoutTop ==
  ASSUME NEW S, NEW s \in Seq(S), s # << >>
  PROVE  LET t == SubSeq(s, 1, Len(s) - 1) IN
         /\ Len(s) \in Nat /\ Len(s) >= 1
         /\ t \in Seq(S) /\ Len(t) = Len(s) - 1
         /\ \A i \in 1..(Len(s) - 1) : t[i] = s[i]
<1> DEFINE t == SubSeq(s, 1, Len(s) - 1)
<1>1. Len(s) \in Nat /\ Len(s) # 0
  BY LenProperties, EmptySeq
<1>2. 1 \in Int /\ Len(s) - 1 \in Int /\ \A i \in 1..(Len(s) - 1) : s[i] \in S
  BY <1>1, ElementOfSeq
<1>3. /\ t \in Seq(S) /\ Len(t) = IF 1 <= Len(s) - 1 THEN Len(s) - 1 - 1 + 1 ELSE 0
      /\ \A i \in 1..(Len(s) - 1 - 1 + 1) : t[i] = s[1 + i - 1]
  BY <1>2, SubSeqProperties
<1> HIDE DEF t
<1>4. Len(t) = Len(s) - 1
  <2>1. \A n \in Nat \ {0} : (IF 1 <= n - 1 THEN n - 1 - 1 + 1 ELSE 0) = n - 1
    OBVIOUS
  <2> QED
    BY <1>1, <1>3, <2>1
<1>5. ASSUME NEW i \in 1..(Len(s) - 1) PROVE t[i] = s[i]
  <2>1. i \in 1..(Len(s) - 1 - 1 + 1) /\ 1 + i - 1 = i
    BY <1>1
  <2> QED
    BY <1>3, <2>1
<1> QED
  BY <1>1, <1>3, <1>4, <1>5 DEF t

LEMMA OtherTop ==
  ASSUME NEW S, NEW s \in Seq(S), s # << >>, NEW e \in S
  PROVE  LET t == Append(SubSeq(s, 1, Len(s) - 1), e) IN
         /\ t \in Seq(S) /\ Len(t) = Len(s) /\ t[Len(s)] = e
         /\ \A i \in 1..(Len(s) - 1) : t[i] = s[i]
<1> DEFINE b == SubSeq(s, 1, Len(s) - 1)
<1>1. /\ Len(s) \in Nat /\ Len(s) >= 1
      /\ b \in Seq(S) /\ Len(b) = Len(s) - 1
      /\ \A i \in 1..(Len(s) - 1) : b[i] = s[i]
  BY WithoutTop
<1> HIDE DEF b
<1>2. /\ Append(b, e) \in Seq(S) /\ Len(Append(b, e)) = Len(b) + 1
      /\ \A i \in 1..Len(b) : Append(b, e)[i] = b[i]
      /\ Append(b, e)[Len(b) + 1] = e
  BY <1>1, AppendProperties
<1>3. /\ Append(b, e) \in Seq(S) /\ Len(Append(b, e)) = Len(s)
      /\ Append(b, e)[Len(s)] = e
      /\ \A i \in 1..(Len(s) - 1) : Append(b, e)[i] = s[i]
  BY <1>1, <1>2
<1> QED
  BY <1>3 DEF b

-----------------------------------------------------------------------------
(* The inductive invariant of a run.                                       *)

RTyped ==
  /\ pc \in {"plan", "topo", "fetch", "build", "done", "error", "missing", "incomplete"}
  /\ seen \subseteq Drvs
  /\ stack \in Seq(Drvs \X SUBSET Drvs)
  /\ order \in Seq(Drvs) /\ \A i \in 1..Len(order) : order[i] \in to_build
  /\ next \in 1..(Len(order) + 1)

RInv ==
  /\ WalkInv /\ RTyped /\ RunIsInOrder
  /\ VisitIsAChain /\ OrderIsTopological /\ GatheredSoFar

LEMMA TypedIsRTypeOK == WalkInv /\ RTyped => RTypeOK
<1> SUFFICES ASSUME WalkInv, RTyped PROVE RTypeOK
  OBVIOUS
<1>1. \A i \in 1..Len(stack) : stack[i] \in Drvs \X SUBSET Drvs
  BY ElementOfSeq DEF RTyped
<1> QED
  BY <1>1 DEF WalkInv, RTyped, RTypeOK

\* While there is no stack and no order, there is nothing to say of them.
LEMMA NothingVisited ==
  ASSUME stack = << >>, seen = {}, order = << >>
  PROVE  VisitIsAChain /\ OrderIsTopological /\ OnStack = {}
<1>1. Len(stack) = 0 /\ Len(order) = 0
  BY EmptySeq
<1>2. OnStack = {} /\ Finished = {}
  BY <1>1 DEF OnStack, Finished
<1> QED
  BY <1>1, <1>2 DEF VisitIsAChain, OrderIsTopological, ClosedUnderDeps

LEMMA InitRun == RInit => RInv
<1> SUFFICES ASSUME RInit PROVE RInv
  OBVIOUS
<1>1. WalkInv /\ phase = "start"
  BY InitCovers DEF RInit, Init
<1>2. /\ pc = "plan" /\ stack = << >> /\ seen = {} /\ order = << >> /\ next = 1
      /\ Len(order) = 0
  BY EmptySeq DEF RInit
<1> QED
  BY <1>1, <1>2, NothingVisited, EmptySeq DEF RInv, RTyped, RunIsInOrder, GatheredSoFar

\* What DependsOn is for: a set closed under dependencies has all a member of
\* it depends on.
LEMMA DependsWithin ==
  ASSUME NEW S \in SUBSET Drvs, ClosedUnderDeps(S), NEW d \in S
  PROVE  DependsOn(d) \subseteq S
BY DEF DependsOn

\* A step that leaves the stack and the order alone, once the plan is made.
LEMMA StepBesidesTheOrder ==
  ASSUME RInv, UNCHANGED <<world, phase, plan, frontier, done, topo>>,
         images \subseteq images', images' \subseteq Paths
  PROVE  /\ WalkInv' /\ VisitIsAChain' /\ OrderIsTopological'
         /\ UNCHANGED <<phase, hits, fetches, fetchurl, to_build, stack, seen, order, expand_roots, done>>
<1>1. WalkInv'
  BY RunKeepsWalk DEF RInv
<1>2. UNCHANGED <<phase, hits, fetches, fetchurl, to_build, stack, seen, order, expand_roots, done>>
  BY DEF world, goal, plan, topo
<1>3. OnStack' = OnStack /\ Finished' = Finished
  BY <1>2 DEF OnStack, Finished
<1>4. \A d : DependsOn(d)' = DependsOn(d)
  BY DEF DependsOn, ClosedUnderDeps
<1>5. \A S : ClosedUnderDeps(S)' = ClosedUnderDeps(S)
  BY DEF ClosedUnderDeps
<1>6. ClosedUnderDeps(Finished)'
  BY <1>3 DEF RInv, VisitIsAChain, ClosedUnderDeps
<1>7. VisitIsAChain'
  BY <1>2, <1>3, <1>6 DEF RInv, VisitIsAChain
<1> QED
  BY <1>1, <1>2, <1>3, <1>4, <1>7 DEF RInv, OrderIsTopological

LEMMA PlanningRuns ==
  ASSUME RInv, Planning PROVE RInv'
<1>1. /\ pc = "plan" /\ pc' = "plan" /\ Next
      /\ stack' = stack /\ seen' = seen /\ order' = order /\ next' = next
  BY DEF Planning, realizeVars, topo
<1>2. stack = << >> /\ seen = {} /\ order = << >> /\ next = 1 /\ Len(order) = 0
  BY <1>1, EmptySeq DEF RInv, RunIsInOrder
<1>3. WalkInv'
  BY <1>1, PlanCovers DEF RInv
<1>4. VisitIsAChain' /\ OrderIsTopological'
  <2>1. Len(stack') = 0 /\ Len(order') = 0
    BY <1>1, <1>2, EmptySeq
  <2>2. OnStack' = {} /\ Finished' = {}
    BY <1>1, <1>2, <2>1 DEF OnStack, Finished
  <2> QED
    BY <1>1, <1>2, <2>1, <2>2 DEF VisitIsAChain, OrderIsTopological, ClosedUnderDeps
<1>5. RTyped'
  BY <1>1, <1>2 DEF RInv, RTyped
<1> QED
  BY <1>1, <1>2, <1>3, <1>4, <1>5 DEF RInv, RunIsInOrder, GatheredSoFar

LEMMA TopoStartRuns ==
  ASSUME RInv, TopoStart PROVE RInv'
<1>1. /\ pc = "plan" /\ pc' = "topo" /\ phase = "planned" /\ UNCHANGED vars
      /\ stack' = << <<Root, Deps[Root]>> >> /\ seen' = {Root} /\ UNCHANGED <<order, next>>
  BY DEF TopoStart, Frame
<1>2. /\ UNCHANGED <<world, phase, images, plan, frontier, done, to_build>>
  BY <1>1 DEF vars, plan
<1>3. order = << >> /\ Len(order) = 0 /\ next = 1
  BY <1>1, EmptySeq DEF RInv, RunIsInOrder
<1>4. Root \in Drvs /\ Deps[Root] \subseteq Drvs
  BY PlanConstants DEF PlanAssumption
<1>5. /\ Len(stack') = 1 /\ stack'[1] = <<Root, Deps[Root]>>
      /\ stack' \in Seq(Drvs \X SUBSET Drvs)
  BY <1>1, <1>4
<1>6. OnStack' = {Root} /\ Finished' = {}
  BY <1>1, <1>5 DEF OnStack, Finished
<1>7. WalkInv'
  BY <1>2, RunKeepsWalk DEF RInv, WalkInv, TypeOK
<1>8. VisitIsAChain'
  BY <1>1, <1>5, <1>6 DEF VisitIsAChain, ClosedUnderDeps
<1>9. OrderIsTopological'
  BY <1>1, <1>3, <1>6 DEF OrderIsTopological
<1>10. RTyped'
  BY <1>1, <1>2, <1>3, <1>4, <1>5 DEF RTyped
<1> QED
  BY <1>1, <1>2, <1>3, <1>7, <1>8, <1>9, <1>10 DEF RInv, RunIsInOrder, GatheredSoFar

\* The steps of the recursion change neither the plan nor the images.
LEMMA TopoDescendRuns ==
  ASSUME RInv, NEW dep \in Drvs, TopoDescend(dep) PROVE RInv'
<1> DEFINE n == Len(stack)
           top == <<Top[1], Top[2] \ {dep}>>
           rest == Append(Below, top)
<1>1. /\ pc = "topo" /\ pc' = "topo" /\ stack # << >> /\ dep \in Top[2]
      /\ stack' = IF dep \in seen THEN rest ELSE Append(rest, Frame(dep))
      /\ seen' = seen \cup {dep} /\ UNCHANGED <<vars, order, next>>
  BY DEF TopoDescend
<1>2. /\ UNCHANGED <<world, phase, images, plan, frontier, done, to_build>>
  BY <1>1 DEF vars, plan
<1>3. n \in Nat /\ n >= 1
  BY <1>1, WithoutTop DEF RInv, RTyped
<1>4. Top = stack[n] /\ stack[n] \in Drvs \X SUBSET Drvs /\ top \in Drvs \X SUBSET Drvs
  <2>1. stack[n] \in Drvs \X SUBSET Drvs
    BY <1>3, ElementOfSeq DEF RInv, RTyped
  <2> QED
    BY <2>1 DEF Top
<1>5. /\ rest \in Seq(Drvs \X SUBSET Drvs) /\ Len(rest) = n
      /\ rest[n] = top /\ \A i \in 1..(n - 1) : rest[i] = stack[i]
  BY <1>1, <1>4, OtherTop DEF RInv, RTyped, Below
<1> HIDE DEF rest
<1>6. /\ \A i \in 1..n : rest[i][1] = stack[i][1]
      /\ \A i \in 1..n : /\ rest[i][2] \subseteq stack[i][2]
                         /\ stack[i][2] \subseteq rest[i][2] \cup {dep}
  <2> SUFFICES ASSUME NEW i \in 1..n
               PROVE  /\ rest[i][1] = stack[i][1] /\ rest[i][2] \subseteq stack[i][2]
                      /\ stack[i][2] \subseteq rest[i][2] \cup {dep}
    OBVIOUS
  <2>1. CASE i = n
    BY <1>4, <1>5, <2>1
  <2>2. CASE i # n
    BY <1>3, <1>5, <2>2
  <2> QED
    BY <2>1, <2>2
<1>7. Frame(dep) \in Drvs \X SUBSET Drvs /\ Frame(dep)[1] = dep /\ Frame(dep)[2] = Deps[dep]
  BY PlanConstants DEF PlanAssumption, Frame
<1> HIDE DEF n, top
<1>8. WalkInv'
  BY <1>2, RunKeepsWalk DEF RInv, WalkInv, TypeOK
<1>9. /\ stack' \in Seq(Drvs \X SUBSET Drvs)
      /\ OnStack' \subseteq seen' /\ Finished' = Finished
      /\ \A i, j \in 1..Len(stack') : stack'[i][1] = stack'[j][1] => i = j
      /\ \A i \in 1..(Len(stack') - 1) : stack'[i + 1][1] \in Deps[stack'[i][1]]
      /\ \A i \in 1..Len(stack') : /\ stack'[i][2] \subseteq Deps[stack'[i][1]]
                                   /\ Deps[stack'[i][1]] \subseteq seen' \cup stack'[i][2]
  <2>1. CASE dep \in seen
    <3>1. stack' = rest /\ seen' = seen /\ Len(stack') = n
      BY <1>1, <1>5, <2>1
    <3>2. OnStack' = OnStack
      BY <1>6, <3>1 DEF OnStack, n
    <3>3. Finished' = Finished
      BY <3>1, <3>2 DEF Finished
    <3>4. \A i \in 1..(n - 1) : i \in 1..n /\ i + 1 \in 1..n
      BY <1>3
    <3>5. OnStack' \subseteq seen'
      BY <3>1, <3>2 DEF RInv, VisitIsAChain
    <3>6. \A i, j \in 1..Len(stack') : stack'[i][1] = stack'[j][1] => i = j
      BY <1>6, <3>1 DEF RInv, VisitIsAChain, n
    <3>7. \A i \in 1..(Len(stack') - 1) : stack'[i + 1][1] \in Deps[stack'[i][1]]
      BY <1>6, <3>1, <3>4 DEF RInv, VisitIsAChain, n
    <3>8. \A i \in 1..n : /\ rest[i][2] \subseteq Deps[rest[i][1]]
                          /\ Deps[rest[i][1]] \subseteq seen \cup rest[i][2]
      BY <1>6, <2>1 DEF RInv, VisitIsAChain, n
    <3>9. \A i \in 1..Len(stack') : /\ stack'[i][2] \subseteq Deps[stack'[i][1]]
                                    /\ Deps[stack'[i][1]] \subseteq seen' \cup stack'[i][2]
      BY <3>1, <3>8
    <3> QED
      BY <1>5, <3>1, <3>3, <3>5, <3>6, <3>7, <3>9
  <2>2. CASE dep \notin seen
    <3>1. stack' = Append(rest, Frame(dep))
      BY <1>1, <2>2
    <3>2. /\ stack' \in Seq(Drvs \X SUBSET Drvs) /\ Len(stack') = n + 1
          /\ stack'[n + 1] = Frame(dep)
          /\ \A i \in 1..n : stack'[i] = rest[i]
      BY <1>5, <1>7, <3>1, AppendProperties
    <3>3. \A i \in 1..n : stack'[i][1] = stack[i][1] /\ stack[i][1] \in seen
      BY <1>6, <3>2 DEF RInv, VisitIsAChain, OnStack, n
    <3>4. \A i \in 1..(n + 1) : i \in 1..n \/ i = n + 1
      BY <1>3
    <3>5. stack'[n + 1][1] = dep /\ stack'[n + 1][2] = Deps[dep]
      BY <1>7, <3>2
    <3>6. OnStack' = OnStack \cup {dep}
      <4>1. n + 1 \in 1..(n + 1) /\ \A i \in 1..n : i \in 1..(n + 1)
        BY <1>3
      <4>2. /\ OnStack = {stack[i][1] : i \in 1..n}
            /\ OnStack' = {stack'[i][1] : i \in 1..(n + 1)}
        BY <3>2 DEF OnStack, n
      <4>3. ASSUME NEW d \in OnStack' PROVE d \in OnStack \cup {dep}
        <5>1. PICK i \in 1..(n + 1) : d = stack'[i][1]
          BY <4>2
        <5> QED
          BY <3>3, <3>4, <3>5, <4>2, <5>1
      <4>4. ASSUME NEW d \in OnStack \cup {dep} PROVE d \in OnStack'
        <5>1. CASE d = dep
          BY <3>5, <4>1, <4>2, <5>1
        <5>2. CASE d \in OnStack
          <6>1. PICK i \in 1..n : d = stack[i][1]
            BY <4>2, <5>2
          <6> QED
            BY <3>3, <4>1, <4>2, <6>1
        <5> QED
          BY <5>1, <5>2
      <4> QED
        BY <4>3, <4>4
    <3>7. Finished' = Finished
      BY <1>1, <2>2, <3>6 DEF Finished
    <3>8. \A i, j \in 1..(n + 1) : stack'[i][1] = stack'[j][1] => i = j
      BY <2>2, <3>3, <3>4, <3>5 DEF RInv, VisitIsAChain, n
    <3>9. \A i \in 1..n : stack'[i + 1][1] \in Deps[stack'[i][1]]
      <4> SUFFICES ASSUME NEW i \in 1..n PROVE stack'[i + 1][1] \in Deps[stack'[i][1]]
        OBVIOUS
      <4>1. CASE i = n
        <5>1. n \in 1..n /\ dep \in stack[n][2]
          BY <1>1, <1>3, <1>4
        <5>2. dep \in Deps[stack[n][1]]
          BY <5>1 DEF RInv, VisitIsAChain, n
        <5> QED
          BY <3>3, <3>5, <4>1, <5>1, <5>2
      <4>2. CASE i # n
        <5>1. i \in 1..(n - 1) /\ i + 1 \in 1..n
          BY <1>3, <4>2
        <5> QED
          BY <3>3, <5>1 DEF RInv, VisitIsAChain, n
      <4> QED
        BY <4>1, <4>2
    <3>10. \A i \in 1..(n + 1) : /\ stack'[i][2] \subseteq Deps[stack'[i][1]]
                                 /\ Deps[stack'[i][1]] \subseteq seen' \cup stack'[i][2]
      <4> SUFFICES ASSUME NEW i \in 1..(n + 1)
                   PROVE  /\ stack'[i][2] \subseteq Deps[stack'[i][1]]
                          /\ Deps[stack'[i][1]] \subseteq seen' \cup stack'[i][2]
        OBVIOUS
      <4>1. CASE i = n + 1
        BY <3>5, <4>1
      <4>2. CASE i \in 1..n
        BY <1>1, <1>6, <3>2, <3>3, <4>2 DEF RInv, VisitIsAChain, n
      <4> QED
        BY <3>4, <4>1, <4>2
    <3>11. Len(stack') - 1 = n
      BY <1>3, <3>2
    <3>12. OnStack' \subseteq seen'
      BY <1>1, <3>6 DEF RInv, VisitIsAChain
    <3>13. \A i, j \in 1..Len(stack') : stack'[i][1] = stack'[j][1] => i = j
      BY <3>2, <3>8
    <3>14. \A i \in 1..(Len(stack') - 1) : stack'[i + 1][1] \in Deps[stack'[i][1]]
      BY <3>9, <3>11
    <3>15. \A i \in 1..Len(stack') : /\ stack'[i][2] \subseteq Deps[stack'[i][1]]
                                     /\ Deps[stack'[i][1]] \subseteq seen' \cup stack'[i][2]
      BY <3>2, <3>10
    <3> QED
      BY <3>2, <3>7, <3>12, <3>13, <3>14, <3>15
  <2> QED
    BY <2>1, <2>2
<1>10. VisitIsAChain'
  BY <1>9 DEF RInv, VisitIsAChain, ClosedUnderDeps
<1>11. OrderIsTopological'
  <2>1. \A d : DependsOn(d)' = DependsOn(d)
    BY DEF DependsOn, ClosedUnderDeps
  <2> QED
    BY <1>1, <1>2, <1>9, <2>1 DEF RInv, OrderIsTopological
<1>12. RTyped'
  BY <1>1, <1>2, <1>9 DEF RInv, RTyped
<1>13. phase = "planned"
  BY <1>1 DEF RInv, RunIsInOrder
<1> QED
  BY <1>1, <1>2, <1>8, <1>10, <1>11, <1>12, <1>13 DEF RInv, RunIsInOrder, GatheredSoFar

\* When a derivation has no input left to visit, all of them are finished: one
\* that were still on the stack would depend on itself.
LEMMA TopIsComplete ==
  ASSUME RTyped, VisitIsAChain, stack # << >>, Top[2] = {}
  PROVE  Deps[Top[1]] \subseteq Finished
<1> DEFINE n == Len(stack)
<1>1. n \in Nat /\ n >= 1 /\ Top = stack[n] /\ n \in 1..n
  BY WithoutTop DEF RTyped, Top
<1>2. \A i \in 1..n : stack[i][1] \in Drvs
  BY ElementOfSeq DEF RTyped
<1>3. Deps[Top[1]] \subseteq seen
  BY <1>1 DEF VisitIsAChain
<1>4. SUFFICES ASSUME NEW k \in 1..n, stack[k][1] \in Deps[Top[1]] PROVE FALSE
  BY <1>3 DEF Finished, OnStack
<1> DEFINE S == {stack[i][1] : i \in k..n}
<1>5. k \in k..n /\ n \in k..n /\ \A i \in k..n : i \in 1..n
  BY <1>1
<1>6. S \in SUBSET Drvs /\ stack[k][1] \in S /\ S # {}
  BY <1>2, <1>5
<1>7. PICK d \in S : Deps[d] \cap S = {}
  BY <1>6, GraphConstants DEF GraphIsRooted
<1>8. PICK i \in k..n : d = stack[i][1]
  BY <1>7
<1>9. i # n
  BY <1>1, <1>4, <1>6, <1>7, <1>8
<1>10. i \in 1..(n - 1) /\ i + 1 \in k..n
  BY <1>1, <1>5, <1>9
<1>11. stack[i + 1][1] \in Deps[d] /\ stack[i + 1][1] \in S
  BY <1>8, <1>10 DEF VisitIsAChain
<1> QED
  BY <1>7, <1>11

LEMMA TopoReturnRuns ==
  ASSUME RInv, TopoReturn PROVE RInv'
<1> DEFINE n == Len(stack)
           d == Top[1]
           m == Len(order)
<1>1. /\ pc = "topo" /\ pc' = "topo" /\ stack # << >> /\ Top[2] = {}
      /\ stack' = Below /\ order' = Emit(d) /\ seen' = seen /\ next' = next
      /\ UNCHANGED vars
  BY DEF TopoReturn
<1>2. UNCHANGED <<world, phase, images, plan, frontier, done, to_build>>
  BY <1>1 DEF vars, plan
<1>3. /\ n \in Nat /\ n >= 1 /\ n \in 1..n /\ d = stack[n][1] /\ m \in Nat
      /\ stack' \in Seq(Drvs \X SUBSET Drvs) /\ Len(stack') = n - 1
      /\ \A i \in 1..(n - 1) : stack'[i] = stack[i]
  BY <1>1, WithoutTop, LenProperties DEF RInv, RTyped, Top, Below
<1>4. Deps[d] \subseteq Finished
  BY <1>1, TopIsComplete DEF RInv
<1>5. d \in Drvs /\ d \in seen
  <2>1. d \in OnStack
    BY <1>3 DEF OnStack
  <2> QED
    BY <2>1 DEF RInv, VisitIsAChain, RTyped
<1>6. OnStack' = OnStack \ {d}
  <2>1. OnStack' = {stack[i][1] : i \in 1..(n - 1)}
    BY <1>3 DEF OnStack
  <2>2. \A i \in 1..n : i \in 1..(n - 1) \/ i = n
    BY <1>3
  <2>3. \A i \in 1..(n - 1) : i \in 1..n /\ i # n
    BY <1>3
  <2>4. \A i \in 1..(n - 1) : stack[i][1] # d
    BY <1>3, <2>3 DEF RInv, VisitIsAChain
  <2>5. \A x \in OnStack' : x \in OnStack \ {d}
    BY <2>1, <2>3, <2>4 DEF OnStack
  <2>6. \A x \in OnStack \ {d} : x \in OnStack'
    BY <1>3, <2>1, <2>2 DEF OnStack
  <2> QED
    BY <2>5, <2>6
<1>7. Finished' = Finished \cup {d} /\ d \notin Finished
  <2>1. d \in OnStack
    BY <1>3 DEF OnStack
  <2> QED
    BY <1>1, <1>5, <1>6, <2>1 DEF Finished
<1> HIDE DEF d
<1>8. ClosedUnderDeps(Finished \cup {d})
  BY <1>4 DEF RInv, VisitIsAChain, ClosedUnderDeps
<1>9. WalkInv'
  BY <1>2, RunKeepsWalk DEF RInv, WalkInv, TypeOK
<1>10. VisitIsAChain'
  <2>1. \A i \in 1..(n - 1) : i \in 1..n
    BY <1>3
  <2>2. \A i \in 1..(Len(stack') - 1) : i \in 1..(n - 1) /\ i + 1 \in 1..(n - 1)
    BY <1>3
  <2>3. ClosedUnderDeps(Finished)'
    BY <1>7, <1>8 DEF ClosedUnderDeps
  <2>4. OnStack' \subseteq seen'
    BY <1>1, <1>6 DEF RInv, VisitIsAChain
  <2>5. \A i, j \in 1..Len(stack') : stack'[i][1] = stack'[j][1] => i = j
    BY <1>3, <2>1 DEF RInv, VisitIsAChain
  <2>6. \A i \in 1..(Len(stack') - 1) : stack'[i + 1][1] \in Deps[stack'[i][1]]
    BY <1>3, <2>2 DEF RInv, VisitIsAChain
  <2>7. \A i \in 1..Len(stack') : /\ stack'[i][2] \subseteq Deps[stack'[i][1]]
                                  /\ Deps[stack'[i][1]] \subseteq seen' \cup stack'[i][2]
    BY <1>1, <1>3, <2>1 DEF RInv, VisitIsAChain
  <2> QED
    BY <2>3, <2>4, <2>5, <2>6, <2>7 DEF VisitIsAChain
<1>11. Finished \cup {d} \in SUBSET Drvs
  BY <1>5 DEF RInv, RTyped, Finished
<1>12. DependsOn(d) \subseteq Finished \cup {d}
  BY <1>8, <1>11, DependsWithin
<1>13. \A e : DependsOn(e)' = DependsOn(e)
  BY DEF DependsOn, ClosedUnderDeps
<1>14. /\ order' \in Seq(Drvs) /\ \A i \in 1..Len(order') : order'[i] \in to_build
       /\ 1 \in 1..(Len(order') + 1)
       /\ OrderIsTopological'
  <2>1. CASE d \in to_build
    <3>1. /\ order' \in Seq(Drvs) /\ Len(order') = m + 1
          /\ order'[m + 1] = d
          /\ \A i \in 1..m : order'[i] = order[i]
      BY <1>1, <1>5, <2>1, AppendProperties DEF Emit, RInv, RTyped
    <3>2. \A i \in 1..(m + 1) : i \in 1..m \/ i = m + 1
      BY <1>3
    <3>3. \A i \in 1..m : i \in 1..(m + 1) /\ m + 1 \in 1..(m + 1)
      BY <1>3
    <3>4. m + 1 \in 1..(m + 1) /\ 1 \in 1..(m + 1 + 1)
      BY <1>3
    <3>5. {order'[i] : i \in 1..(m + 1)} = {order[i] : i \in 1..m} \cup {d}
      BY <3>1, <3>2, <3>3, <3>4
    <3>6. {order[i] : i \in 1..m} = Finished \cap to_build
      BY DEF RInv, OrderIsTopological
    <3>7. \A i, j \in 1..(m + 1) : order'[i] = order'[j] => i = j
      <4>1. \A i \in 1..m : order[i] # d
        BY <1>7, <3>6
      <4> QED
        BY <3>1, <3>2, <4>1 DEF RInv, OrderIsTopological
    <3>8. \A i \in 1..(m + 1) : DependsOn(order'[i]) \cap to_build \subseteq {order'[j] : j \in 1..i}
      <4> SUFFICES ASSUME NEW i \in 1..(m + 1)
                   PROVE  DependsOn(order'[i]) \cap to_build \subseteq {order'[j] : j \in 1..i}
        OBVIOUS
      <4>1. CASE i = m + 1
        BY <1>12, <3>1, <3>5, <3>6, <4>1
      <4>2. CASE i \in 1..m
        <5>1. \A j \in 1..i : order'[j] = order[j]
          BY <1>3, <3>1, <4>2
        <5>2. {order'[j] : j \in 1..i} = {order[j] : j \in 1..i}
          BY <5>1
        <5>3. order'[i] = order[i]
          BY <3>1, <4>2
        <5> QED
          BY <4>2, <5>2, <5>3 DEF RInv, OrderIsTopological
      <4> QED
        BY <3>2, <4>1, <4>2
    <3>9. \A i \in 1..(m + 1) : order'[i] \in to_build
      BY <2>1, <3>1, <3>2 DEF RInv, RTyped
    <3>10. OrderIsTopological'
      <4>1. {order'[i] : i \in 1..Len(order')} = Finished' \cap to_build'
        BY <1>2, <1>7, <2>1, <3>1, <3>5, <3>6
      <4>2. \A i, j \in 1..Len(order') : order'[i] = order'[j] => i = j
        BY <3>1, <3>7
      <4>3. \A i \in 1..Len(order') : DependsOn(order'[i]) \cap to_build' \subseteq {order'[j] : j \in 1..i}
        BY <1>2, <3>1, <3>8
      <4> QED
        BY <1>13, <4>1, <4>2, <4>3 DEF OrderIsTopological
    <3> QED
      BY <3>1, <3>4, <3>9, <3>10
  <2>2. CASE d \notin to_build
    <3>1. order' = order
      BY <1>1, <2>2 DEF Emit
    <3>2. OrderIsTopological'
      BY <1>2, <1>7, <1>13, <2>2, <3>1 DEF RInv, OrderIsTopological
    <3>3. 1 \in 1..(m + 1)
      BY <1>3
    <3> QED
      BY <3>1, <3>2, <3>3 DEF RInv, RTyped
  <2> QED
    BY <2>1, <2>2
<1>15. next = 1 /\ phase = "planned"
  BY <1>1 DEF RInv, RunIsInOrder
<1>16. RTyped'
  BY <1>1, <1>2, <1>3, <1>14, <1>15 DEF RInv, RTyped
<1> QED
  BY <1>1, <1>2, <1>9, <1>10, <1>14, <1>15, <1>16 DEF RInv, RunIsInOrder, GatheredSoFar

\* The recursion started at the root, so every derivation is finished.
LEMMA AllFinished ==
  ASSUME RInv, pc = "topo", stack = << >> PROVE seen = Drvs
<1>1. Len(stack) = 0
  BY EmptySeq
<1>2. OnStack = {} /\ Finished = seen
  BY <1>1 DEF OnStack, Finished
<1>3. Root \in seen /\ ClosedUnderDeps(seen) /\ seen \in SUBSET Drvs
  BY <1>2 DEF RInv, RunIsInOrder, VisitIsAChain, RTyped
<1> QED
  BY <1>3, GraphConstants DEF GraphIsRooted

LEMMA FetchRuns ==
  ASSUME RInv, TopoSkipped \/ TopoDone \/ FetchPhase \/ FetchFails PROVE RInv'
<1>1. UNCHANGED <<world, phase, plan, frontier, done, topo, next>>
  BY DEF TopoSkipped, TopoDone, FetchPhase, FetchFails, vars
<1>2. images \subseteq images' /\ images' \subseteq Paths
  BY DEF TopoSkipped, TopoDone, FetchPhase, FetchFails, vars, Materialized, RInv, WalkInv, TypeOK
<1>3. /\ WalkInv' /\ VisitIsAChain' /\ OrderIsTopological'
      /\ UNCHANGED <<phase, hits, fetches, fetchurl, to_build, stack, seen, order, expand_roots, done>>
  BY <1>1, <1>2, StepBesidesTheOrder
<1>4. /\ pc' \in {"fetch", "build", "error"} /\ pc \in {"plan", "topo", "fetch"}
      /\ phase = "planned" /\ next = 1
      /\ stack = << >>
  BY DEF TopoSkipped, TopoDone, FetchPhase, FetchFails, RInv, RunIsInOrder
<1>5. seen = Drvs \/ to_build = {}
  <2>1. CASE TopoSkipped
    BY <2>1 DEF TopoSkipped, RInv, WalkInv, WalkEnds
  <2>2. CASE TopoDone
    BY <2>2, AllFinished DEF TopoDone
  <2>3. CASE pc = "fetch"
    BY <2>3 DEF RInv, RunIsInOrder
  <2> QED
    BY <2>1, <2>2, <2>3 DEF FetchPhase, FetchFails
<1>6. pc' = "build" => fetches \cup fetchurl \subseteq images'
  BY DEF TopoSkipped, TopoDone, FetchPhase, FetchFails, Materialized
<1>7. RTyped'
  BY <1>1, <1>3, <1>4 DEF RInv, RTyped
<1>8. RunIsInOrder'
  BY <1>1, <1>3, <1>4, <1>5 DEF RunIsInOrder
<1>9. GatheredSoFar'
  <2>1. 1..(next' - 1) = {}
    BY <1>1, <1>4
  <2> QED
    BY <1>3, <1>4, <1>6, <2>1 DEF GatheredSoFar
<1> QED
  BY <1>3, <1>7, <1>8, <1>9 DEF RInv

LEMMA BuildRuns ==
  ASSUME RInv, Build \/ BuildFails \/ Finish PROVE RInv'
<1> DEFINE d == order[next]
<1>1. /\ UNCHANGED <<world, phase, plan, frontier, done, topo>> /\ pc = "build"
      /\ phase = "planned" /\ (seen = Drvs \/ to_build = {}) /\ stack = << >>
  BY DEF Build, BuildFails, Finish, Building, vars, RInv, RunIsInOrder
<1>2. Len(order) \in Nat /\ next \in Nat /\ next >= 1
  BY LenProperties DEF RInv, RTyped
<1>3. images \subseteq images' /\ images' \subseteq Paths
  <2>1. CASE Build
    <3>1. next \in 1..Len(order)
      BY <1>2, <2>1 DEF Build, Building
    <3>2. d \in Drvs
      BY <3>1, ElementOfSeq DEF RInv, RTyped
    <3>3. Outputs[d] \subseteq Paths
      BY <3>2, PlanConstants DEF PlanAssumption
    <3> QED
      BY <2>1, <3>3 DEF Build, RInv, WalkInv, TypeOK
  <2>2. CASE BuildFails \/ Finish
    BY <2>2 DEF BuildFails, Finish, vars, RInv, WalkInv, TypeOK
  <2> QED
    BY <2>1, <2>2
<1>4. /\ WalkInv' /\ VisitIsAChain' /\ OrderIsTopological'
      /\ UNCHANGED <<phase, hits, fetches, fetchurl, to_build, stack, seen, order, expand_roots, done>>
  BY <1>1, <1>3, StepBesidesTheOrder
<1>5. /\ pc' \in {"build", "missing", "error", "incomplete", "done"}
      /\ \/ next' = next
         \/ next' = next + 1 /\ next <= Len(order) /\ Outputs[d] \subseteq images'
  BY DEF Build, BuildFails, Finish, Building
<1>6. next' \in 1..(Len(order) + 1)
  BY <1>2, <1>5 DEF RInv, RTyped
<1>7. RTyped'
  BY <1>4, <1>5, <1>6 DEF RInv, RTyped
<1>8. RunIsInOrder'
  BY <1>1, <1>4, <1>5 DEF RunIsInOrder
<1>9. GatheredSoFar'
  <2>1. /\ fetches \cup fetchurl \subseteq images
        /\ \A i \in 1..(next - 1) : Outputs[order[i]] \subseteq images
    BY <1>1 DEF RInv, GatheredSoFar
  <2>2. \A i \in 1..(next' - 1) : i \in 1..(next - 1) \/ (i = next /\ next' = next + 1)
    BY <1>2, <1>5
  <2>3. \A i \in 1..(next' - 1) : Outputs[order[i]] \subseteq images'
    <3>1. next' = next + 1 => Outputs[d] \subseteq images'
      BY <1>2, <1>5
    <3> QED
      BY <1>3, <2>1, <2>2, <3>1
  <2> QED
    BY <1>3, <1>4, <2>1, <2>3 DEF GatheredSoFar
<1> QED
  BY <1>4, <1>7, <1>8, <1>9 DEF RInv

LEMMA StutterRuns ==
  ASSUME RInv, UNCHANGED allVars PROVE RInv'
<1>1. /\ UNCHANGED <<world, phase, plan, frontier, done, topo, images, pc, next>>
  BY DEF allVars, vars, realizeVars
<1>2. /\ WalkInv' /\ VisitIsAChain' /\ OrderIsTopological'
      /\ UNCHANGED <<phase, hits, fetches, fetchurl, to_build, stack, seen, order, expand_roots, done>>
  BY <1>1, StepBesidesTheOrder DEF RInv, WalkInv, TypeOK
<1> QED
  BY <1>1, <1>2 DEF RInv, RTyped, RunIsInOrder, GatheredSoFar

LEMMA RunInvariant ==
  /\ RInit => RInv
  /\ RInv /\ [RNext]_allVars => RInv'
BY InitRun, PlanningRuns, TopoStartRuns, TopoDescendRuns, TopoReturnRuns, FetchRuns,
   BuildRuns, StutterRuns DEF RNext

LEMMA RunKeepsInvariant == RSafeSpec => []RInv
BY RunInvariant, PTL DEF RSafeSpec

\* Type correctness of a run.
THEOREM RunTypeCorrect == RSafeSpec => []RTypeOK
BY RunKeepsInvariant, TypedIsRTypeOK, PTL DEF RInv

\* The plan forgets no input: every path that the sandbox of a planned build
\* mounts has an image, is fetched, or is an output of another planned build
\* (plan.rs, resolve).
THEOREM NoMissingInputCorrect == RSafeSpec => []NoMissingInput
<1>1. RInv => NoMissingInput
  BY WalkHasNoMissingInput DEF RInv
<1> QED
  BY <1>1, RunKeepsInvariant, PTL

\* The builds to be done are listed once each, after what they depend on
\* (plan.rs, topo_order).
THEOREM DependenciesFirstCorrect == RSafeSpec => []DependenciesFirst
<1>1. RInv => DependenciesFirst
  <2> SUFFICES ASSUME RInv, pc \in {"fetch", "build", "done"}
               PROVE  /\ {order[i] : i \in 1..Len(order)} = to_build
                      /\ \A i, j \in 1..Len(order) :
                           order[j] \in Deps[order[i]] \/ order[j] = order[i] => j <= i
    BY DEF DependenciesFirst
  <2>1. stack = << >> /\ (seen = Drvs \/ to_build = {}) /\ Len(stack) = 0
    BY EmptySeq DEF RInv, RunIsInOrder
  <2>2. Finished = seen
    BY <2>1 DEF Finished, OnStack
  <2>3. {order[i] : i \in 1..Len(order)} = to_build
    BY <2>1, <2>2 DEF RInv, OrderIsTopological, WalkInv, TypeOK
  <2>4. ASSUME NEW i \in 1..Len(order), NEW j \in 1..Len(order),
               order[j] \in Deps[order[i]] \/ order[j] = order[i]
        PROVE  j <= i
    <3>1. order[i] \in Drvs /\ order[j] \in Drvs /\ order[j] \in to_build
      BY ElementOfSeq DEF RInv, RTyped
    <3>2. order[j] \in DependsOn(order[i])
      BY <2>4, <3>1 DEF DependsOn, ClosedUnderDeps
    <3>3. PICK k \in 1..i : order[j] = order[k]
      BY <3>1, <3>2 DEF RInv, OrderIsTopological
    <3>4. Len(order) \in Nat
      BY LenProperties DEF RInv, RTyped
    <3>5. k \in 1..Len(order)
      BY <3>4
    <3>6. k = j
      BY <3>3, <3>5 DEF RInv, OrderIsTopological
    <3> QED
      BY <3>4, <3>6
  <2> QED
    BY <2>3, <2>4
<1> QED
  BY <1>1, RunKeepsInvariant, PTL

-----------------------------------------------------------------------------
(* Nothing is fetched or built that need not be.                           *)

LEMMA PlanIsFrugal ==
  ASSUME WalkInv, OnlyWhatIsMissing, Next PROVE OnlyWhatIsMissing'
<1>1. CASE FastPath \/ Resolved
  BY <1>1 DEF FastPath, Resolved, OnlyWhatIsMissing
<1>2. CASE Preload
  <2>1. fetches' = {} /\ fetchurl' = {} /\ to_build' = {}
    BY <1>2 DEF Preload, WalkInv, WalkEnds
  <2> QED
    BY <2>1 DEF OnlyWhatIsMissing
<1>3. ASSUME NEW p \in Paths, NEW expand \in BOOLEAN,
             Resolve(p, expand) \/ LookupError(p, expand)
      PROVE  OnlyWhatIsMissing'
  <2>1. phase = "resolve"
    BY <1>3 DEF Resolve, LookupError, Revisit, VisitKnown, VisitHit, VisitFetchurl, VisitBuild,
                NoProducer, ResolveFails, Miss, Take
  <2>2. /\ (fetches \cup fetchurl) \cap images = {}
        /\ fetchurl \cap (upstream \cup narinfo) = {}
        /\ \A d \in to_build : \E q \in Outputs[d] : q \notin images \cup upstream \cup narinfo
    BY <2>1 DEF OnlyWhatIsMissing
  <2>3. CASE Revisit(p, expand) \/ VisitKnown(p, expand)
    <3>1. UNCHANGED <<images, fetches, fetchurl, to_build, upstream, narinfo>>
      BY <2>3 DEF Revisit, VisitKnown, Visit, plan, world
    <3> QED
      BY <2>2, <3>1 DEF OnlyWhatIsMissing
  <2>4. CASE VisitHit(p, expand)
    <3>1. /\ UNCHANGED <<images, fetchurl, to_build, upstream, narinfo>>
          /\ fetches' = fetches \cup {p} /\ p \notin images
      BY <2>4 DEF VisitHit, Known, Visit, world
    <3> QED
      BY <2>2, <3>1 DEF OnlyWhatIsMissing
  <2>5. CASE VisitFetchurl(p, expand)
    <3>1. /\ UNCHANGED <<images, fetches, to_build, upstream, narinfo>>
          /\ fetchurl' = fetchurl \cup {p} /\ p \notin images \cup upstream \cup narinfo
      BY <2>5 DEF VisitFetchurl, Miss, FetchurlQueued, Known, Visit, world
    <3> QED
      BY <2>2, <3>1 DEF OnlyWhatIsMissing
  <2>6. CASE VisitBuild(p, expand)
    <3>1. /\ UNCHANGED <<images, fetches, fetchurl, upstream, narinfo>>
          /\ to_build' = to_build \cup {Producer[p]} /\ Producer[p] \in Drvs
          /\ p \notin images \cup upstream \cup narinfo
      BY <2>6 DEF VisitBuild, Miss, Known, Visit, world
    <3>2. p \in Outputs[Producer[p]]
      BY <3>1, ProducerHasIt
    <3> QED
      BY <2>2, <3>1, <3>2 DEF OnlyWhatIsMissing
  <2>7. CASE ResolveFails(p, expand)
    BY <2>7 DEF ResolveFails, OnlyWhatIsMissing
  <2> QED
    BY <1>3, <2>3, <2>4, <2>5, <2>6, <2>7 DEF Resolve, NoProducer, LookupError
<1> QED
  BY <1>1, <1>2, <1>3 DEF Next

\* "Only paths that actually need materializing are looked up, fetched, or
\* built" (plan.rs:1-2).
THEOREM OnlyWhatIsMissingCorrect == RSafeSpec => []OnlyWhatIsMissing
<1>1. RInit => OnlyWhatIsMissing
  BY DEF RInit, Init, OnlyWhatIsMissing
<1>2. RInv /\ OnlyWhatIsMissing /\ [RNext]_allVars => OnlyWhatIsMissing'
  <2> SUFFICES ASSUME RInv, OnlyWhatIsMissing, [RNext]_allVars PROVE OnlyWhatIsMissing'
    OBVIOUS
  <2>1. CASE Planning
    BY <2>1, PlanIsFrugal DEF Planning, RInv
  <2>2. CASE UNCHANGED allVars
    BY <2>2 DEF allVars, vars, world, plan, OnlyWhatIsMissing
  <2>3. CASE ~Planning /\ RNext
    <3>1. phase = "planned"
      BY <2>3 DEF RNext, TopoStart, TopoSkipped, TopoDescend, TopoReturn, TopoDone, FetchPhase,
                  FetchFails, Build, BuildFails, Building, Finish, RInv, RunIsInOrder
    <3>2. phase' = phase
      BY <2>3 DEF RNext, TopoStart, TopoSkipped, TopoDescend, TopoReturn, TopoDone, FetchPhase,
                  FetchFails, Build, BuildFails, Finish, vars
    <3> QED
      BY <3>1, <3>2 DEF OnlyWhatIsMissing
  <2> QED
    BY <2>1, <2>2, <2>3
<1> QED
  BY <1>1, <1>2, RunKeepsInvariant, PTL DEF RSafeSpec

-----------------------------------------------------------------------------
(* No image is missing, when no two derivations share an output.           *)

LEMMA DependsClosed ==
  ASSUME NEW d \in Drvs
  PROVE  d \in DependsOn(d) /\ ClosedUnderDeps(DependsOn(d)) /\ DependsOn(d) \in SUBSET Drvs
BY PlanConstants DEF DependsOn, ClosedUnderDeps, PlanAssumption

\* The inputs of a build are sources, or outputs of other derivations that it
\* depends on.
LEMMA InputsComeFromDependencies ==
  ASSUME OutputsAreTheirOwn, WalkInv, phase = "planned", NEW d \in to_build
  PROVE  \A p \in InputSet(d, hits) :
           p \in done /\ p \notin Outputs[d] /\ Producer[p] \in DependsOn(d) \cup {NoDrv}
<1> DEFINE S == {p \in done \ Outputs[Root] :
                   p \notin Outputs[d] /\ Producer[p] \in DependsOn(d) \cup {NoDrv}}
<1>1. /\ frontier = {}
      /\ \A q \in Direct[d] : q \in done
      /\ \A p \in done \ Outputs[Root] : \A q \in RefsOf(hits, p) : q \in done
  BY DEF WalkInv, WalkCovers, WalkEnds, Follows
<1>2. d \in Drvs /\ done \subseteq Paths
  BY DEF WalkInv, TypeOK
<1>3. d \in DependsOn(d) /\ ClosedUnderDeps(DependsOn(d)) /\ DependsOn(d) \in SUBSET Drvs
  BY <1>2, DependsClosed
<1>4. ASSUME NEW q \in Direct[d] \ Outputs[d] PROVE q \in S
  <2>1. q \in done /\ q \notin Outputs[Root]
    BY <1>1, <1>2, <1>4, RootConstants DEF RootIsLast
  <2>2. Producer[q] \in Deps[d] \cup {NoDrv}
    BY <1>2, <1>4 DEF OutputsAreTheirOwn
  <2> QED
    BY <1>3, <1>4, <2>1, <2>2 DEF ClosedUnderDeps
<1>5. ASSUME NEW p \in S, NEW q \in RefsOf(hits, p) \ Outputs[d] PROVE q \in S
  <2>1. p \in Paths /\ p \notin Outputs[Root] /\ q \in Paths /\ q \in done
    BY <1>1, <1>2, <1>5, RefsArePaths
  <2>2. Producer[p] \in DependsOn(d) \cup {NoDrv}
    BY <1>5
  <2>3. q \notin Outputs[Root] /\ Producer[q] \in DependsOn(d) \cup {NoDrv}
    <3>1. CASE p \in hits
      <4>1. q \in References[p]
        BY <1>5, <3>1 DEF RefsOf
      <4>2. q \notin Outputs[Root]
        BY <2>1, <4>1, RootConstants DEF RootIsLast
      <4>3. CASE Producer[p] = NoDrv
        BY <2>1, <4>1, <4>2, <4>3 DEF OutputsAreTheirOwn
      <4>4. CASE Producer[p] # NoDrv
        <5>1. Producer[p] \in DependsOn(d)
          BY <2>2, <4>4
        <5>2. DependsOn(Producer[p]) \subseteq DependsOn(d)
          BY <1>3, <5>1, DependsWithin
        <5>3. Producer[q] \in DependsOn(Producer[p]) \cup {NoDrv}
          BY <2>1, <4>1, <4>4 DEF OutputsAreTheirOwn
        <5> QED
          BY <4>2, <5>2, <5>3
      <4> QED
        BY <4>3, <4>4
    <3>2. CASE p \notin hits /\ Producer[p] \in Drvs \ Fetchurls
      <4> DEFINE e == Producer[p]
      <4>1. e # Root /\ q \in Direct[e] /\ e \in Drvs
        BY <1>5, <2>1, <3>2, ProducerHasIt DEF RefsOf
      <4>2. q \notin Outputs[Root]
        BY <2>1, <4>1, RootConstants DEF RootIsLast
      <4>3. e \in DependsOn(d)
        BY <2>2, <3>2, PlanConstants DEF PlanAssumption
      <4>4. CASE q \in Outputs[e]
        BY <4>1, <4>2, <4>3, <4>4 DEF OutputsAreTheirOwn
      <4>5. CASE q \notin Outputs[e]
        <5>1. Producer[q] \in Deps[e] \cup {NoDrv}
          BY <4>1, <4>5 DEF OutputsAreTheirOwn
        <5> QED
          BY <1>3, <4>2, <4>3, <5>1 DEF ClosedUnderDeps
      <4> QED
        BY <4>4, <4>5
    <3>3. CASE p \notin hits /\ Producer[p] \notin Drvs \ Fetchurls
      BY <1>5, <3>3 DEF RefsOf
    <3> QED
      BY <3>1, <3>2, <3>3
  <2> QED
    BY <1>5, <2>1, <2>3
<1>6. InputClosed(S, d, hits)
  BY <1>4, <1>5 DEF InputClosed
<1>7. S \in SUBSET Paths
  BY <1>2
<1> QED
  BY <1>6, <1>7 DEF InputSet

\* An input that had no image when the plan was made has one when its turn has
\* passed: it was fetched, or its own derivation was built.
LEMMA GatheredHasIt ==
  ASSUME RInv, pc = "build", NEW p \in done,
         Producer[p] \in to_build => \E j \in 1..(next - 1) : order[j] = Producer[p]
  PROVE  p \in images
<1>1. /\ fetches \cup fetchurl \subseteq images
      /\ \A i \in 1..(next - 1) : Outputs[order[i]] \subseteq images
      /\ p \in Paths
  BY DEF RInv, GatheredSoFar, WalkInv, TypeOK
<1>2. p \in images \cup fetches \cup fetchurl \/ Producer[p] \in to_build
  BY DEF RInv, RunIsInOrder, WalkInv, WalkCovers
<1>3. CASE Producer[p] \in to_build
  <2>1. p \in Outputs[Producer[p]]
    BY <1>1, <1>3, ProducerHasIt DEF RInv, WalkInv, TypeOK
  <2> QED
    BY <1>1, <1>3, <2>1
<1> QED
  BY <1>1, <1>2, <1>3

LEMMA BuildHasItsInputs ==
  ASSUME OutputsAreTheirOwn, RInv, Building
  PROVE  InputSet(order[next], hits) \subseteq images
<1> DEFINE d == order[next]
<1>1. /\ next \in 1..Len(order) /\ Len(order) \in Nat /\ pc = "build" /\ phase = "planned"
  BY LenProperties DEF Building, RInv, RTyped, RunIsInOrder
<1>2. d \in to_build /\ d \in Drvs
  BY <1>1, ElementOfSeq DEF RInv, RTyped
<1>3. SUFFICES ASSUME NEW p \in InputSet(d, hits) PROVE p \in images
  OBVIOUS
<1>4. p \in done /\ p \notin Outputs[d] /\ Producer[p] \in DependsOn(d) \cup {NoDrv}
  BY <1>1, <1>2, InputsComeFromDependencies DEF RInv
<1>5. ASSUME Producer[p] \in to_build
      PROVE  \E j \in 1..(next - 1) : order[j] = Producer[p]
  <2>1. Producer[p] \in Drvs /\ Producer[p] # NoDrv
    BY <1>5, PlanConstants DEF PlanAssumption, RInv, WalkInv, TypeOK
  <2>2. PICK j \in 1..next : order[j] = Producer[p]
    BY <1>1, <1>4, <1>5, <2>1 DEF RInv, OrderIsTopological
  <2>3. p \in Outputs[Producer[p]]
    BY <1>4, <2>1, ProducerHasIt DEF RInv, WalkInv, TypeOK
  <2>4. j # next
    BY <1>4, <2>2, <2>3
  <2>5. j \in 1..(next - 1)
    BY <1>1, <2>4
  <2> QED
    BY <2>2, <2>5
<1> QED
  BY <1>1, <1>4, <1>5, GatheredHasIt

LEMMA ClosureHasItsImages ==
  ASSUME RInv, pc = "build", next > Len(order), expand_roots
  PROVE  OutputClosure(hits) \subseteq images
<1>1. /\ phase = "planned" /\ stack = << >> /\ (seen = Drvs \/ to_build = {}) /\ Len(stack) = 0
  BY EmptySeq DEF RInv, RunIsInOrder
<1>2. Finished = seen
  BY <1>1 DEF Finished, OnStack
<1>3. to_build = {order[i] : i \in 1..Len(order)}
  BY <1>1, <1>2 DEF RInv, OrderIsTopological, WalkInv, TypeOK
<1>4. next - 1 = Len(order)
  BY LenProperties DEF RInv, RTyped
<1>5. SUFFICES ASSUME NEW p \in OutputClosure(hits) PROVE p \in images
  OBVIOUS
<1>6. p \in done
  BY <1>1, ClosureIsVisited DEF RInv
<1> QED
  BY <1>3, <1>4, <1>6, GatheredHasIt

\* "build phase: dependencies first" (mod.rs:202): whatever the disk and the
\* caches held, every path that a build mounts has an image when the build
\* starts, and a closure goal ends with an image for all of its paths - of a
\* derivation graph in which no two derivations have an output in common.
THEOREM NeverMissingImageCorrect ==
  ASSUME OutputsAreTheirOwn PROVE RSafeSpec => []NeverMissingImage
<1>1. RInit => NeverMissingImage
  BY DEF RInit, NeverMissingImage
<1>2. RInv /\ NeverMissingImage /\ [RNext]_allVars => NeverMissingImage'
  <2> SUFFICES ASSUME RInv, NeverMissingImage, [RNext]_allVars PROVE NeverMissingImage'
    OBVIOUS
  <2>1. CASE Build
    BY <2>1, BuildHasItsInputs DEF Build, Building, NeverMissingImage
  <2>2. CASE Finish
    BY <2>2, ClosureHasItsImages DEF Finish, NeverMissingImage
  <2>3. CASE UNCHANGED allVars
    BY <2>3 DEF allVars, realizeVars, NeverMissingImage
  <2>4. CASE RNext /\ ~Build /\ ~Finish
    BY <2>4 DEF RNext, Planning, TopoStart, TopoSkipped, TopoDescend, TopoReturn, TopoDone,
                FetchPhase, FetchFails, BuildFails, realizeVars, NeverMissingImage
  <2> QED
    BY <2>1, <2>2, <2>3, <2>4
<1> QED
  BY <1>1, <1>2, RunKeepsInvariant, PTL DEF RSafeSpec

=============================================================================
