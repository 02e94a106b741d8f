----------------------- MODULE FunctionAnalyses_proofs -----------------------
(***************************************************************************)
(* Proofs about the analyses of functions, for every program: any number   *)
(* of functions that call each other in any way, recursively too.          *)
(*                                                                         *)
(* Most summaries are completed in place, in source order, so a function   *)
(* looks at callees some of which are finished and some not. That the      *)
(* result does not depend on this is what has to be proved: for each       *)
(* analysis an invariant says what the summaries of the functions before   *)
(* and after the one that is visited are worth.                            *)
(***************************************************************************)
EXTENDS Expressions, Recursion

\* Function f has had its turn in the analysis of phase p.
Done(p, f) == Past(p) \/ (phase = p /\ f < at)

StaticAlone(f) == DirectlyStatic(f) /\ f \notin Reached(f)
Static(f) == \A g \in Runs(f) : StaticAlone(g)
Inlineable(f) == \A g \in Runs(f) : DirectlyInlineable(g)
Verif(f) == \E g \in Runs(f) : PrivateItems(g) # {}
ReadsOf(f) == DirectlyRead(f) \cup UNION {OfState(DirectlyRead(g)) : g \in Reached(f)}
ModsOf(f) == DirectlyModified(f) \cup UNION {OfState(DirectlyModified(g)) : g \in Reached(f)}
HomsOf(f) == UNION {DirectHoms(g) : g \in Runs(f)}

\* The called functions of f: complete, being searched, or not yet touched.
CalledOK(f) ==
    IF Done("called", f) THEN attr[f].called = Reached(f) /\ (attr[f].recursive <=> f \in Reached(f))
    ELSE IF phase = "called" /\ f = at
    THEN /\ Direct(f) \subseteq attr[f].called /\ attr[f].called \subseteq Reached(f)
         /\ leaves \subseteq attr[f].called
         /\ \A g \in attr[f].called \ leaves : Direct(g) \subseteq attr[f].called
    ELSE attr[f].called = Direct(f)

StaticOK(f) ==
    attr[f].static <=> IF Done("static", f) THEN Static(f)
                       ELSE IF Done("called", f) THEN StaticAlone(f) ELSE DirectlyStatic(f)

InlineableOK(f) ==
    attr[f].inlineable <=> IF Done("inlineable", f) THEN Inlineable(f) ELSE DirectlyInlineable(f)

VerifOK(f) ==
    LET verif == IF Done("hybrid", f) THEN Verif(f) ELSE PrivateItems(f) # {}
    IN  /\ attr[f].verif <=> verif
        /\ attr[f].verifExt <=> program.fns[f].external /\ (verif \/ program.fns[f].params # {})

\* The state variables that callees read and modify have reached f.
Closes(f) ==
    \A g \in Direct(f) : /\ OfState(attr[g].reads) \subseteq attr[f].reads
                         /\ OfState(attr[g].mods) \subseteq attr[f].mods

SetsOK(f) ==
    /\ DirectlyRead(f) \subseteq attr[f].reads /\ attr[f].reads \subseteq ReadsOf(f)
    /\ DirectlyModified(f) \subseteq attr[f].mods /\ attr[f].mods \subseteq ModsOf(f)
    /\ Past("sets") \/ (phase = "sets" /\ fixed /\ f < at) => Closes(f)

\* Only a function in the worklist may have homomorphisms a caller lacks.
HomsOK(f) ==
    /\ DirectHoms(f) \subseteq attr[f].homs /\ attr[f].homs \subseteq HomsOf(f)
    /\ Past("homs") \/ (phase = "homs" /\ f \notin dirty) =>
          \A g \in Callers(f) : attr[f].homs \subseteq attr[g].homs

AcceptedOK(f) ==
    /\ Past("compliance") => Compliant(f)
    /\ Past("loops") => \A i \in Body(f) : ~NonInlineableCall(i) /\ ~PrivateInLoop(i)

IsSummary(r) ==
    /\ r = [called |-> r.called, recursive |-> r.recursive, static |-> r.static,
            reads |-> r.reads, mods |-> r.mods, inlineable |-> r.inlineable,
            verif |-> r.verif, verifExt |-> r.verifExt, homs |-> r.homs,
            backends |-> r.backends]
    /\ r.recursive \in BOOLEAN /\ r.static \in BOOLEAN /\ r.inlineable \in BOOLEAN
    /\ r.verif \in BOOLEAN /\ r.verifExt \in BOOLEAN

InPlace == {"called", "static", "sets", "inlineable", "hybrid"}

AnalysisTypeOK ==
    /\ program \in Programs /\ at \in Fns /\ fixed \in BOOLEAN
    /\ phase \in Range(Phases) \cup {"rejected"}
    /\ phase \notin InPlace => at = 1
    /\ attr = [f \in Fns |-> attr[f]]
    /\ \A f \in Fns : IsSummary(attr[f])

FnOK(f) ==
    /\ CalledOK(f) /\ StaticOK(f) /\ InlineableOK(f) /\ VerifOK(f)
    /\ SetsOK(f) /\ HomsOK(f) /\ AcceptedOK(f)

AnalysisInv == AnalysisTypeOK /\ (phase # "rejected" => \A f \in Fns : FnOK(f))


-----------------------------------------------------------------------------
(* The functions a call may run                                            *)

\* Functions are numbered, and call each other only.
LEMMA Numbered ==
    ASSUME program \in Programs
    PROVE  /\ Len(program.fns) \in Nat \ {0} /\ Fns = 1 .. Len(program.fns)
           /\ \A f \in Fns : Direct(f) \subseteq Fns /\ program.fns[f].external \in BOOLEAN
  <1>1. Fns = 1 .. Len(program.fns) /\ Len(program.fns) \in Nat \ {0}
    BY ProgramAssumption DEF Fns
  <1>2. ASSUME NEW f \in Fns PROVE Direct(f) \subseteq Fns /\ program.fns[f].external \in BOOLEAN
    BY ProgramAssumption DEF Fns, Direct, CallItems, Body
  <1>. QED BY <1>1, <1>2

\* Every closed set that holds the called functions holds the reached ones.
LEMMA ReachedLeast ==
    ASSUME program \in Programs, NEW f \in Fns, NEW S, Direct(f) \subseteq S,
           \A h \in S \cap Fns : Direct(h) \subseteq S
    PROVE  Reached(f) \subseteq S
  <1>1. Direct(f) \subseteq S \cap Fns /\ Closed(S \cap Fns)
    BY Numbered DEF Closed
  <1>. QED BY <1>1 DEF Reached

\* What is reached is a closed set of functions and holds the called ones.
LEMMA ReachedClosed ==
    ASSUME program \in Programs, NEW f \in Fns
    PROVE  /\ Reached(f) \subseteq Fns /\ Direct(f) \subseteq Reached(f)
           /\ \A g \in Reached(f) : Direct(g) \subseteq Reached(f)
  <1>1. Reached(f) \subseteq Fns
    BY DEF Reached
  <1>2. Direct(f) \subseteq Reached(f)
    BY Numbered DEF Reached
  <1>3. ASSUME NEW g \in Reached(f) PROVE Direct(g) \subseteq Reached(f)
    <2>1. SUFFICES ASSUME NEW h \in Direct(g), NEW S \in SUBSET Fns,
                          Direct(f) \subseteq S, Closed(S)
                   PROVE  h \in S
      BY <1>1, Numbered DEF Reached
    <2>2. g \in S
      BY <2>1 DEF Reached
    <2>. QED BY <2>1, <2>2 DEF Closed
  <1>. QED BY <1>1, <1>2, <1>3

\* What a reached function reaches is reached.
LEMMA ReachedTransitive ==
    ASSUME program \in Programs, NEW f \in Fns, NEW g \in Reached(f)
    PROVE  Reached(g) \subseteq Reached(f)
  <1>1. g \in Fns /\ Direct(g) \subseteq Reached(f)
    BY ReachedClosed
  <1>. QED BY <1>1, ReachedClosed, ReachedLeast

\* What a function runs includes what each of them runs.
LEMMA RunsClosed ==
    ASSUME program \in Programs, NEW f \in Fns
    PROVE  /\ f \in Runs(f) /\ Runs(f) = {f} \cup Reached(f)
           /\ \A g \in Runs(f) : g \in Fns /\ Runs(g) \subseteq Runs(f)
  <1>1. Runs(f) = {f} \cup Reached(f)
    BY DEF Runs
  <1>2. ASSUME NEW g \in Reached(f) PROVE g \in Fns /\ Runs(g) \subseteq Runs(f)
    BY ReachedClosed, ReachedTransitive DEF Runs
  <1>. QED BY <1>1, <1>2

\* None of this changes with the analysis of a program.
LEMMA ProgramKept ==
    ASSUME program' = program
    PROVE  /\ Fns' = Fns
           /\ \A f : /\ Body(f)' = Body(f) /\ Direct(f)' = Direct(f) /\ Reached(f)' = Reached(f)
                     /\ StaticAlone(f)' = StaticAlone(f) /\ Static(f)' = Static(f)
                     /\ Inlineable(f)' = Inlineable(f) /\ Verif(f)' = Verif(f)
                     /\ DirectlyStatic(f)' = DirectlyStatic(f)
                     /\ DirectlyInlineable(f)' = DirectlyInlineable(f)
                     /\ PrivateItems(f)' = PrivateItems(f)
           /\ \A f : /\ DirectlyRead(f)' = DirectlyRead(f)
                     /\ DirectlyModified(f)' = DirectlyModified(f)
                     /\ ReadsOf(f)' = ReadsOf(f) /\ ModsOf(f)' = ModsOf(f)
                     /\ DirectHoms(f)' = DirectHoms(f) /\ HomsOf(f)' = HomsOf(f)
                     /\ Runs(f)' = Runs(f)
  BY DEF Fns, Body, Direct, CallItems, Reached, Closed, StaticAlone, Static, Inlineable, Verif,
         DirectlyStatic, DirectlyInlineable, PrivateItems, DirectlyRead, DirectlyModified,
         ReadsOf, ModsOf, OfState, DirectHoms, HomsOf, Runs


-----------------------------------------------------------------------------
(* The order of the analyses                                               *)

\* An analysis p that is followed by those of later is over when one of them runs.
LEMMA PastPhases ==
    /\ Range(Phases) = {"called", "static", "sets", "order", "types", "inlineable", "compliance",
                        "hybrid", "loops", "homs", "analysed", "entered", "simulated", "executed"}
    /\ Past("called") <=> phase \in Range(Phases) \ {"called"}
    /\ Past("static") <=> phase \in Range(Phases) \ {"called", "static"}
    /\ Past("sets") <=> phase \in Range(Phases) \ {"called", "static", "sets"}
    /\ Past("inlineable") <=> phase \in {"compliance", "hybrid", "loops", "homs", "analysed",
                                         "entered", "simulated", "executed"}
    /\ Past("compliance") <=> phase \in {"hybrid", "loops", "homs", "analysed",
                                         "entered", "simulated", "executed"}
    /\ Past("hybrid") <=> phase \in {"loops", "homs", "analysed", "entered", "simulated", "executed"}
    /\ Past("loops") <=> phase \in {"homs", "analysed", "entered", "simulated", "executed"}
    /\ Past("homs") <=> phase \in {"analysed", "entered", "simulated", "executed"}
  <1>1. DOMAIN Phases = 1 .. 14
    BY DEF Phases
  <1>2. Range(Phases) = {"called", "static", "sets", "order", "types", "inlineable", "compliance",
                         "hybrid", "loops", "homs", "analysed", "entered", "simulated", "executed"}
    BY <1>1 DEF Range, Phases
  <1>3. \A i \in 1 .. 14 : i \in {1, 2, 3, 4, 5, 6, 7} \/ i \in {8, 9, 10, 11, 12, 13, 14}
    OBVIOUS
  <1>. QED BY <1>1, <1>2, <1>3 DEF Past, Phases


\* The same once a step has been taken.
LEMMA PastNext ==
    /\ Past("called")' <=> phase' \in Range(Phases) \ {"called"}
    /\ Past("static")' <=> phase' \in Range(Phases) \ {"called", "static"}
    /\ Past("sets")' <=> phase' \in Range(Phases) \ {"called", "static", "sets"}
    /\ Past("inlineable")' <=> phase' \in {"compliance", "hybrid", "loops", "homs", "analysed",
                                           "entered", "simulated", "executed"}
    /\ Past("compliance")' <=> phase' \in {"hybrid", "loops", "homs", "analysed",
                                           "entered", "simulated", "executed"}
    /\ Past("hybrid")' <=> phase' \in {"loops", "homs", "analysed", "entered", "simulated",
                                       "executed"}
    /\ Past("loops")' <=> phase' \in {"homs", "analysed", "entered", "simulated", "executed"}
    /\ Past("homs")' <=> phase' \in {"analysed", "entered", "simulated", "executed"}
  <1>1. DOMAIN Phases = 1 .. 14
    BY DEF Phases
  <1>2. \A i \in 1 .. 14 : i \in {1, 2, 3, 4, 5, 6, 7} \/ i \in {8, 9, 10, 11, 12, 13, 14}
    OBVIOUS
  <1>. QED BY <1>1, <1>2, PastPhases DEF Past, Phases

-----------------------------------------------------------------------------
(* What the analyses leave alone                                           *)

\* The attributes of function f that are not in changed are those it had.
Keeps(f, changed) ==
    /\ "called" \notin changed => attr'[f].called = attr[f].called
                                  /\ attr'[f].recursive = attr[f].recursive
    /\ "static" \notin changed => attr'[f].static = attr[f].static
    /\ "sets" \notin changed => attr'[f].reads = attr[f].reads /\ attr'[f].mods = attr[f].mods
    /\ "inlineable" \notin changed => attr'[f].inlineable = attr[f].inlineable
    /\ "hybrid" \notin changed => attr'[f].verif = attr[f].verif
                                  /\ attr'[f].verifExt = attr[f].verifExt
    /\ "homs" \notin changed => attr'[f].homs = attr[f].homs

\* An analysis that visits the functions one by one goes on or ends.
Visits(next) ==
    /\ program' = program /\ at' \in Fns
    /\ \/ at < Len(program.fns) /\ at' = at + 1 /\ phase' = phase
       \/ at = Len(program.fns) /\ at' = 1 /\ phase' = next

\* Advance, without the leaves of the search.
LEMMA AdvanceVisits ==
    ASSUME AnalysisTypeOK, NEW next, Advance(next), program' = program
    PROVE  Visits(next)
  <1>1. at \in 1 .. Len(program.fns) /\ Fns = 1 .. Len(program.fns)
    BY Numbered DEF AnalysisTypeOK
  <1>. QED BY <1>1 DEF Advance, Visits

\* One attribute of the visited function changes.
LEMMA SearchSteps ==
    ASSUME AnalysisTypeOK, Search
    PROVE  /\ program' = program /\ at' = at /\ phase' = phase /\ fixed' = fixed
           /\ attr' = [f \in Fns |-> attr'[f]] /\ \A f \in Fns : IsSummary(attr[f])'
           /\ \A f \in Fns : Keeps(f, IF f = at THEN {"called"} ELSE {})
           /\ attr'[at].called = attr[at].called \cup NewLeaves
           /\ attr'[at].recursive = attr[at].recursive
  <1>1. /\ program' = program /\ at' = at /\ phase' = phase /\ fixed' = fixed
        /\ attr' = [attr EXCEPT ![at].called = @ \cup NewLeaves]
    BY DEF Search
  <1>2. \A f \in Fns : attr'[f] = IF f = at THEN [attr[f] EXCEPT !.called = @ \cup NewLeaves]
                                  ELSE attr[f]
    BY <1>1 DEF AnalysisTypeOK
  <1>3. at \in Fns /\ \A f \in Fns : IsSummary(attr[f])
    BY DEF AnalysisTypeOK
  <1>4. \A f \in Fns : IsSummary(attr'[f])
    BY <1>2, <1>3 DEF IsSummary
  <1>5. \A f \in Fns : Keeps(f, IF f = at THEN {"called"} ELSE {})
    BY <1>2, <1>3 DEF IsSummary, Keeps
  <1>. QED BY <1>1, <1>2, <1>3, <1>4, <1>5 DEF AnalysisTypeOK, IsSummary


\* The end of a search settles recursion, which rules out a static body.
LEMMA EndSearchSteps ==
    ASSUME AnalysisTypeOK, EndSearch
    PROVE  /\ Visits("static") /\ fixed' = fixed
           /\ attr' = [f \in Fns |-> attr'[f]] /\ \A f \in Fns : IsSummary(attr[f])'
           /\ \A f \in Fns : Keeps(f, IF f = at THEN {"called", "static"} ELSE {})
           /\ attr'[at].called = attr[at].called
           /\ attr'[at].recursive <=> at \in attr[at].called
           /\ attr'[at].static <=> attr[at].static /\ at \notin attr[at].called
           /\ leaves' = IF at < Len(program.fns) THEN attr'[at + 1].called ELSE {}
  <1>1. /\ program' = program /\ fixed' = fixed /\ Advance("static")
        /\ attr' = [attr EXCEPT ![at].recursive = at \in attr[at].called,
                                ![at].static = @ /\ at \notin attr[at].called]
    BY DEF EndSearch
  <1>2. at \in Fns /\ (\A f \in Fns : IsSummary(attr[f])) /\ attr = [f \in Fns |-> attr[f]]
    BY DEF AnalysisTypeOK
  <1>3. PICK r \in BOOLEAN : r <=> (at \in attr[at].called)
    OBVIOUS
  <1>r. PICK b \in BOOLEAN : b = (attr[at].static /\ at \notin attr[at].called)
    OBVIOUS
  <1>4. \A f \in Fns : attr'[f] = IF f = at THEN [attr[f] EXCEPT !.recursive = r, !.static = b]
                                  ELSE attr[f]
    BY <1>1, <1>2, <1>3, <1>r
  <1>5. \A f \in Fns : IsSummary(attr'[f])
    BY <1>2, <1>4 DEF IsSummary
  <1>6. ASSUME NEW f \in Fns PROVE Keeps(f, IF f = at THEN {"called", "static"} ELSE {})
    <2>1. CASE f # at
      BY <1>2, <1>4, <2>1 DEF Keeps
    <2>2. CASE f = at
      BY <1>2, <1>4, <2>2 DEF IsSummary, Keeps
    <2>. QED BY <2>1, <2>2
  <1>7. attr'[at].called = attr[at].called /\ attr'[at].recursive = r /\ attr'[at].static = b
    BY <1>2, <1>4 DEF IsSummary
  <1>8. attr' = [f \in Fns |-> attr'[f]]
    BY <1>1, <1>2
  <1>. QED BY <1>1, <1>3, <1>r, <1>5, <1>6, <1>7, <1>8, AdvanceVisits DEF Advance, IsSummary

\* The analyses of one function change one attribute of it, as follows.
LEMMA DetectDynamicBodySteps ==
    ASSUME AnalysisTypeOK, DetectDynamicBody
    PROVE  /\ Visits("sets") /\ fixed' = fixed
           /\ attr' = [f \in Fns |-> attr'[f]] /\ \A f \in Fns : IsSummary(attr[f])'
           /\ \A f \in Fns : Keeps(f, IF f = at THEN {"static"} ELSE {})
           /\ attr'[at].static <=> attr[at].static /\ \A g \in attr[at].called : attr[g].static
  <1>1. /\ program' = program /\ fixed' = fixed /\ Advance("sets")
        /\ attr' = [attr EXCEPT ![at].static = @ /\ \A g \in attr[at].called : attr[g].static]
    BY DEF DetectDynamicBody
  <1>2. at \in Fns /\ (\A f \in Fns : IsSummary(attr[f])) /\ attr = [f \in Fns |-> attr[f]]
    BY DEF AnalysisTypeOK
  <1>3. PICK b \in BOOLEAN :
            /\ b <=> attr[at].static /\ \A g \in attr[at].called : attr[g].static
            /\ attr' = [attr EXCEPT ![at].static = b]
    BY <1>1, <1>2
  <1>4. \A f \in Fns : attr'[f] = IF f = at THEN [attr[f] EXCEPT !.static = b] ELSE attr[f]
    BY <1>2, <1>3
  <1>5. \A f \in Fns : IsSummary(attr'[f])
    BY <1>2, <1>4 DEF IsSummary
  <1>6. \A f \in Fns : Keeps(f, IF f = at THEN {"static"} ELSE {})
    <2>. SUFFICES ASSUME NEW f \in Fns
                  PROVE  Keeps(f, IF f = at THEN {"static"} ELSE {})
      OBVIOUS
    <2>1. CASE f = at
      BY <1>2, <1>4, <2>1 DEF IsSummary, Keeps
    <2>2. CASE f # at
      BY <1>4, <2>2 DEF Keeps
    <2>. QED BY <2>1, <2>2
  <1>7. attr'[at].static = b
    BY <1>2, <1>4 DEF IsSummary
  <1>8. attr' = [f \in Fns |-> attr'[f]]
    BY <1>2, <1>3
  <1>. QED BY <1>1, <1>3, <1>5, <1>6, <1>7, <1>8, AdvanceVisits DEF IsSummary


LEMMA PropagateSetsSteps ==
    ASSUME AnalysisTypeOK, PropagateSets
    PROVE  /\ attr' = [f \in Fns |-> attr'[f]] /\ \A f \in Fns : IsSummary(attr[f])'
           /\ \A f \in Fns : Keeps(f, IF f = at THEN {"sets"} ELSE {})
           /\ attr'[at].reads = WithCallees("reads") /\ attr'[at].mods = WithCallees("mods")
           /\ LET same == fixed /\ WithCallees("reads") = attr[at].reads
                                /\ WithCallees("mods") = attr[at].mods
              IN  /\ fixed' = (same \/ at = Len(program.fns))
                  /\ Visits(IF same THEN "order" ELSE "sets")
  <1>. DEFINE R == WithCallees("reads")
              M == WithCallees("mods")
              Same == fixed /\ R = attr[at].reads /\ M = attr[at].mods
  <1>1. /\ program' = program /\ fixed' = (Same \/ at = Len(program.fns))
        /\ Advance(IF Same THEN "order" ELSE "sets")
        /\ attr' = [attr EXCEPT ![at].reads = R, ![at].mods = M]
    BY DEF PropagateSets
  <1>2. at \in Fns /\ (\A f \in Fns : IsSummary(attr[f])) /\ attr = [f \in Fns |-> attr[f]]
    BY DEF AnalysisTypeOK
  <1>3. Visits(IF Same THEN "order" ELSE "sets")
    BY <1>1, AdvanceVisits
  <1>. HIDE DEF R, M
  <1>4. \A f \in Fns : attr'[f] = IF f = at THEN [attr[f] EXCEPT !.reads = R, !.mods = M]
                                  ELSE attr[f]
    BY <1>1, <1>2
  <1>5. \A f \in Fns : IsSummary(attr'[f])
    BY <1>2, <1>4 DEF IsSummary
  <1>6. \A f \in Fns : Keeps(f, IF f = at THEN {"sets"} ELSE {})
    BY <1>2, <1>4 DEF IsSummary, Keeps
  <1>7. attr'[at].reads = R /\ attr'[at].mods = M
    BY <1>2, <1>4 DEF IsSummary
  <1>8. attr' = [f \in Fns |-> attr'[f]]
    BY <1>1, <1>2
  <1>. QED BY <1>1, <1>3, <1>5, <1>6, <1>7, <1>8 DEF R, M, IsSummary

LEMMA DetectInlineableSteps ==
    ASSUME AnalysisTypeOK, DetectInlineable
    PROVE  /\ Visits("compliance") /\ fixed' = fixed
           /\ attr' = [f \in Fns |-> attr'[f]] /\ \A f \in Fns : IsSummary(attr[f])'
           /\ \A f \in Fns : Keeps(f, IF f = at THEN {"inlineable"} ELSE {})
           /\ attr'[at].inlineable <=>
                  attr[at].inlineable /\ \A g \in attr[at].called : attr[g].inlineable
  <1>1. /\ program' = program /\ fixed' = fixed /\ Advance("compliance")
        /\ attr' = [attr EXCEPT ![at].inlineable =
                                    @ /\ \A g \in attr[at].called : attr[g].inlineable]
    BY DEF DetectInlineable
  <1>2. at \in Fns /\ (\A f \in Fns : IsSummary(attr[f])) /\ attr = [f \in Fns |-> attr[f]]
    BY DEF AnalysisTypeOK
  <1>3. PICK b \in BOOLEAN :
            /\ b <=> attr[at].inlineable /\ \A g \in attr[at].called : attr[g].inlineable
            /\ attr' = [attr EXCEPT ![at].inlineable = b]
    BY <1>1, <1>2
  <1>4. \A f \in Fns : attr'[f] = IF f = at THEN [attr[f] EXCEPT !.inlineable = b] ELSE attr[f]
    BY <1>2, <1>3
  <1>5. \A f \in Fns : IsSummary(attr'[f])
    BY <1>2, <1>4 DEF IsSummary
  <1>6. \A f \in Fns : Keeps(f, IF f = at THEN {"inlineable"} ELSE {})
    <2>. SUFFICES ASSUME NEW f \in Fns
                  PROVE  Keeps(f, IF f = at THEN {"inlineable"} ELSE {})
      OBVIOUS
    <2>1. CASE f = at
      BY <1>2, <1>4, <2>1 DEF IsSummary, Keeps
    <2>2. CASE f # at
      BY <1>4, <2>2 DEF Keeps
    <2>. QED BY <2>1, <2>2
  <1>7. attr'[at].inlineable = b
    BY <1>2, <1>4 DEF IsSummary
  <1>8. attr' = [f \in Fns |-> attr'[f]]
    BY <1>2, <1>3
  <1>. QED BY <1>1, <1>3, <1>5, <1>6, <1>7, <1>8, AdvanceVisits DEF IsSummary

LEMMA DetectHybridSteps ==
    ASSUME AnalysisTypeOK, DetectHybrid
    PROVE  LET found == \E g \in attr[at].called : attr[g].verif IN
           /\ Visits("loops") /\ fixed' = fixed
           /\ attr' = [f \in Fns |-> attr'[f]] /\ \A f \in Fns : IsSummary(attr[f])'
           /\ \A f \in Fns : Keeps(f, IF f = at THEN {"hybrid"} ELSE {})
           /\ attr'[at].verif <=> attr[at].verif \/ found
           /\ attr'[at].verifExt <=> attr[at].verifExt \/ (found /\ program.fns[at].external)
  <1>. DEFINE found == \E g \in attr[at].called : attr[g].verif
  <1>1. /\ program' = program /\ fixed' = fixed /\ Advance("loops")
        /\ attr' = [attr EXCEPT ![at].verif = @ \/ found,
                                ![at].verifExt = @ \/ (found /\ program.fns[at].external)]
    BY DEF DetectHybrid
  <1>2. at \in Fns /\ (\A f \in Fns : IsSummary(attr[f])) /\ attr = [f \in Fns |-> attr[f]]
    BY DEF AnalysisTypeOK
  <1>3. program.fns[at].external \in BOOLEAN
    BY <1>2, Numbered DEF AnalysisTypeOK
  <1>. HIDE DEF found
  <1>4. PICK b \in BOOLEAN, c \in BOOLEAN :
            /\ b <=> attr[at].verif \/ found
            /\ c <=> attr[at].verifExt \/ (found /\ program.fns[at].external)
            /\ attr' = [attr EXCEPT ![at].verif = b, ![at].verifExt = c]
    BY <1>1, <1>2, <1>3
  <1>5. \A f \in Fns : attr'[f] = IF f = at THEN [attr[f] EXCEPT !.verif = b, !.verifExt = c]
                                  ELSE attr[f]
    BY <1>2, <1>4
  <1>6. \A f \in Fns : IsSummary(attr'[f])
    BY <1>2, <1>5 DEF IsSummary
  <1>7. ASSUME NEW f \in Fns PROVE Keeps(f, IF f = at THEN {"hybrid"} ELSE {})
    <2>1. CASE f # at
      BY <1>2, <1>5, <2>1 DEF Keeps
    <2>2. CASE f = at
      BY <1>2, <1>5, <2>2 DEF IsSummary, Keeps
    <2>. QED BY <2>1, <2>2
  <1>8. attr'[at].verif = b /\ attr'[at].verifExt = c
    BY <1>2, <1>5 DEF IsSummary
  <1>9. attr' = [f \in Fns |-> attr'[f]]
    BY <1>2, <1>4
  <1>. QED BY <1>1, <1>4, <1>6, <1>7, <1>8, <1>9, AdvanceVisits DEF IsSummary, found


\* A function hands its homomorphisms to its callers.
LEMMA PropagateHomsSteps ==
    ASSUME AnalysisTypeOK, NEW h \in Fns, PropagateHoms(h)
    PROVE  /\ program' = program /\ at' = at /\ phase' = phase /\ fixed' = fixed
           /\ attr' = [f \in Fns |-> attr'[f]] /\ \A f \in Fns : IsSummary(attr[f])'
           /\ \A f \in Fns : Keeps(f, {"homs"})
           /\ \A f \in Fns : attr'[f].homs = IF f \in Callers(h) THEN attr[f].homs \cup attr[h].homs
                                             ELSE attr[f].homs
  <1>1. /\ program' = program /\ at' = at /\ phase' = phase /\ fixed' = fixed
        /\ attr' = [f \in Fns |-> IF f \in Callers(h)
                                  THEN [attr[f] EXCEPT !.homs = @ \cup attr[h].homs] ELSE attr[f]]
    BY DEF PropagateHoms
  <1>2. \A f \in Fns : IsSummary(attr[f])
    BY DEF AnalysisTypeOK
  <1>3. ASSUME NEW f \in Fns
        PROVE  /\ IsSummary(attr'[f]) /\ Keeps(f, {"homs"})
               /\ attr'[f].homs = IF f \in Callers(h) THEN attr[f].homs \cup attr[h].homs
                                  ELSE attr[f].homs
    <2>1. CASE f \in Callers(h)
      <3>1. attr'[f] = [attr[f] EXCEPT !.homs = attr[f].homs \cup attr[h].homs]
        BY <1>1, <2>1
      <3>. DEFINE H == attr[f].homs \cup attr[h].homs
      <3>. HIDE DEF H
      <3>2. IsSummary(attr'[f]) /\ attr'[f].homs = H
        BY <1>2, <3>1 DEF IsSummary, H
      <3>3. Keeps(f, {"homs"})
        BY <1>2, <3>1 DEF IsSummary, Keeps
      <3>. QED BY <2>1, <3>2, <3>3 DEF H
    <2>2. CASE f \notin Callers(h)
      BY <1>1, <1>2, <2>2 DEF IsSummary, Keeps
    <2>. QED BY <2>1, <2>2
  <1>. QED BY <1>1, <1>3 DEF IsSummary

LEMMA SetBackendsSteps ==
    ASSUME AnalysisTypeOK, SetBackends
    PROVE  /\ program' = program /\ at' = at /\ phase' = "analysed" /\ fixed' = fixed
           /\ attr' = [f \in Fns |-> attr'[f]] /\ \A f \in Fns : IsSummary(attr[f])'
           /\ \A f \in Fns : Keeps(f, {}) /\ attr'[f].backends = UsedBackends(attr[f].homs)
  <1>1. /\ program' = program /\ at' = at /\ phase' = "analysed" /\ fixed' = fixed
        /\ attr' = [f \in Fns |-> [attr[f] EXCEPT !.backends = UsedBackends(attr[f].homs)]]
    BY DEF SetBackends
  <1>2. \A f \in Fns : IsSummary(attr[f])
    BY DEF AnalysisTypeOK
  <1>3. ASSUME NEW f \in Fns
        PROVE  /\ IsSummary(attr'[f]) /\ Keeps(f, {})
               /\ attr'[f].backends = UsedBackends(attr[f].homs)
    <2>1. PICK b : attr'[f] = [attr[f] EXCEPT !.backends = b] /\ b = UsedBackends(attr[f].homs)
      BY <1>1
    <2>2. IsSummary(attr'[f])
      BY <1>2, <2>1 DEF IsSummary
    <2>. QED BY <1>2, <2>1, <2>2 DEF IsSummary, Keeps
  <1>. QED BY <1>1, <1>3 DEF IsSummary

\* Every other step only decides what comes next.
LEMMA CheckSteps ==
    ASSUME CheckEvalOrder \/ CheckCompliance \/ CheckLoops
               \/ TypeCheck \/ Enter \/ Simulate \/ Combine
    PROVE  /\ program' = program /\ at' = at /\ attr' = attr /\ fixed' = fixed
           /\ \/ phase' = "rejected" /\ phase \notin InPlace
              \/ <<phase, phase'>> \in
                     {<<"order", "types">>, <<"compliance", "hybrid">>, <<"loops", "homs">>,
                      <<"types", "inlineable">>, <<"analysed", "entered">>,
                      <<"entered", "simulated">>, <<"simulated", "executed">>}
  BY DEF CheckEvalOrder, CheckCompliance, CheckLoops, Checked, TypeCheck, Enter, Simulate, Combine,
         InPlace

\* What one analysis may be followed by.
Follows == {<<"called", "static">>, <<"static", "sets">>, <<"sets", "order">>, <<"order", "types">>,
            <<"types", "inlineable">>, <<"inlineable", "compliance">>, <<"compliance", "hybrid">>,
            <<"hybrid", "loops">>, <<"loops", "homs">>, <<"homs", "analysed">>,
            <<"analysed", "entered">>, <<"entered", "simulated">>, <<"simulated", "executed">>}

\* An analysis changes its own attribute only and is followed by the next one.
LEMMA Frame ==
    ASSUME AnalysisTypeOK, [ExprNext]_allVars
    PROVE  /\ program' = program /\ AnalysisTypeOK'
           /\ \A f \in Fns : Keeps(f, IF phase = "called" THEN {"called", "static"} ELSE {phase})
           /\ \/ phase' = phase \/ phase' = "rejected"
              \/ <<phase, phase'>> \in Follows /\ at' = 1
  <1>. DEFINE Framed ==
           /\ program' = program
           /\ attr' = [f \in Fns |-> attr'[f]] /\ \A f \in Fns : IsSummary(attr[f])'
           /\ \A f \in Fns : Keeps(f, IF phase = "called" THEN {"called", "static"} ELSE {phase})
           /\ at' \in Fns /\ fixed' \in BOOLEAN
           /\ \/ phase' = phase /\ (phase \notin InPlace => at' = at)
              \/ phase' = "rejected" /\ phase \notin InPlace /\ at' = at
              \/ <<phase, phase'>> \in Follows /\ at' = 1
  <1>1. /\ program \in Programs /\ at \in Fns /\ fixed \in BOOLEAN /\ (phase \notin InPlace => at = 1)
        /\ attr = [f \in Fns |-> attr[f]] /\ \A f \in Fns : IsSummary(attr[f])
    BY DEF AnalysisTypeOK
  <1>2. ASSUME Search
        PROVE  Framed
    <2>1. phase = "called"
      BY <1>2 DEF Search
    <2>2. \A f \in Fns : Keeps(f, {"called", "static"})
      BY <1>2, SearchSteps DEF Keeps
    <2>. QED BY <1>1, <1>2, <2>1, <2>2, SearchSteps DEF InPlace
  <1>3. ASSUME EndSearch
        PROVE  Framed
    <2>1. phase = "called"
      BY <1>3 DEF EndSearch
    <2>2. \A f \in Fns : Keeps(f, {"called", "static"})
      BY <1>3, EndSearchSteps DEF Keeps
    <2>. QED BY <1>1, <1>3, <2>1, <2>2, EndSearchSteps DEF InPlace, Visits, Follows
  <1>4. ASSUME DetectDynamicBody
        PROVE  Framed
    <2>1. phase = "static"
      BY <1>4 DEF DetectDynamicBody
    <2>2. \A f \in Fns : Keeps(f, {"static"})
      BY <1>4, DetectDynamicBodySteps DEF Keeps
    <2>. QED BY <1>1, <1>4, <2>1, <2>2, DetectDynamicBodySteps DEF InPlace, Visits, Follows
  <1>5. ASSUME PropagateSets
        PROVE  Framed
    <2>1. phase = "sets"
      BY <1>5 DEF PropagateSets
    <2>2. \A f \in Fns : Keeps(f, {"sets"})
      BY <1>5, PropagateSetsSteps DEF Keeps
    <2>. QED BY <1>1, <1>5, <2>1, <2>2, PropagateSetsSteps DEF InPlace, Visits, Follows
  <1>6. ASSUME DetectInlineable
        PROVE  Framed
    <2>1. phase = "inlineable"
      BY <1>6 DEF DetectInlineable
    <2>2. \A f \in Fns : Keeps(f, {"inlineable"})
      BY <1>6, DetectInlineableSteps DEF Keeps
    <2>. QED BY <1>1, <1>6, <2>1, <2>2, DetectInlineableSteps DEF InPlace, Visits, Follows
  <1>7. ASSUME DetectHybrid
        PROVE  Framed
    <2>1. phase = "hybrid"
      BY <1>7 DEF DetectHybrid
    <2>2. \A f \in Fns : Keeps(f, {"hybrid"})
      BY <1>7, DetectHybridSteps DEF Keeps
    <2>. QED BY <1>1, <1>7, <2>1, <2>2, DetectHybridSteps DEF InPlace, Visits, Follows
  <1>8. ASSUME \E h \in Fns : PropagateHoms(h)
        PROVE  Framed
    <2>1. phase = "homs"
      BY <1>8 DEF PropagateHoms
    <2>. QED BY <1>1, <1>8, <2>1, PropagateHomsSteps DEF InPlace
  <1>9. ASSUME SetBackends
        PROVE  Framed
    <2>1. phase = "homs"
      BY <1>9 DEF SetBackends
    <2>2. \A f \in Fns : Keeps(f, {"homs"})
      BY <1>9, SetBackendsSteps DEF Keeps
    <2>. QED BY <1>1, <1>9, <2>1, <2>2, SetBackendsSteps DEF InPlace, Follows
  <1>10. ASSUME CheckEvalOrder \/ CheckCompliance \/ CheckLoops
                 \/ TypeCheck \/ Enter \/ Simulate \/ Combine
        PROVE  Framed
    <2>1. \A f \in Fns : Keeps(f, {phase}) /\ Keeps(f, {"called", "static"})
      BY <1>10, CheckSteps DEF Keeps
    <2>. QED BY <1>1, <1>10, <2>1, CheckSteps DEF InPlace, Follows, IsSummary
  <1>11. ASSUME UNCHANGED analysisVars
        PROVE  Framed
    BY <1>1, <1>11 DEF analysisVars, Keeps, IsSummary
  <1>12. Framed
    <2>1. CASE \E i \in DOMAIN operands : EvaluateOperand(i)
      BY <2>1, <1>11 DEF EvaluateOperand
    <2>2. CASE UNCHANGED allVars
      BY <2>2, <1>11 DEF allVars
    <2>. QED BY <2>1, <2>2, <1>2, <1>3, <1>4, <1>5, <1>6, <1>7, <1>8, <1>9, <1>10
             DEF ExprNext, Analyse
  <1>13. /\ Fns' = Fns /\ program' \in Programs /\ phase \in Range(Phases) \cup {"rejected"}
         /\ (\A f \in Fns' : IsSummary(attr[f])') /\ attr' = [f \in Fns' |-> attr'[f]]
    BY <1>1, <1>12 DEF Fns, AnalysisTypeOK
  <1>14. phase' \in Range(Phases)' \cup {"rejected"} /\ (phase' \notin InPlace' => at' = 1)
    <2>1. Range(Phases)' = Range(Phases)
      BY DEF Range, Phases
    <2>2. InPlace' = InPlace
      BY DEF InPlace
    <2>3. CASE <<phase, phase'>> \in Follows
      BY <2>1, <2>2, <2>3, <1>12, PastPhases DEF Follows
    <2>. QED BY <2>1, <2>2, <2>3, <1>1, <1>12, <1>13
  <1>. QED BY <1>12, <1>13, <1>14 DEF AnalysisTypeOK


\* Another analysis does not change which functions an analysis has visited.
LEMMA DoneKept ==
    ASSUME AnalysisTypeOK, [ExprNext]_allVars, NEW p \in InPlace, phase # p, phase' # "rejected",
           NEW f \in Fns
    PROVE  /\ Done(p, f)' <=> Done(p, f)
           /\ phase' = p => ~Done(p, f)' /\ at' = 1
  <1>1. f \in Nat \ {0} /\ phase \in Range(Phases) \cup {"rejected"}
    BY Numbered DEF AnalysisTypeOK
  <1>2. (phase' = phase) \/ (<<phase, phase'>> \in Follows /\ at' = 1)
    BY Frame
  <1>3. CASE phase' = phase
    <2>1. Past(p)' <=> Past(p)
      BY <1>3 DEF Past, Phases
    <2>. QED BY <2>1, <1>3 DEF Done
  <1>4. CASE <<phase, phase'>> \in Follows /\ at' = 1
    <2>1. CASE p = "called"
      BY <1>1, <1>4, <2>1, PastPhases, PastNext DEF Done, Follows
    <2>2. CASE p = "static"
      BY <1>1, <1>4, <2>2, PastPhases, PastNext DEF Done, Follows
    <2>3. CASE p = "sets"
      BY <1>1, <1>4, <2>3, PastPhases, PastNext DEF Done, Follows
    <2>4. CASE p = "inlineable"
      BY <1>1, <1>4, <2>4, PastPhases, PastNext DEF Done, Follows
    <2>5. CASE p = "hybrid"
      BY <1>1, <1>4, <2>5, PastPhases, PastNext DEF Done, Follows
    <2>. QED BY <2>1, <2>2, <2>3, <2>4, <2>5 DEF InPlace
  <1>. QED BY <1>2, <1>3, <1>4

\* The visited function is done after its visit, the others as before.
LEMMA DoneVisited ==
    ASSUME AnalysisTypeOK, NEW p, NEW q, phase = p, Visits(q),
           <<p, q>> \in {<<"called", "static">>, <<"static", "sets">>,
                         <<"inlineable", "compliance">>, <<"hybrid", "loops">>}
    PROVE  \A f \in Fns : /\ Done(p, f)' <=> Done(p, f) \/ f = at
                          /\ Done(p, f) <=> f < at
                          /\ p # "called" => Done("called", f) /\ Done("called", f)'
                          /\ p = "called" => ~Done("static", f) /\ ~Done("static", f)'
  <1>1. Fns = 1 .. Len(program.fns) /\ Len(program.fns) \in Nat /\ at \in Fns
    BY Numbered DEF AnalysisTypeOK
  <1>2. /\ Past(p) <=> FALSE
        /\ Past(p)' <=> phase' = q
    <2>1. CASE p = "called"
      BY <2>1, PastPhases, PastNext DEF Visits
    <2>2. CASE p = "static"
      BY <2>2, PastPhases, PastNext DEF Visits
    <2>3. CASE p = "inlineable"
      BY <2>3, PastPhases, PastNext DEF Visits
    <2>4. CASE p = "hybrid"
      BY <2>4, PastPhases, PastNext DEF Visits
    <2>. QED BY <2>1, <2>2, <2>3, <2>4
  <1>3. ASSUME NEW f \in Fns
        PROVE  (Done(p, f)' <=> Done(p, f) \/ f = at) /\ (Done(p, f) <=> f < at)
    BY <1>1, <1>2 DEF Done, Visits
  <1>4. ASSUME NEW f \in Fns
        PROVE  /\ p # "called" => Done("called", f) /\ Done("called", f)'
               /\ p = "called" => ~Done("static", f) /\ ~Done("static", f)'
    BY <1>1, PastPhases, PastNext DEF Done, Visits
  <1>. QED BY <1>3, <1>4


-----------------------------------------------------------------------------
(* Called functions and recursion                                          *)

\* A callee of a leaf is known or a new leaf.
LEMMA LeavesCall ==
    ASSUME NEW g \in leaves
    PROVE  attr[g].called \subseteq attr[at].called \cup NewLeaves
  <1>1. attr[g].called \in {attr[h].called : h \in leaves}
    OBVIOUS
  <1>2. attr[g].called \subseteq UNION {attr[h].called : h \in leaves}
    BY <1>1
  <1>. QED BY <1>2 DEF NewLeaves

\* Called functions are between the directly called and the reached ones.
LEMMA CalledBounds ==
    ASSUME AnalysisTypeOK, NEW f \in Fns, CalledOK(f)
    PROVE  Direct(f) \subseteq attr[f].called /\ attr[f].called \subseteq Reached(f)
  <1>1. Direct(f) \subseteq Reached(f)
    BY ReachedClosed DEF AnalysisTypeOK
  <1>2. \/ attr[f].called = Reached(f) \/ attr[f].called = Direct(f)
        \/ Direct(f) \subseteq attr[f].called /\ attr[f].called \subseteq Reached(f)
    BY DEF CalledOK
  <1>. QED BY <1>1, <1>2

\* An iteration of the search adds what the leaves call, which is reached.
LEMMA SearchCalled ==
    ASSUME AnalysisTypeOK, \A f \in Fns : CalledOK(f), Search, NEW f \in Fns
    PROVE  CalledOK(f)'
  <1>1. /\ phase = "called" /\ leaves' = NewLeaves /\ program \in Programs /\ at \in Fns
        /\ attr'[at].called = attr[at].called \cup NewLeaves
        /\ program' = program /\ at' = at /\ phase' = phase
    BY SearchSteps DEF Search, AnalysisTypeOK
  <1>2. /\ Done("called", f)' <=> Done("called", f)
        /\ Direct(f)' = Direct(f) /\ Reached(f)' = Reached(f)
        /\ \A g : Direct(g)' = Direct(g)
    <2>1. Past("called")' <=> Past("called")
      BY <1>1, PastPhases, PastNext
    <2>. QED BY <1>1, <2>1, ProgramKept DEF Done
  <1>3. CASE f # at
    <2>1. attr'[f].called = attr[f].called /\ attr'[f].recursive = attr[f].recursive
      BY <1>3, SearchSteps DEF Keeps
    <2>. QED BY <1>1, <1>2, <1>3, <2>1 DEF CalledOK
  <1>4. CASE f = at
    <2>1. ~Done("called", at)
      BY <1>1, PastPhases, Numbered DEF Done
    <2>2. /\ Direct(at) \subseteq attr[at].called /\ attr[at].called \subseteq Reached(at)
          /\ leaves \subseteq attr[at].called
          /\ \A g \in attr[at].called \ leaves : Direct(g) \subseteq attr[at].called
      BY <1>1, <2>1 DEF CalledOK
    <2>3. ASSUME NEW g \in leaves
          PROVE  /\ g \in Fns /\ attr[g].called \subseteq Reached(at)
                 /\ Direct(g) \subseteq attr[g].called
      <3>1. g \in Reached(at) /\ g \in Fns
        BY <1>1, <2>2, ReachedClosed
      <3>. QED BY <1>1, <3>1, ReachedTransitive, CalledBounds
    <2>4. NewLeaves \subseteq Reached(at)
      BY <2>3 DEF NewLeaves
    <2>5. \A g \in leaves : Direct(g) \subseteq attr'[at].called
      BY <1>1, <2>3, LeavesCall
    <2>6. \A g \in attr'[at].called \ leaves' : Direct(g) \subseteq attr'[at].called
      BY <1>1, <2>2, <2>5
    <2>. QED BY <1>1, <1>2, <1>4, <2>1, <2>2, <2>4, <2>6 DEF CalledOK
  <1>. QED BY <1>3, <1>4

\* When an iteration finds nothing new, everything reached has been found.
LEMMA FoundAll ==
    ASSUME AnalysisTypeOK, \A f \in Fns : CalledOK(f), phase = "called", NewLeaves = {}
    PROVE  attr[at].called = Reached(at)
  <1>1. program \in Programs /\ at \in Fns
    BY DEF AnalysisTypeOK
  <1>2. ~Done("called", at)
    BY <1>1, PastPhases, Numbered DEF Done
  <1>3. /\ Direct(at) \subseteq attr[at].called /\ attr[at].called \subseteq Reached(at)
        /\ leaves \subseteq attr[at].called
        /\ \A g \in attr[at].called \ leaves : Direct(g) \subseteq attr[at].called
    BY <1>1, <1>2 DEF CalledOK
  <1>4. \A g \in leaves : Direct(g) \subseteq attr[at].called
    <2>1. leaves \subseteq Fns
      BY <1>1, <1>3, ReachedClosed
    <2>. QED BY <2>1, CalledBounds, LeavesCall
  <1>. QED BY <1>1, <1>3, <1>4, ReachedLeast

\* The visited function is complete, the next one begins with its own calls.
LEMMA EndSearchCalled ==
    ASSUME AnalysisTypeOK, \A f \in Fns : CalledOK(f), EndSearch, NEW f \in Fns
    PROVE  CalledOK(f)'
  <1>1. phase = "called" /\ NewLeaves = {} /\ program \in Programs /\ at \in Fns
    BY DEF EndSearch, AnalysisTypeOK
  <1>2. /\ Visits("static") /\ program' = program
        /\ leaves' = IF at < Len(program.fns) THEN attr'[at + 1].called ELSE {}
        /\ attr'[at].called = Reached(at) /\ (attr'[at].recursive <=> at \in Reached(at))
    BY <1>1, EndSearchSteps, FoundAll DEF Visits
  <1>3. /\ Done("called", f)' <=> Done("called", f) \/ f = at
        /\ Done("called", f) <=> f < at
    BY <1>1, <1>2, DoneVisited
  <1>4. /\ Direct(f)' = Direct(f) /\ Reached(f)' = Reached(f) /\ \A g : Direct(g)' = Direct(g)
        /\ Direct(f) \subseteq Reached(f)
    BY <1>1, <1>2, ProgramKept, ReachedClosed
  <1>5. CASE f = at
    BY <1>2, <1>3, <1>4, <1>5 DEF CalledOK
  <1>6. CASE f # at
    <2>1. attr'[f].called = attr[f].called /\ attr'[f].recursive = attr[f].recursive
      BY <1>6, EndSearchSteps DEF Keeps
    <2>2. CASE f < at
      BY <1>3, <1>4, <2>1, <2>2 DEF CalledOK
    <2>3. CASE ~(f < at)
      <3>1. attr'[f].called = Direct(f)
        BY <1>3, <1>6, <2>1, <2>3 DEF CalledOK
      <3>2. phase' = "called" /\ f = at' => leaves' = Direct(f)
        BY <1>1, <1>2, <3>1, Numbered DEF Visits
      <3>. QED BY <1>3, <1>4, <1>6, <2>3, <3>1, <3>2 DEF CalledOK
    <2>. QED BY <2>2, <2>3
  <1>. QED BY <1>5, <1>6

\* Every step preserves what is known of called functions.
LEMMA CalledInvariant ==
    ASSUME AnalysisTypeOK, \A f \in Fns : CalledOK(f), [ExprNext]_allVars,
           phase # "rejected", phase' # "rejected", NEW f \in Fns
    PROVE  CalledOK(f)'
  <1>1. CASE phase # "called"
    <2>1. Done("called", f) /\ Done("called", f)'
      <3>1. phase \in Range(Phases) \ {"called"}
        BY <1>1 DEF AnalysisTypeOK
      <3>. QED BY <1>1, <3>1, DoneKept, PastPhases DEF Done, InPlace
    <2>2. /\ Keeps(f, {phase}) /\ Reached(f)' = Reached(f)
      BY <1>1, Frame, ProgramKept
    <2>. QED BY <1>1, <2>1, <2>2 DEF Keeps, CalledOK
  <1>2. CASE phase = "called"
    <2>1. Search \/ EndSearch \/ UNCHANGED analysisVars
      BY <1>2 DEF ExprNext, Analyse, DetectDynamicBody, PropagateSets, CheckEvalOrder,
                  DetectInlineable, CheckCompliance, DetectHybrid, CheckLoops, PropagateHoms,
                  SetBackends, TypeCheck, Enter, Simulate, EvaluateOperand, Combine, allVars
    <2>2. CASE UNCHANGED analysisVars
      BY <2>2 DEF analysisVars, CalledOK, Done, Past, Direct, CallItems, Body, Reached, Closed, Fns
    <2>. QED BY <2>1, <2>2, SearchCalled, EndSearchCalled
  <1>. QED BY <1>1, <1>2


-----------------------------------------------------------------------------
(* Functions without loops and recursion, functions a circuit may inline,  *)
(* functions that need verification                                        *)

\* Only these actions belong to their analyses.
LEMMA Actions ==
    ASSUME [ExprNext]_allVars
    PROVE  /\ phase = "static" => DetectDynamicBody \/ UNCHANGED analysisVars
           /\ phase = "sets" => PropagateSets \/ UNCHANGED analysisVars
           /\ phase = "inlineable" => DetectInlineable \/ UNCHANGED analysisVars
           /\ phase = "hybrid" => DetectHybrid \/ UNCHANGED analysisVars
           /\ phase = "compliance" => CheckCompliance \/ UNCHANGED analysisVars
           /\ phase = "loops" => CheckLoops \/ UNCHANGED analysisVars
           /\ phase = "homs" => \/ \E f \in Fns : PropagateHoms(f)
                                \/ SetBackends
                                \/ UNCHANGED analysisVars
  BY DEF ExprNext, Analyse, Search, EndSearch, DetectDynamicBody, PropagateSets, CheckEvalOrder,
         DetectInlineable, CheckCompliance, DetectHybrid, CheckLoops, PropagateHoms,
         SetBackends, TypeCheck, Enter, Simulate, EvaluateOperand, Combine, allVars

\* A finished callee and an unfinished one tell the visited function the same.
LEMMA StaticInvariant ==
    ASSUME AnalysisTypeOK, \A f \in Fns : CalledOK(f) /\ StaticOK(f), [ExprNext]_allVars,
           phase # "rejected", phase' # "rejected", NEW f \in Fns
    PROVE  StaticOK(f)'
  <1>1. /\ program' = program /\ program \in Programs /\ at \in Fns
        /\ Static(f)' = Static(f) /\ StaticAlone(f)' = StaticAlone(f)
        /\ DirectlyStatic(f)' = DirectlyStatic(f)
    BY Frame, ProgramKept DEF AnalysisTypeOK
  <1>2. CASE phase \notin {"called", "static"}
    <2>1. attr'[f].static = attr[f].static
      BY <1>2, Frame DEF Keeps
    <2>2. Done("static", f)' <=> Done("static", f)
      BY <1>2, DoneKept DEF InPlace
    <2>3. Done("called", f)' <=> Done("called", f)
      BY <1>2, DoneKept DEF InPlace
    <2>. QED BY <1>1, <2>1, <2>2, <2>3 DEF StaticOK
  <1>3. CASE UNCHANGED analysisVars
    <2>1. /\ Done("static", f)' <=> Done("static", f)
          /\ Done("called", f)' <=> Done("called", f)
      BY <1>3 DEF analysisVars, Done, Past, Phases
    <2>. QED BY <1>1, <1>3, <2>1 DEF analysisVars, StaticOK
  <1>4. CASE Search
    <2>1. attr'[f].static = attr[f].static /\ phase' = phase /\ at' = at
      BY <1>4, SearchSteps DEF Keeps
    <2>2. /\ Done("static", f)' <=> Done("static", f)
          /\ Done("called", f)' <=> Done("called", f)
      BY <2>1 DEF Done, Past, Phases
    <2>. QED BY <1>1, <2>1, <2>2 DEF StaticOK
  <1>5. CASE EndSearch
    <2>1. phase = "called" /\ NewLeaves = {} /\ Visits("static")
      BY <1>5, EndSearchSteps DEF EndSearch
    <2>2. /\ Done("called", f)' <=> Done("called", f) \/ f = at
          /\ Done("called", f) <=> f < at
          /\ ~Done("static", f) /\ ~Done("static", f)'
      BY <2>1, DoneVisited
    <2>3. CASE f # at
      <3>1. attr'[f].static = attr[f].static
        BY <1>5, <2>3, EndSearchSteps DEF Keeps
      <3>. QED BY <1>1, <2>2, <2>3, <3>1 DEF StaticOK
    <2>4. CASE f = at
      <3>1. ~Done("called", f) /\ (attr[f].static <=> DirectlyStatic(f))
        BY <2>2, <2>4, Numbered, <1>1 DEF StaticOK
      <3>2. attr'[f].static <=> attr[f].static /\ f \notin Reached(f)
        BY <1>5, <2>1, <2>4, EndSearchSteps, FoundAll
      <3>. QED BY <1>1, <2>2, <2>4, <3>1, <3>2 DEF StaticOK, StaticAlone
    <2>. QED BY <2>3, <2>4
  <1>6. CASE DetectDynamicBody
    <2>1. phase = "static" /\ Visits("sets")
      BY <1>6, DetectDynamicBodySteps DEF DetectDynamicBody
    <2>2. \A g \in Fns : /\ Done("static", g)' <=> Done("static", g) \/ g = at
                         /\ Done("static", g) <=> g < at
                         /\ Done("called", g) /\ Done("called", g)'
      BY <2>1, DoneVisited
    <2>3. CASE f # at
      <3>1. attr'[f].static = attr[f].static
        BY <1>6, <2>3, DetectDynamicBodySteps DEF Keeps
      <3>. QED BY <1>1, <2>2, <2>3, <3>1 DEF StaticOK
    <2>4. CASE f = at
      <3>1. attr[at].called = Reached(at) /\ (attr[at].static <=> StaticAlone(at))
        BY <1>1, <2>2, Numbered DEF CalledOK, StaticOK
      <3>2. \A g \in Reached(at) :
                g \in Fns /\ ((attr[g].static <=> Static(g)) \/ (attr[g].static <=> StaticAlone(g)))
        BY <1>1, <2>2, ReachedClosed DEF StaticOK
      <3>3. attr'[at].static <=> attr[at].static /\ \A g \in Reached(at) : attr[g].static
        BY <1>6, <3>1, DetectDynamicBodySteps
      <3>4. \A g \in Reached(at) : Static(g) => StaticAlone(g)
        BY <1>1, <3>2, RunsClosed DEF Static
      <3>5. Static(at) => \A g \in Reached(at) : Static(g)
        BY <1>1, RunsClosed DEF Static
      <3>6. Static(at) <=> StaticAlone(at) /\ \A g \in Reached(at) : StaticAlone(g)
        BY <1>1, RunsClosed DEF Static
      <3>7. attr'[at].static <=> Static(at)
        BY <3>1, <3>2, <3>3, <3>4, <3>5, <3>6
      <3>. QED BY <1>1, <2>2, <2>4, <3>7 DEF StaticOK
    <2>. QED BY <2>3, <2>4
  <1>7. phase = "called" => Search \/ EndSearch \/ UNCHANGED analysisVars
    BY DEF ExprNext, Analyse, DetectDynamicBody, PropagateSets, CheckEvalOrder,
           DetectInlineable, CheckCompliance, DetectHybrid, CheckLoops, PropagateHoms,
           SetBackends, TypeCheck, Enter, Simulate, EvaluateOperand, Combine, allVars
  <1>. QED BY <1>2, <1>3, <1>4, <1>5, <1>6, <1>7, Actions

\* So they do for what may be inlined.
LEMMA InlineableInvariant ==
    ASSUME AnalysisTypeOK, \A f \in Fns : CalledOK(f) /\ InlineableOK(f), [ExprNext]_allVars,
           phase # "rejected", phase' # "rejected", NEW f \in Fns
    PROVE  InlineableOK(f)'
  <1>1. /\ program' = program /\ program \in Programs /\ at \in Fns
        /\ Inlineable(f)' = Inlineable(f) /\ DirectlyInlineable(f)' = DirectlyInlineable(f)
    BY Frame, ProgramKept DEF AnalysisTypeOK
  <1>2. CASE phase # "inlineable"
    <2>1. attr'[f].inlineable = attr[f].inlineable
      BY <1>2, Frame DEF Keeps
    <2>2. Done("inlineable", f)' <=> Done("inlineable", f)
      BY <1>2, DoneKept DEF InPlace
    <2>. QED BY <1>1, <2>1, <2>2 DEF InlineableOK
  <1>3. CASE UNCHANGED analysisVars
    <2>1. Done("inlineable", f)' <=> Done("inlineable", f)
      BY <1>3 DEF analysisVars, Done, Past, Phases
    <2>. QED BY <1>1, <1>3, <2>1 DEF analysisVars, InlineableOK
  <1>4. CASE DetectInlineable
    <2>1. phase = "inlineable" /\ Visits("compliance")
      BY <1>4, DetectInlineableSteps DEF DetectInlineable
    <2>2. \A g \in Fns : /\ Done("inlineable", g)' <=> Done("inlineable", g) \/ g = at
                         /\ Done("inlineable", g) <=> g < at
                         /\ Done("called", g)
      BY <2>1, DoneVisited
    <2>3. CASE f # at
      <3>1. attr'[f].inlineable = attr[f].inlineable
        BY <1>4, <2>3, DetectInlineableSteps DEF Keeps
      <3>. QED BY <1>1, <2>2, <2>3, <3>1 DEF InlineableOK
    <2>4. CASE f = at
      <3>1. attr[at].called = Reached(at) /\ (attr[at].inlineable <=> DirectlyInlineable(at))
        BY <1>1, <2>2, Numbered DEF CalledOK, InlineableOK
      <3>2. \A g \in Reached(at) :
                g \in Fns /\ (\/ attr[g].inlineable <=> Inlineable(g)
                              \/ attr[g].inlineable <=> DirectlyInlineable(g))
        BY <1>1, <2>2, ReachedClosed DEF InlineableOK
      <3>3. attr'[at].inlineable <=>
                attr[at].inlineable /\ \A g \in Reached(at) : attr[g].inlineable
        BY <1>4, <3>1, DetectInlineableSteps
      <3>4. \A g \in Reached(at) : Inlineable(g) => DirectlyInlineable(g)
        BY <1>1, <3>2, RunsClosed DEF Inlineable
      <3>5. Inlineable(at) => \A g \in Reached(at) : Inlineable(g)
        BY <1>1, RunsClosed DEF Inlineable
      <3>6. Inlineable(at) <=>
                DirectlyInlineable(at) /\ \A g \in Reached(at) : DirectlyInlineable(g)
        BY <1>1, RunsClosed DEF Inlineable
      <3>7. attr'[at].inlineable <=> Inlineable(at)
        BY <3>1, <3>2, <3>3, <3>4, <3>5, <3>6
      <3>. QED BY <1>1, <2>2, <2>4, <3>7 DEF InlineableOK
    <2>. QED BY <2>3, <2>4
  <1>. QED BY <1>2, <1>3, <1>4, Actions

\* And for the functions that need verification.
LEMMA VerifInvariant ==
    ASSUME AnalysisTypeOK, \A f \in Fns : CalledOK(f) /\ VerifOK(f), [ExprNext]_allVars,
           phase # "rejected", phase' # "rejected", NEW f \in Fns
    PROVE  VerifOK(f)'
  <1>1. /\ program' = program /\ program \in Programs /\ at \in Fns
        /\ Verif(f)' = Verif(f) /\ PrivateItems(f)' = PrivateItems(f)
    BY Frame, ProgramKept DEF AnalysisTypeOK
  <1>2. CASE phase # "hybrid"
    <2>1. attr'[f].verif = attr[f].verif /\ attr'[f].verifExt = attr[f].verifExt
      BY <1>2, Frame DEF Keeps
    <2>2. Done("hybrid", f)' <=> Done("hybrid", f)
      BY <1>2, DoneKept DEF InPlace
    <2>. QED BY <1>1, <2>1, <2>2 DEF VerifOK
  <1>3. CASE UNCHANGED analysisVars
    <2>1. Done("hybrid", f)' <=> Done("hybrid", f)
      BY <1>3 DEF analysisVars, Done, Past, Phases
    <2>. QED BY <1>1, <1>3, <2>1 DEF analysisVars, VerifOK
  <1>4. CASE DetectHybrid
    <2>1. phase = "hybrid" /\ Visits("loops")
      BY <1>4, DetectHybridSteps DEF DetectHybrid
    <2>2. \A g \in Fns : /\ Done("hybrid", g)' <=> Done("hybrid", g) \/ g = at
                         /\ Done("hybrid", g) <=> g < at
                         /\ Done("called", g)
      BY <2>1, DoneVisited
    <2>3. CASE f # at
      <3>1. attr'[f].verif = attr[f].verif /\ attr'[f].verifExt = attr[f].verifExt
        BY <1>4, <2>3, DetectHybridSteps DEF Keeps
      <3>. QED BY <1>1, <2>2, <2>3, <3>1 DEF VerifOK
    <2>4. CASE f = at
      <3>1. /\ attr[at].called = Reached(at) /\ (attr[at].verif <=> PrivateItems(at) # {})
            /\ attr[at].verifExt <=>
                   program.fns[at].external
                       /\ (PrivateItems(at) # {} \/ program.fns[at].params # {})
        BY <1>1, <2>2, Numbered DEF CalledOK, VerifOK
      <3>2. \A g \in Reached(at) :
                g \in Fns /\ ((attr[g].verif <=> Verif(g)) \/ (attr[g].verif <=> PrivateItems(g) # {}))
        BY <1>1, <2>2, ReachedClosed DEF VerifOK
      <3>. DEFINE found == \E g \in Reached(at) : attr[g].verif
      <3>3. /\ attr'[at].verif <=> attr[at].verif \/ found
            /\ attr'[at].verifExt <=> attr[at].verifExt \/ (found /\ program.fns[at].external)
        BY <1>4, <3>1, DetectHybridSteps
      <3>4. \A g \in Reached(at) : PrivateItems(g) # {} => Verif(g)
        BY <1>1, <3>2, RunsClosed DEF Verif
      <3>5. (\E g \in Reached(at) : Verif(g)) => Verif(at)
        BY <1>1, RunsClosed DEF Verif
      <3>6. Verif(at) <=> PrivateItems(at) # {} \/ \E g \in Reached(at) : PrivateItems(g) # {}
        BY <1>1, RunsClosed DEF Verif
      <3>7. Verif(at) <=> attr[at].verif \/ found
        BY <3>1, <3>2, <3>4, <3>5, <3>6
      <3>. QED BY <1>1, <2>2, <2>4, <3>1, <3>3, <3>7 DEF VerifOK
    <2>. QED BY <2>3, <2>4
  <1>. QED BY <1>2, <1>3, <1>4, Actions


-----------------------------------------------------------------------------
(* Read and modified values                                                *)

\* The state variables a callee's runs read are those of its caller's runs too.
LEMMA SetsOfCallees ==
    ASSUME program \in Programs, NEW f \in Fns, NEW g \in Direct(f)
    PROVE  g \in Fns /\ OfState(ReadsOf(g)) \subseteq ReadsOf(f)
                     /\ OfState(ModsOf(g)) \subseteq ModsOf(f)
  <1>1. g \in Fns /\ g \in Reached(f) /\ Reached(g) \subseteq Reached(f)
    BY ReachedClosed, ReachedTransitive
  <1>2. ASSUME NEW v \in OfState(ReadsOf(g)) PROVE v \in ReadsOf(f)
    <2>1. v.var \in StateVars /\ v \in ReadsOf(g)
      BY DEF OfState
    <2>2. PICK h \in Reached(f) : v \in DirectlyRead(h)
      BY <1>1, <2>1 DEF ReadsOf, OfState
    <2>3. v \in OfState(DirectlyRead(h))
      BY <2>1, <2>2 DEF OfState
    <2>. QED BY <2>3 DEF ReadsOf
  <1>3. ASSUME NEW v \in OfState(ModsOf(g)) PROVE v \in ModsOf(f)
    <2>1. v.var \in StateVars /\ v \in ModsOf(g)
      BY DEF OfState
    <2>2. PICK h \in Reached(f) : v \in DirectlyModified(h)
      BY <1>1, <2>1 DEF ModsOf, OfState
    <2>3. v \in OfState(DirectlyModified(h))
      BY <2>1, <2>2 DEF OfState
    <2>. QED BY <2>3 DEF ModsOf
  <1>. QED BY <1>1, <1>2, <1>3

\* What the callees have is added to what the visited function has.
LEMMA WithCalleesBounds ==
    ASSUME AnalysisTypeOK, \A f \in Fns : SetsOK(f)
    PROVE  /\ attr[at].reads \subseteq WithCallees("reads")
           /\ WithCallees("reads") \subseteq ReadsOf(at)
           /\ attr[at].mods \subseteq WithCallees("mods")
           /\ WithCallees("mods") \subseteq ModsOf(at)
           /\ \A g \in Direct(at) : /\ OfState(attr[g].reads) \subseteq WithCallees("reads")
                                    /\ OfState(attr[g].mods) \subseteq WithCallees("mods")
  <1>1. program \in Programs /\ at \in Fns
    BY DEF AnalysisTypeOK
  <1>2. /\ attr[at].reads \subseteq ReadsOf(at) /\ attr[at].mods \subseteq ModsOf(at)
        /\ \A g \in Direct(at) : /\ OfState(attr[g].reads) \subseteq ReadsOf(at)
                                 /\ OfState(attr[g].mods) \subseteq ModsOf(at)
    BY <1>1, SetsOfCallees DEF SetsOK, OfState
  <1>3. /\ WithCallees("reads") =
               attr[at].reads \cup UNION {OfState(attr[g].reads) : g \in Direct(at)}
        /\ WithCallees("mods") =
               attr[at].mods \cup UNION {OfState(attr[g].mods) : g \in Direct(at)}
    BY DEF WithCallees
  <1>4. \A g \in Direct(at) :
            /\ OfState(attr[g].reads) \in {OfState(attr[h].reads) : h \in Direct(at)}
            /\ OfState(attr[g].mods) \in {OfState(attr[h].mods) : h \in Direct(at)}
    OBVIOUS
  <1>. QED BY <1>2, <1>3, <1>4

\* While a pass has changed nothing, the functions it visited lack nothing.
LEMMA SetsInvariant ==
    ASSUME AnalysisTypeOK, \A f \in Fns : SetsOK(f), [ExprNext]_allVars,
           phase # "rejected", phase' # "rejected", NEW f \in Fns
    PROVE  SetsOK(f)'
  <1>1. /\ program' = program /\ program \in Programs /\ at \in Fns
        /\ ReadsOf(f)' = ReadsOf(f) /\ DirectlyRead(f)' = DirectlyRead(f)
        /\ ModsOf(f)' = ModsOf(f) /\ DirectlyModified(f)' = DirectlyModified(f)
        /\ Direct(f)' = Direct(f) /\ Direct(f) \subseteq Fns
        /\ \A values : OfState(values)' = OfState(values)
    BY Frame, ProgramKept, Numbered DEF AnalysisTypeOK, OfState
  <1>2. CASE phase # "sets"
    <2>1. \A g \in Fns : attr'[g].reads = attr[g].reads /\ attr'[g].mods = attr[g].mods
      BY <1>2, Frame DEF Keeps
    <2>2. Done("sets", f)' <=> Done("sets", f)
      BY <1>2, DoneKept DEF InPlace
    <2>3. phase' = "sets" => ~(f < at')
      BY <1>2, DoneKept, Numbered, <1>1 DEF InPlace
    <2>4. Past("sets")' => Past("sets")
      BY <1>2, <2>2 DEF Done
    <2>5. Closes(f) => Closes(f)'
      BY <1>1, <2>1 DEF Closes, OfState
    <2>. QED BY <1>1, <2>1, <2>3, <2>4, <2>5 DEF SetsOK
  <1>3. CASE UNCHANGED analysisVars
    <2>1. Past("sets")' <=> Past("sets")
      BY <1>3 DEF analysisVars, Past, Phases
    <2>2. Closes(f) => Closes(f)'
      BY <1>1, <1>3 DEF analysisVars, Closes, OfState
    <2>. QED BY <1>1, <1>3, <2>1, <2>2 DEF analysisVars, SetsOK
  <1>4. CASE PropagateSets
    <2>. DEFINE same == fixed /\ WithCallees("reads") = attr[at].reads
                              /\ WithCallees("mods") = attr[at].mods
    <2>1. /\ attr'[at].reads = WithCallees("reads") /\ attr'[at].mods = WithCallees("mods")
          /\ fixed' = (same \/ at = Len(program.fns))
          /\ Visits(IF same THEN "order" ELSE "sets")
          /\ \A g \in Fns : g # at => attr'[g].reads = attr[g].reads /\ attr'[g].mods = attr[g].mods
      BY <1>4, PropagateSetsSteps DEF Keeps
    <2>2. /\ DirectlyRead(f) \subseteq attr'[f].reads /\ attr'[f].reads \subseteq ReadsOf(f)
          /\ DirectlyModified(f) \subseteq attr'[f].mods /\ attr'[f].mods \subseteq ModsOf(f)
      BY <2>1, WithCalleesBounds DEF SetsOK
    <2>3. phase = "sets" /\ ~Past("sets")
      BY <1>4, PastPhases DEF PropagateSets
    <2>4. ASSUME Past("sets")' \/ (phase' = "sets" /\ fixed' /\ f < at')
          PROVE  same /\ (f < at \/ f = at)
      <3>1. f \in 1 .. Len(program.fns) /\ at \in 1 .. Len(program.fns) /\ Len(program.fns) \in Nat
        BY <1>1, Numbered
      <3>2. CASE at < Len(program.fns) /\ at' = at + 1 /\ phase' = phase
        <4>1. ~Past("sets")'
          BY <2>3, <3>2, PastNext
        <4>2. fixed' /\ f < at + 1 /\ at # Len(program.fns)
          BY <2>4, <3>1, <3>2, <4>1
        <4>3. same \/ at = Len(program.fns)
          BY <2>1, <4>2
        <4>. QED BY <3>1, <4>2, <4>3
      <3>3. CASE at = Len(program.fns) /\ at' = 1 /\ phase' = IF same THEN "order" ELSE "sets"
        <4>1. Past("sets")' <=> same
          BY <3>3, PastNext, PastPhases
        <4>. QED BY <2>4, <3>1, <3>3, <4>1
      <3>4. \/ at < Len(program.fns) /\ at' = at + 1 /\ phase' = phase
            \/ at = Len(program.fns) /\ at' = 1 /\ phase' = IF same THEN "order" ELSE "sets"
        BY <2>1 DEF Visits
      <3>. QED BY <3>2, <3>3, <3>4
    <2>5. ASSUME same, f < at \/ f = at PROVE Closes(f)'
      <3>1. \A g \in Fns : attr'[g].reads = attr[g].reads /\ attr'[g].mods = attr[g].mods
        BY <2>1, <2>5
      <3>2. Closes(f)
        <4>1. CASE f < at
          BY <2>3, <2>5, <4>1 DEF SetsOK
        <4>2. CASE f = at
          BY <2>5, <4>2, WithCalleesBounds DEF Closes
        <4>. QED BY <2>5, <4>1, <4>2
      <3>. QED BY <1>1, <3>1, <3>2 DEF Closes, OfState
    <2>. QED BY <1>1, <2>2, <2>4, <2>5 DEF SetsOK
  <1>. QED BY <1>2, <1>3, <1>4, Actions

\* When no function lacks what its callees have, each has what its runs use.
LEMMA SetsComplete ==
    ASSUME AnalysisTypeOK, \A f \in Fns : SetsOK(f) /\ Closes(f), NEW f \in Fns
    PROVE  attr[f].reads = ReadsOf(f) /\ attr[f].mods = ModsOf(f)
  <1>. DEFINE R == {g \in Fns : OfState(attr[g].reads) \subseteq attr[f].reads}
              M == {g \in Fns : OfState(attr[g].mods) \subseteq attr[f].mods}
  <1>1. program \in Programs /\ \A g \in Fns : Direct(g) \subseteq Fns
    BY Numbered DEF AnalysisTypeOK
  <1>2. Reached(f) \subseteq R
    <2>1. Direct(f) \subseteq R
      BY <1>1 DEF Closes
    <2>2. ASSUME NEW h \in R, NEW g \in Direct(h) PROVE g \in R
      BY <1>1 DEF Closes, OfState
    <2>. QED BY <1>1, <2>1, <2>2, ReachedLeast
  <1>3. Reached(f) \subseteq M
    <2>1. Direct(f) \subseteq M
      BY <1>1 DEF Closes
    <2>2. ASSUME NEW h \in M, NEW g \in Direct(h) PROVE g \in M
      BY <1>1 DEF Closes, OfState
    <2>. QED BY <1>1, <2>1, <2>2, ReachedLeast
  <1>4. \A g \in Reached(f) : OfState(DirectlyRead(g)) \subseteq attr[f].reads
    BY <1>2 DEF SetsOK, OfState
  <1>5. \A g \in Reached(f) : OfState(DirectlyModified(g)) \subseteq attr[f].mods
    BY <1>3 DEF SetsOK, OfState
  <1>6. ReadsOf(f) \subseteq attr[f].reads
    BY <1>4 DEF ReadsOf, SetsOK
  <1>7. ModsOf(f) \subseteq attr[f].mods
    BY <1>5 DEF ModsOf, SetsOK
  <1>. QED BY <1>6, <1>7 DEF SetsOK


-----------------------------------------------------------------------------
(* Homomorphisms                                                           *)

\* Who calls whom is settled after the first analysis.
LEMMA CalledSettled ==
    ASSUME AnalysisTypeOK, \A f \in Fns : CalledOK(f), Past("called")
    PROVE  \A f \in Fns : /\ attr[f].called = Reached(f)
                          /\ attr[f].recursive <=> f \in Reached(f)
  BY DEF CalledOK, Done

\* A caller may use the homomorphisms of what it reaches.
LEMMA HomsOfCallees ==
    ASSUME program \in Programs, NEW f \in Fns, NEW g \in Reached(f)
    PROVE  HomsOf(g) \subseteq HomsOf(f)
  <1>1. Runs(g) \subseteq Runs(f)
    BY RunsClosed
  <1>. QED BY <1>1 DEF HomsOf

\* A caller that grows enters the worklist, if it has callers itself.
LEMMA PropagateHomsInvariant ==
    ASSUME AnalysisTypeOK, \A f \in Fns : CalledOK(f) /\ HomsOK(f), NEW h \in Fns,
           PropagateHoms(h), NEW f \in Fns
    PROVE  HomsOK(f)'
  <1>1. /\ phase = "homs" /\ phase' = "homs" /\ h \in dirty /\ program' = program
        /\ program \in Programs
        /\ dirty' = (dirty \ {h}) \cup {g \in Callers(h) : Grows(g, h) /\ Callers(g) # {}}
        /\ \A g \in Fns : attr'[g].called = attr[g].called
        /\ \A g \in Fns : attr'[g].homs = IF g \in Callers(h) THEN attr[g].homs \cup attr[h].homs
                                          ELSE attr[g].homs
    BY PropagateHomsSteps DEF PropagateHoms, Keeps, AnalysisTypeOK
  <1>2. \A g \in Callers(h) : h \in Reached(g) /\ g \in Fns
    BY <1>1, PastPhases, CalledSettled DEF Callers
  <1>3. DirectHoms(f)' = DirectHoms(f) /\ HomsOf(f)' = HomsOf(f) /\ Fns' = Fns
    BY <1>1, ProgramKept
  <1>4. DirectHoms(f) \subseteq attr'[f].homs /\ attr'[f].homs \subseteq HomsOf(f)
    BY <1>1, <1>2, HomsOfCallees DEF HomsOK
  <1>5. Callers(f)' = Callers(f)
    BY <1>1, <1>3 DEF Callers
  <1>6. ASSUME f \notin dirty', NEW g \in Callers(f) PROVE attr'[f].homs \subseteq attr'[g].homs
    <2>1. g \in Fns /\ attr[g].homs \subseteq attr'[g].homs
      BY <1>1 DEF Callers
    <2>2. CASE f = h
      BY <1>1, <1>6, <2>1, <2>2
    <2>3. CASE f # h
      <3>1. attr[f].homs \subseteq attr[g].homs
        BY <1>1, <1>6, <2>3 DEF HomsOK
      <3>2. CASE f \in Callers(h)
        <4>1. ~Grows(f, h)
          BY <1>1, <1>6, <3>2
        <4>2. attr[h].homs \subseteq attr[f].homs
          BY <2>3, <4>1 DEF Grows
        <4>. QED BY <1>1, <2>1, <3>1, <3>2, <4>2
      <3>. QED BY <1>1, <2>1, <3>1, <3>2
    <2>. QED BY <2>2, <2>3
  <1>7. ~Past("homs")'
    BY <1>1, PastNext
  <1>. QED BY <1>3, <1>4, <1>5, <1>6, <1>7 DEF HomsOK

\* Every step preserves what is known of homomorphisms.
LEMMA HomsInvariant ==
    ASSUME AnalysisTypeOK, \A f \in Fns : CalledOK(f) /\ HomsOK(f), [ExprNext]_allVars,
           phase # "rejected", phase' # "rejected", NEW f \in Fns
    PROVE  HomsOK(f)'
  <1>1. /\ program' = program /\ program \in Programs /\ Fns' = Fns
        /\ HomsOf(f)' = HomsOf(f) /\ DirectHoms(f)' = DirectHoms(f)
    BY Frame, ProgramKept DEF AnalysisTypeOK
  <1>2. phase' = phase \/ <<phase, phase'>> \in Follows
    BY Frame
  <1>3. CASE phase \notin {"loops", "homs"}
    <2>1. \A g \in Fns : attr'[g].homs = attr[g].homs
      BY <1>3, Frame DEF Keeps
    <2>2. phase' # "homs"
      BY <1>2, <1>3 DEF Follows
    <2>3. Past("homs")' => Past("homs")
      BY <1>2, <1>3, PastPhases, PastNext DEF Follows
    <2>4. Past("homs") => Callers(f)' = Callers(f)
      <3>1. SUFFICES ASSUME Past("homs") PROVE Callers(f)' = Callers(f)
        OBVIOUS
      <3>2. phase # "called"
        BY <3>1, PastPhases
      <3>3. \A g \in Fns : attr'[g].called = attr[g].called
        BY <3>2, Frame DEF Keeps
      <3>. QED BY <1>1, <3>3 DEF Callers
    <2>5. \A g \in Callers(f) : g \in Fns
      BY DEF Callers
    <2>. QED BY <1>1, <2>1, <2>2, <2>3, <2>4, <2>5 DEF HomsOK
  <1>4. CASE UNCHANGED analysisVars
    <2>1. Past("homs")' <=> Past("homs")
      BY <1>4 DEF analysisVars, Past, Phases
    <2>2. Callers(f)' = Callers(f)
      BY <1>1, <1>4 DEF analysisVars, Callers
    <2>. QED BY <1>1, <1>4, <2>1, <2>2 DEF analysisVars, HomsOK
  <1>5. CASE CheckLoops
    <2>1. /\ attr' = attr /\ phase' = "homs"
          /\ dirty' = {g \in Fns : attr[g].homs # {} /\ Callers(g) # {}}
      BY <1>5 DEF CheckLoops
    <2>2. ~Past("homs")' /\ Callers(f)' = Callers(f)
      BY <1>1, <2>1, PastNext DEF Callers
    <2>3. f \notin dirty' => \A g \in Callers(f) : attr[f].homs \subseteq attr[g].homs
      BY <2>1
    <2>. QED BY <1>1, <2>1, <2>2, <2>3 DEF HomsOK
  <1>6. CASE SetBackends
    <2>1. /\ phase = "homs" /\ dirty = {}
          /\ \A g \in Fns : attr'[g].homs = attr[g].homs /\ attr'[g].called = attr[g].called
      BY <1>6, SetBackendsSteps DEF SetBackends, Keeps
    <2>2. Callers(f)' = Callers(f) /\ \A g \in Callers(f) : g \in Fns
      BY <1>1, <2>1 DEF Callers
    <2>. QED BY <1>1, <2>1, <2>2 DEF HomsOK
  <1>. QED BY <1>3, <1>4, <1>5, <1>6, Actions, PropagateHomsInvariant

\* When every caller has what its callees have, each has what its runs use.
LEMMA HomsComplete ==
    ASSUME AnalysisTypeOK, \A f \in Fns : CalledOK(f) /\ HomsOK(f), Past("homs"), NEW f \in Fns
    PROVE  attr[f].homs = HomsOf(f)
  <1>1. program \in Programs
    BY DEF AnalysisTypeOK
  <1>2. ASSUME NEW g \in Reached(f) PROVE DirectHoms(g) \subseteq attr[f].homs
    <2>1. g \in Fns
      BY <1>1, ReachedClosed
    <2>2. Past("called")
      BY PastPhases
    <2>3. f \in Callers(g)
      BY <2>2, CalledSettled DEF Callers
    <2>. QED BY <2>1, <2>3 DEF HomsOK
  <1>3. HomsOf(f) \subseteq attr[f].homs
    BY <1>1, <1>2, RunsClosed DEF HomsOf, HomsOK
  <1>. QED BY <1>3 DEF HomsOK

-----------------------------------------------------------------------------
(* Accepted programs                                                       *)

\* What a check accepted stays acceptable: its attributes are final.
LEMMA AcceptedInvariant ==
    ASSUME AnalysisTypeOK, \A f \in Fns : AcceptedOK(f), [ExprNext]_allVars,
           phase # "rejected", phase' # "rejected", NEW f \in Fns
    PROVE  AcceptedOK(f)'
  <1>1. /\ program' = program /\ program \in Programs /\ Fns' = Fns /\ Body(f)' = Body(f)
        /\ \A i \in Body(f) : i.k \in {"call", "privatecall"} => i.of \in Fns
    <2>1. program \in Programs
      BY DEF AnalysisTypeOK
    <2>. QED BY <2>1, Frame, ProgramKept, ProgramAssumption DEF Fns, Body
  <1>2. phase' = phase \/ <<phase, phase'>> \in Follows
    BY Frame
  <1>3. Past("compliance")' => Compliant(f)'
    <2>1. SUFFICES ASSUME Past("compliance")' PROVE Compliant(f)'
      OBVIOUS
    <2>2. phase \in {"compliance", "hybrid", "loops", "homs", "analysed",
                     "entered", "simulated", "executed"}
      BY <1>2, <2>1, PastNext DEF Follows
    <2>3. \A g \in Fns : attr'[g].static = attr[g].static
                         /\ attr'[g].inlineable = attr[g].inlineable
      BY <2>2, Frame DEF Keeps
    <2>4. Compliant(f)
      <3>1. CASE phase = "compliance"
        <4>1. CASE CheckCompliance
          BY <4>1 DEF CheckCompliance, Checked
        <4>2. CASE UNCHANGED analysisVars
          <5>1. phase' = "compliance"
            BY <3>1, <4>2 DEF analysisVars
          <5>. QED BY <2>1, <5>1, PastNext
        <4>. QED BY <3>1, <4>1, <4>2, Actions
      <3>2. CASE phase # "compliance"
        BY <2>2, <3>2, PastPhases DEF AcceptedOK
      <3>. QED BY <3>1, <3>2
    <2>. QED BY <1>1, <2>3, <2>4 DEF Compliant
  <1>4. Past("loops")' => \A i \in Body(f)' : (~NonInlineableCall(i) /\ ~PrivateInLoop(i))'
    <2>1. SUFFICES ASSUME Past("loops")'
                   PROVE  \A i \in Body(f)' : (~NonInlineableCall(i) /\ ~PrivateInLoop(i))'
      OBVIOUS
    <2>2. phase \in {"loops", "homs", "analysed", "entered", "simulated", "executed"}
      BY <1>2, <2>1, PastNext DEF Follows
    <2>3. \A g \in Fns : attr'[g].verif = attr[g].verif /\ attr'[g].recursive = attr[g].recursive
      BY <2>2, Frame DEF Keeps
    <2>4. \A i \in Body(f) : ~NonInlineableCall(i) /\ ~PrivateInLoop(i)
      <3>1. CASE phase = "loops"
        <4>1. CASE CheckLoops
          BY <4>1 DEF CheckLoops
        <4>2. CASE UNCHANGED analysisVars
          <5>1. phase' = "loops"
            BY <3>1, <4>2 DEF analysisVars
          <5>. QED BY <2>1, <5>1, PastNext
        <4>. QED BY <3>1, <4>1, <4>2, Actions
      <3>2. CASE phase # "loops"
        BY <2>2, <3>2, PastPhases DEF AcceptedOK
      <3>. QED BY <3>1, <3>2
    <2>. QED BY <1>1, <2>3, <2>4 DEF NonInlineableCall, PrivateInLoop
  <1>. QED BY <1>3, <1>4 DEF AcceptedOK


-----------------------------------------------------------------------------
(* The invariant                                                           *)

\* The bodies alone satisfy the invariant before the first analysis.
LEMMA AnalysisInitially == ExprInit => AnalysisInv
  <1>. SUFFICES ASSUME ExprInit PROVE AnalysisInv
    OBVIOUS
  <1>1. /\ program \in Programs /\ phase = "called" /\ at = 1 /\ fixed = TRUE
        /\ attr = [f \in Fns |-> Initial(f)] /\ leaves = Direct(1)
    BY DEF ExprInit, Init
  <1>2. 1 \in Fns /\ \A f \in Fns : f \in Nat \ {0} /\ program.fns[f].external \in BOOLEAN
    BY <1>1, Numbered
  <1>3. \A f \in Fns :
            /\ attr[f].called = Direct(f) /\ attr[f].recursive = FALSE
            /\ attr[f].static = DirectlyStatic(f)
            /\ attr[f].reads = DirectlyRead(f) /\ attr[f].mods = DirectlyModified(f)
            /\ attr[f].inlineable = DirectlyInlineable(f)
            /\ attr[f].verif = (PrivateItems(f) # {})
            /\ attr[f].verifExt = (program.fns[f].external
                                     /\ (PrivateItems(f) # {} \/ program.fns[f].params # {}))
            /\ attr[f].homs = DirectHoms(f)
    BY <1>1 DEF Initial
  <1>4. AnalysisTypeOK
    <2>1. ASSUME NEW f \in Fns PROVE IsSummary(attr[f])
      <3>1. attr[f] = Initial(f)
        BY <1>1
      <3>2. DirectlyStatic(f) \in BOOLEAN /\ DirectlyInlineable(f) \in BOOLEAN
        BY DEF DirectlyStatic, DirectlyInlineable
      <3>. QED BY <1>2, <3>1, <3>2 DEF Initial, IsSummary
    <2>. QED BY <1>1, <1>2, <2>1, PastPhases DEF AnalysisTypeOK, InPlace
  <1>5. /\ ~Past("called") /\ ~Past("static") /\ ~Past("sets") /\ ~Past("inlineable")
        /\ ~Past("compliance") /\ ~Past("hybrid") /\ ~Past("loops") /\ ~Past("homs")
    BY <1>1, PastPhases
  <1>6. \A f \in Fns : /\ ~Done("called", f) /\ ~Done("static", f)
                       /\ ~Done("inlineable", f) /\ ~Done("hybrid", f)
    BY <1>1, <1>2, <1>5 DEF Done
  <1>7. ASSUME NEW f \in Fns PROVE FnOK(f)
    <2>1. CalledOK(f)
      BY <1>1, <1>3, <1>6, ReachedClosed DEF CalledOK
    <2>2. StaticOK(f)
      BY <1>3, <1>6 DEF StaticOK
    <2>3. InlineableOK(f)
      BY <1>3, <1>6 DEF InlineableOK
    <2>4. VerifOK(f)
      BY <1>3, <1>6 DEF VerifOK
    <2>5. SetsOK(f)
      BY <1>1, <1>3, <1>5 DEF SetsOK, ReadsOf, ModsOf
    <2>6. HomsOK(f)
      BY <1>1, <1>3, <1>5, RunsClosed DEF HomsOK, HomsOf
    <2>7. AcceptedOK(f)
      BY <1>5 DEF AcceptedOK
    <2>. QED BY <2>1, <2>2, <2>3, <2>4, <2>5, <2>6, <2>7 DEF FnOK
  <1>. QED BY <1>4, <1>7 DEF AnalysisInv

\* Every step preserves the invariant.
LEMMA AnalysisStep == AnalysisInv /\ [ExprNext]_allVars => AnalysisInv'
  <1>. SUFFICES ASSUME AnalysisInv, [ExprNext]_allVars PROVE AnalysisInv'
    OBVIOUS
  <1>1. AnalysisTypeOK /\ AnalysisTypeOK' /\ program' = program /\ Fns' = Fns
    BY Frame, ProgramKept DEF AnalysisInv
  <1>2. ASSUME phase' # "rejected", NEW f \in Fns PROVE FnOK(f)'
    <2>1. phase # "rejected"
      BY <1>1, <1>2, Frame DEF Follows
    <2>2. \A g \in Fns : /\ CalledOK(g) /\ StaticOK(g) /\ InlineableOK(g) /\ VerifOK(g)
                         /\ SetsOK(g) /\ HomsOK(g) /\ AcceptedOK(g)
      BY <2>1 DEF AnalysisInv, FnOK
    <2>3. CalledOK(f)' /\ StaticOK(f)'
      BY <1>1, <1>2, <2>1, <2>2, CalledInvariant, StaticInvariant
    <2>4. InlineableOK(f)' /\ VerifOK(f)'
      BY <1>1, <1>2, <2>1, <2>2, InlineableInvariant, VerifInvariant
    <2>5. SetsOK(f)' /\ HomsOK(f)'
      BY <1>1, <1>2, <2>1, <2>2, SetsInvariant, HomsInvariant
    <2>6. AcceptedOK(f)'
      BY <1>1, <1>2, <2>1, <2>2, AcceptedInvariant
    <2>. QED BY <2>3, <2>4, <2>5, <2>6 DEF FnOK
  <1>3. \A f \in Fns' : phase' # "rejected" => FnOK(f)'
    BY <1>1, <1>2
  <1>. QED BY <1>1, <1>3 DEF AnalysisInv

\* The analyses keep their attributes between what the bodies alone say and
\* what the runs of the functions do, at every point of every analysis.
THEOREM Analyses == Spec => []AnalysisInv
  <1>. QED BY AnalysisInitially, AnalysisStep, PTL DEF Spec

\* The invariant leaves a finished analysis no choice.
LEMMA SummariesFromInv == AnalysisInv => SummariesExact
  <1>. SUFFICES ASSUME AnalysisInv, NEW f \in Fns
                PROVE  LET s == Summary(f) IN
                       /\ Past("called") => attr[f].called = s.called
                                            /\ attr[f].recursive = s.recursive
                       /\ Past("static") => attr[f].static = s.static
                       /\ Past("sets") => attr[f].reads = s.reads /\ attr[f].mods = s.mods
                       /\ Past("inlineable") => attr[f].inlineable = s.inlineable
                       /\ Past("hybrid") =>
                           /\ attr[f].verif = s.verif
                           /\ attr[f].verifExt =
                                 (program.fns[f].external
                                     /\ (s.verif \/ program.fns[f].params # {}))
                       /\ Past("homs") => attr[f].homs = s.homs
    BY DEF SummariesExact
  <1>1. AnalysisTypeOK /\ IsSummary(attr[f]) /\ (phase # "rejected" => \A g \in Fns : FnOK(g))
    BY DEF AnalysisInv, AnalysisTypeOK
  <1>2. \A p : Past(p) => phase # "rejected"
    BY DEF Past, Phases
  <1>3. /\ Summary(f).called = Reached(f) /\ Summary(f).homs = HomsOf(f)
        /\ Summary(f).reads = ReadsOf(f) /\ Summary(f).mods = ModsOf(f)
        /\ Summary(f).recursive <=> f \in Reached(f)
        /\ Summary(f).static <=> \A g \in Runs(f) : DirectlyStatic(g) /\ g \notin Reached(g)
        /\ Summary(f).inlineable <=> \A g \in Runs(f) : DirectlyInlineable(g)
        /\ Summary(f).verif <=> \E g \in Runs(f) : PrivateItems(g) # {}
    BY DEF Summary, ReadsOf, ModsOf, HomsOf
  <1>10. /\ Summary(f).recursive \in BOOLEAN /\ Summary(f).static \in BOOLEAN
         /\ Summary(f).inlineable \in BOOLEAN /\ Summary(f).verif \in BOOLEAN
    BY DEF Summary
  <1>4. ASSUME Past("called")
        PROVE  attr[f].called = Reached(f) /\ (attr[f].recursive <=> f \in Reached(f))
    BY <1>1, <1>2, <1>4, CalledSettled DEF FnOK
  <1>5. ASSUME Past("static")
        PROVE  attr[f].static <=> \A g \in Runs(f) : DirectlyStatic(g) /\ g \notin Reached(g)
    BY <1>1, <1>2, <1>5 DEF FnOK, StaticOK, Done, Static, StaticAlone
  <1>6. ASSUME Past("sets") PROVE attr[f].reads = ReadsOf(f) /\ attr[f].mods = ModsOf(f)
    <2>1. \A g \in Fns : SetsOK(g) /\ Closes(g)
      BY <1>1, <1>2, <1>6 DEF FnOK, SetsOK
    <2>. QED BY <1>1, <2>1, SetsComplete
  <1>7. ASSUME Past("inlineable")
        PROVE  attr[f].inlineable <=> \A g \in Runs(f) : DirectlyInlineable(g)
    BY <1>1, <1>2, <1>7 DEF FnOK, InlineableOK, Done, Inlineable
  <1>8. ASSUME Past("hybrid")
        PROVE  LET verif == \E g \in Runs(f) : PrivateItems(g) # {}
               IN  /\ attr[f].verif <=> verif
                   /\ attr[f].verifExt <=>
                          program.fns[f].external /\ (verif \/ program.fns[f].params # {})
    BY <1>1, <1>2, <1>8 DEF FnOK, VerifOK, Done, Verif
  <1>9. ASSUME Past("homs") PROVE attr[f].homs = HomsOf(f)
    BY <1>1, <1>2, <1>9, HomsComplete DEF FnOK
  <1>11. Past("called") => attr[f].called = Summary(f).called
                           /\ attr[f].recursive = Summary(f).recursive
    BY <1>1, <1>3, <1>4, <1>10 DEF IsSummary
  <1>12. Past("static") => attr[f].static = Summary(f).static
    BY <1>1, <1>3, <1>5, <1>10 DEF IsSummary
  <1>13. Past("inlineable") => attr[f].inlineable = Summary(f).inlineable
    BY <1>1, <1>3, <1>7, <1>10 DEF IsSummary
  <1>14. Past("hybrid") => /\ attr[f].verif = Summary(f).verif
                           /\ attr[f].verifExt = (program.fns[f].external
                                 /\ (Summary(f).verif \/ program.fns[f].params # {}))
    BY <1>1, <1>3, <1>8, <1>10 DEF IsSummary
  <1>. QED BY <1>3, <1>6, <1>9, <1>11, <1>12, <1>13, <1>14

\* SummariesExact: for every program, whatever the order of its functions and
\* the shape of their calls, each analysis computes in place what a run of each
\* function may really do (called_functions, is_recursive, has_static_body,
\* read_values, modified_values, can_be_inlined, requires_verification and
\* used_homomorphisms).
THEOREM Summaries == Spec => []SummariesExact
  <1>. QED BY Analyses, SummariesFromInv, PTL

\* What is inlined has a static body without loops, by the summaries.
LEMMA FiniteFromInv == AnalysisInv => CircuitsAreFinite
  <1>. SUFFICES ASSUME AnalysisInv, Past("loops"), NEW f \in Fns, NEW i \in CallItems(f)
                PROVE  \/ ~attr[i.of].verif /\ i.k = "call"
                       \/ /\ i.loop = "no"
                          /\ i.of \notin Reached(i.of)
                          /\ i.k = "privatecall" =>
                               \A g \in Runs(i.of) : \A j \in Body(g) :
                                   j.loop = "no" /\ g \notin Reached(g)
    BY DEF CircuitsAreFinite
  <1>1. /\ AnalysisTypeOK /\ program \in Programs /\ \A g \in Fns : FnOK(g)
        /\ Past("called") /\ Past("static") /\ Past("inlineable") /\ Past("compliance")
    BY PastPhases DEF AnalysisInv, AnalysisTypeOK
  <1>2. i \in Body(f) /\ i.k \in {"call", "privatecall"} /\ i.of \in Fns
    BY <1>1, Numbered DEF CallItems, Direct
  <1>3. /\ ~NonInlineableCall(i) /\ ~PrivateInLoop(i) /\ Compliant(f)
        /\ attr[i.of].recursive <=> i.of \in Reached(i.of)
        /\ attr[i.of].static <=> Static(i.of)
        /\ attr[i.of].inlineable <=> Inlineable(i.of)
    BY <1>1, <1>2, CalledSettled DEF FnOK, AcceptedOK, StaticOK, InlineableOK, Done
  <1>4. CASE i.k = "call"
    BY <1>2, <1>3, <1>4 DEF NonInlineableCall, PrivateInLoop
  <1>5. CASE i.k = "privatecall"
    <2>1. i.loop = "no" /\ Static(i.of) /\ Inlineable(i.of)
      BY <1>2, <1>3, <1>5 DEF PrivateInLoop, Compliant
    <2>2. \A g \in Runs(i.of) : g \notin Reached(g) /\ \A j \in Body(g) : j.loop = "no"
      BY <2>1 DEF Static, StaticAlone, Inlineable, DirectlyInlineable
    <2>3. i.of \in Runs(i.of)
      BY <1>1, <1>2, RunsClosed
    <2>. QED BY <2>1, <2>2, <2>3
  <1>. QED BY <1>2, <1>4, <1>5

\* CircuitsAreFinite: no accepted program inlines a loop or a recursion into a
\* circuit (NonInlineableCallDetector, CircuitComplianceChecker), for every
\* program and so for every call graph.
THEOREM FiniteCircuits == Spec => []CircuitsAreFinite
  <1>. QED BY Analyses, FiniteFromInv, PTL

-----------------------------------------------------------------------------
(* The backends of a function                                              *)

\* A non-empty set of the numbers 1 to n has a maximum.
LEMMA MaxOf ==
    ASSUME NEW n \in Nat, NEW s \in SUBSET (1 .. n), s # {}
    PROVE  Max(s) \in s /\ \A y \in s : Max(s) >= y
<1>. DEFINE T == {n - x : x \in s}
<1>1. T \in SUBSET Nat /\ T # {}
  <2>1. \A x \in s : x \in 1 .. n /\ n - x \in Nat
    OBVIOUS
  <2>. QED BY <2>1
<1>2. PICK m \in T : \A k \in T : m <= k
  <2>. HIDE DEF T
  <2>. QED BY <1>1, Least
<1>3. PICK x \in s : m = n - x
  OBVIOUS
<1>4. \A y \in s : n - x <= n - y
  BY <1>2, <1>3
<1>5. \A y \in s : x >= y
  BY <1>4
<1>. QED BY <1>5 DEF Max

\* And a minimum.
LEMMA MinOf ==
    ASSUME NEW s \in SUBSET Nat, s # {}
    PROVE  Min(s) \in s /\ \A y \in s : Min(s) <= y
<1>1. \E x \in s : \A y \in s : x <= y
  BY Least
<1>. QED BY <1>1 DEF Min

\* Where the homomorphisms are that use a backend.
Users(homs, c) == {i \in DOMAIN HomOrder : HomOrder[i] \in homs /\ CryptoOf[HomOrder[i]] = c}

\* The backends of the first n homomorphisms, in order.
Listed(b, n, homs) ==
    /\ b \in Seq(Range([i \in DOMAIN HomOrder |-> CryptoOf[HomOrder[i]]]))
    /\ \A c : c \in Range(b) <=> \E i \in Users(homs, c) : i <= n
    /\ \A i, j \in DOMAIN b : i < j => Min(Users(homs, b[i])) < Min(Users(homs, b[j]))

WithBackend(used, i, homs) ==
    IF HomOrder[i] \in homs /\ CryptoOf[HomOrder[i]] \notin Range(used)
    THEN Append(used, CryptoOf[HomOrder[i]]) ELSE used

\* One more homomorphism keeps the list in order.
LEMMA ListedStep ==
    ASSUME NEW n \in Nat, n + 1 \in DOMAIN HomOrder, NEW homs, NEW b, Listed(b, n, homs)
    PROVE  Listed(WithBackend(b, n + 1, homs), n + 1, homs)
<1>. DEFINE c == CryptoOf[HomOrder[n + 1]]
            B == Range([i \in DOMAIN HomOrder |-> CryptoOf[HomOrder[i]]])
            d == WithBackend(b, n + 1, homs)
<1>0. DOMAIN HomOrder = 1 .. Len(HomOrder) /\ Len(HomOrder) \in Nat
  BY BodyAssumption
<1>1. /\ b \in Seq(B) /\ \A x : x \in Range(b) <=> \E i \in Users(homs, x) : i <= n
      /\ \A i, j \in DOMAIN b : i < j => Min(Users(homs, b[i])) < Min(Users(homs, b[j]))
  BY DEF Listed
<1>2. c \in B
  BY DEF Range
<1>3. \A x : /\ Users(homs, x) \in SUBSET Nat
             /\ n + 1 \in Users(homs, x) <=> HomOrder[n + 1] \in homs /\ x = c
  BY <1>0 DEF Users
<1>4. CASE HomOrder[n + 1] \in homs /\ c \notin Range(b)
  <2>1. d = Append(b, c)
    BY <1>4 DEF WithBackend
  <2>. HIDE DEF d, B, c
  <2>2. /\ d \in Seq(B) /\ Len(d) = Len(b) + 1 /\ Len(b) \in Nat
        /\ d[Len(b) + 1] = c /\ DOMAIN d = 1 .. Len(b) + 1 /\ DOMAIN b = 1 .. Len(b)
        /\ \A i \in 1 .. Len(b) : d[i] = b[i]
    BY <1>1, <1>2, <2>1
  <2>3. ASSUME NEW x PROVE x \in Range(d) <=> x \in Range(b) \/ x = c
    BY <2>2 DEF Range
  <2>4. ASSUME NEW x PROVE x \in Range(d) <=> \E i \in Users(homs, x) : i <= n + 1
    <3>1. n + 1 \in Users(homs, x) <=> x = c
      BY <1>3, <1>4
    <3>2. \A i \in Users(homs, x) : i \in Nat
      BY <1>3
    <3>3. (\E i \in Users(homs, x) : i <= n + 1) <=> (\E i \in Users(homs, x) : i <= n) \/ x = c
      BY <3>1, <3>2
    <3>. QED BY <1>1, <2>3, <3>3
  <2>5. Min(Users(homs, c)) = n + 1
    <3>1. n + 1 \in Users(homs, c) /\ \A i \in Users(homs, c) : i \in Nat /\ ~(i <= n)
      BY <1>1, <1>3, <1>4
    <3>2. Min(Users(homs, c)) \in Users(homs, c) /\ Min(Users(homs, c)) <= n + 1
      BY <1>3, <3>1, MinOf
    <3>. QED BY <3>1, <3>2
  <2>6. ASSUME NEW i \in 1 .. Len(b) PROVE Min(Users(homs, b[i])) < n + 1
    <3>1. b[i] \in Range(b)
      BY <2>2 DEF Range
    <3>2. PICK k \in Users(homs, b[i]) : k <= n
      BY <1>1, <3>1
    <3>3. Users(homs, b[i]) \in SUBSET Nat
      BY <1>3
    <3>4. Min(Users(homs, b[i])) <= k /\ Min(Users(homs, b[i])) \in Nat /\ k \in Nat
      BY <3>3, <3>2, MinOf
    <3>. QED BY <3>2, <3>4
  <2>7. ASSUME NEW i \in DOMAIN d, NEW j \in DOMAIN d, i < j
        PROVE  Min(Users(homs, d[i])) < Min(Users(homs, d[j]))
    <3>1. i \in 1 .. Len(b) /\ d[i] = b[i]
      BY <2>2, <2>7
    <3>2. CASE j = Len(b) + 1
      BY <2>2, <2>5, <2>6, <3>1, <3>2
    <3>3. CASE j # Len(b) + 1
      <4>1. j \in 1 .. Len(b) /\ d[j] = b[j]
        BY <2>2, <3>3
      <4>. QED BY <1>1, <2>2, <2>7, <3>1, <4>1
    <3>. QED BY <3>2, <3>3
  <2>8. Listed(d, n + 1, homs)
    BY <2>2, <2>4, <2>7 DEF Listed, B
  <2>. QED BY <2>8 DEF d
<1>5. CASE ~(HomOrder[n + 1] \in homs /\ c \notin Range(b))
  <2>1. d = b
    BY <1>5 DEF WithBackend
  <2>2. ASSUME NEW x PROVE x \in Range(b) <=> \E i \in Users(homs, x) : i <= n + 1
    <3>1. \A i \in Users(homs, x) : i \in Nat
      BY <1>3
    <3>2. (\E i \in Users(homs, x) : i <= n + 1)
              <=> (\E i \in Users(homs, x) : i <= n) \/ n + 1 \in Users(homs, x)
      BY <3>1
    <3>3. n + 1 \in Users(homs, x) => x \in Range(b)
      BY <1>3, <1>5
    <3>. QED BY <1>1, <3>2, <3>3
  <2>3. Listed(b, n + 1, homs)
    BY <1>1, <2>2 DEF Listed
  <2>. QED BY <2>1, <2>3
<1>. QED BY <1>4, <1>5

\* UsedBackends folds the homomorphisms one after the other.
LEMMA UsedBackendsFold ==
    ASSUME NEW homs
    PROVE  \E acc : /\ acc[0] = <<>> /\ UsedBackends(homs) = acc[Len(HomOrder)]
                    /\ \A i \in DOMAIN HomOrder : acc[i] = WithBackend(acc[i - 1], i, homs)
<1>. DEFINE n == Len(HomOrder)
            S == 1 .. n
            D == SUBSET S
            T == Seq(Range([i \in S |-> CryptoOf[HomOrder[i]]]))
            pick == [s \in D |-> Max(s)]
            step == [it \in S \X T |-> WithBackend(it[2], it[1], homs)]
            Eqn(h) == h = [s \in SUBSET DOMAIN HomOrder |->
                            IF s = {} THEN <<>>
                            ELSE LET x == Max(s)
                                 IN  IF HomOrder[x] \in homs
                                          /\ CryptoOf[HomOrder[x]] \notin Range(h[s \ {x}])
                                     THEN Append(h[s \ {x}], CryptoOf[HomOrder[x]])
                                     ELSE h[s \ {x}]]
            fold == CHOOSE h : Eqn(h)
<1>0. DOMAIN HomOrder = S /\ n \in Nat
  BY BodyAssumption
<1>1. ASSUME NEW i \in S, NEW u \in T PROVE WithBackend(u, i, homs) \in T
  <2>1. CryptoOf[HomOrder[i]] \in Range([j \in S |-> CryptoOf[HomOrder[j]]])
    BY DEF Range
  <2>. QED BY <2>1 DEF WithBackend
<1>2. PICK g \in [D -> T] :
          \A s \in D : g[s] = IF s = {} THEN <<>> ELSE step[<<pick[s], g[s \ {pick[s]}]>>]
  <2>. DEFINE base == <<>>
  <2>1. Foldable(S, D, T, base, step, pick)
    <3>1. step \in [S \X T -> T]
      <4>. HIDE DEF S, T
      <4>. QED BY <1>1
    <3>2. ASSUME NEW s \in D, s # {} PROVE pick[s] \in s
      <4>1. Max(s) \in s
        BY <1>0, <3>2, MaxOf
      <4>. QED BY <4>1
    <3>3. IsFiniteSet(S)
      BY <1>0, FS_Interval
    <3>4. base \in T
      OBVIOUS
    <3>. HIDE DEF pick, step, S, T, D, base
    <3>5. D = SUBSET S
      BY DEF D
    <3>. QED BY <3>1, <3>2, <3>3, <3>4, <3>5 DEF Foldable
  <2>2. \E g \in [D -> T] :
          \A s \in D : g[s] = IF s = {} THEN base ELSE step[<<pick[s], g[s \ {pick[s]}]>>]
    <3>. HIDE DEF pick, step, D, S, T, base
    <3>. QED BY <2>1, FoldSolution
  <2>. HIDE DEF pick, step, D, S, T
  <2>. QED BY <2>2
<1>3. ASSUME NEW s \in D, s # {}
      PROVE  /\ pick[s] = Max(s)
             /\ step[<<pick[s], g[s \ {pick[s]}]>>] = WithBackend(g[s \ {Max(s)}], Max(s), homs)
  <2>1. Max(s) \in S /\ s \ {Max(s)} \in D
    BY <1>0, <1>3, MaxOf
  <2>. HIDE DEF S, T, D
  <2>2. pick[s] = Max(s)
    OBVIOUS
  <2>3. g[s \ {Max(s)}] \in T
    BY <2>1
  <2>. HIDE DEF pick
  <2>. QED BY <2>1, <2>2, <2>3
<1>4. Eqn(g)
  <2>1. \A s \in SUBSET DOMAIN HomOrder :
          g[s] = IF s = {} THEN <<>>
                 ELSE LET x == Max(s)
                      IN  IF HomOrder[x] \in homs
                               /\ CryptoOf[HomOrder[x]] \notin Range(g[s \ {x}])
                          THEN Append(g[s \ {x}], CryptoOf[HomOrder[x]])
                          ELSE g[s \ {x}]
    <3>. HIDE DEF pick, step, S, T
    <3>. QED BY <1>0, <1>2, <1>3 DEF WithBackend
  <2>. HIDE DEF S, T, pick, step
  <2>. QED BY <1>0, <2>1
<1>5. Eqn(fold)
  <2>. HIDE DEF Eqn
  <2>. QED BY <1>4
<1>6. UsedBackends(homs) = fold[DOMAIN HomOrder]
  BY DEF UsedBackends, FoldLeft, MapThenFoldSet
<1>. HIDE DEF fold, pick, step, T
<1>7. \A s \in D : fold[s] = IF s = {} THEN <<>> ELSE WithBackend(fold[s \ {Max(s)}], Max(s), homs)
  <2>. HIDE DEF S
  <2>. QED BY <1>0, <1>5 DEF WithBackend
<1>. DEFINE acc == [i \in 0 .. n |-> fold[1 .. i]]
<1>8. acc[0] = <<>>
  <2>1. 1 .. 0 = {} /\ 0 \in 0 .. n
    BY <1>0
  <2>. QED BY <1>7, <2>1
<1>9. UsedBackends(homs) = acc[n]
  BY <1>0, <1>6
<1>10. ASSUME NEW i \in DOMAIN HomOrder PROVE acc[i] = WithBackend(acc[i - 1], i, homs)
  <2>1. /\ i \in 1 .. n /\ i \in 0 .. n /\ i - 1 \in 0 .. n /\ n \in Nat
        /\ 1 .. i \in D /\ i \in 1 .. i
    BY <1>0
  <2>2. Max(1 .. i) = i
    <3>1. Max(1 .. i) \in 1 .. i /\ \A y \in 1 .. i : Max(1 .. i) >= y
      BY <2>1, MaxOf
    <3>. QED BY <2>1, <3>1
  <2>3. (1 .. i) \ {i} = 1 .. (i - 1)
    BY <2>1
  <2>4. fold[1 .. i] = WithBackend(fold[1 .. (i - 1)], i, homs)
    <3>. HIDE DEF D
    <3>. QED BY <1>7, <2>1, <2>2, <2>3
  <2>. QED BY <2>1, <2>4
<1>. HIDE DEF acc
<1>. QED BY <1>8, <1>9, <1>10

LEMMA UsedBackendsListed ==
    ASSUME NEW homs
    PROVE  Listed(UsedBackends(homs), Len(HomOrder), homs)
<1>1. DOMAIN HomOrder = 1 .. Len(HomOrder) /\ Len(HomOrder) \in Nat
  BY BodyAssumption
<1>2. PICK acc : /\ acc[0] = <<>> /\ UsedBackends(homs) = acc[Len(HomOrder)]
                 /\ \A i \in DOMAIN HomOrder : acc[i] = WithBackend(acc[i - 1], i, homs)
  BY UsedBackendsFold
<1>. DEFINE Bad == {i \in 0 .. Len(HomOrder) : ~Listed(acc[i], i, homs)}
<1>3. Listed(acc[0], 0, homs)
  <2>1. \A c : \A i \in Users(homs, c) : ~(i <= 0)
    BY <1>1 DEF Users
  <2>2. Range(<<>>) = {} /\ DOMAIN <<>> = {}
    BY DEF Range
  <2>. QED BY <1>2, <2>1, <2>2 DEF Listed
<1>4. Bad = {}
  <2>. SUFFICES ASSUME Bad # {} PROVE FALSE
    OBVIOUS
  <2>1. PICK i \in Bad : \A j \in Bad : i <= j
    <3>1. Bad \in SUBSET Nat
      BY <1>1
    <3>. HIDE DEF Bad
    <3>. QED BY <3>1, Least
  <2>2. i \in 0 .. Len(HomOrder) /\ ~Listed(acc[i], i, homs)
    OBVIOUS
  <2>3. i # 0
    BY <1>3, <2>2
  <2>4. i \in DOMAIN HomOrder /\ i - 1 \in Nat /\ i - 1 \in 0 .. Len(HomOrder) /\ (i - 1) + 1 = i
    BY <1>1, <2>2, <2>3
  <2>5. i - 1 \notin Bad
    BY <2>1, <2>4
  <2>6. Listed(acc[i - 1], i - 1, homs)
    BY <2>4, <2>5
  <2>. HIDE DEF Bad
  <2>. QED BY <1>2, <2>2, <2>4, <2>6, ListedStep
<1>. HIDE DEF Bad
<1>5. Len(HomOrder) \in 0 .. Len(HomOrder)
  BY <1>1
<1>. QED BY <1>2, <1>4, <1>5 DEF Bad

\* The backends are listed once, when the homomorphisms have settled.
BackendsInv == Past("homs") => \A f \in Fns : attr[f].backends = UsedBackends(attr[f].homs)

LEMMA BackendsStep ==
    ASSUME AnalysisTypeOK, BackendsInv, [ExprNext]_allVars
    PROVE  BackendsInv'
<1>1. program' = program /\ Fns' = Fns
  BY Frame, ProgramKept
<1>3. CASE SetBackends
  <2>1. \A f \in Fns : /\ attr'[f].homs = attr[f].homs
                       /\ attr'[f].backends = UsedBackends(attr[f].homs)
    BY <1>3, SetBackendsSteps DEF Keeps
  <2>. QED BY <1>1, <2>1 DEF BackendsInv
<1>4. CASE attr' = attr /\ (Past("homs")' => Past("homs"))
  BY <1>1, <1>4 DEF BackendsInv
<1>5. CASE ~Past("homs")'
  BY <1>5 DEF BackendsInv
<1>6. phase = "homs" => SetBackends \/ phase' = "homs"
  BY Actions DEF PropagateHoms, analysisVars
<1>7. Past("homs") => attr' = attr
  BY PastPhases
     DEF ExprNext, Analyse, Search, EndSearch, DetectDynamicBody, PropagateSets, CheckEvalOrder,
         DetectInlineable, CheckCompliance, DetectHybrid, CheckLoops, PropagateHoms, SetBackends,
         Checked, TypeCheck, Enter, Simulate, EvaluateOperand, Combine, allVars, analysisVars
<1>8. Past("homs")' => Past("homs") \/ phase = "homs"
  BY Frame, PastNext, PastPhases DEF Follows
<1>9. phase' = "homs" => ~Past("homs")'
  BY PastNext
<1>. QED BY <1>3, <1>4, <1>5, <1>6, <1>7, <1>8, <1>9

\* BackendsListed: the crypto backends of each function are those of the
\* homomorphisms its runs use, each once and in the order of the enumeration
\* (used_crypto_backends), so that contract and circuit agree on the layout of
\* the keys.
THEOREM Backends == Spec => []BackendsListed
<1>1. ExprInit => BackendsInv
  BY PastPhases DEF ExprInit, Init, BackendsInv
<1>2. AnalysisInv => AnalysisTypeOK
  BY DEF AnalysisInv
<1>3. AnalysisTypeOK /\ BackendsInv /\ [ExprNext]_allVars => BackendsInv'
  BY BackendsStep
<1>4. AnalysisTypeOK /\ BackendsInv /\ SummariesExact => BackendsListed
  <2>. SUFFICES ASSUME AnalysisTypeOK, BackendsInv, SummariesExact, Past("homs"), NEW f \in Fns
                PROVE  LET b == attr[f].backends
                           homs == Summary(f).homs
                           first(c) == Min({i \in DOMAIN HomOrder :
                                               HomOrder[i] \in homs /\ CryptoOf[HomOrder[i]] = c})
                       IN  /\ Range(b) = {CryptoOf[h] : h \in homs}
                           /\ \A i, j \in DOMAIN b : i < j => first(b[i]) < first(b[j])
    BY DEF BackendsListed
  <2>. DEFINE b == attr[f].backends
              homs == Summary(f).homs
  <2>1. Listed(b, Len(HomOrder), homs)
    BY UsedBackendsListed DEF BackendsInv, SummariesExact
  <2>2. homs \subseteq Homs
    <3>1. ASSUME NEW g \in Fns PROVE DirectHoms(g) \subseteq Homs
      BY BodyAssumption DEF DirectHoms, PrivateItems, Homs, Body, Fns, AnalysisTypeOK
    <3>2. Runs(f) \subseteq Fns
      BY RunsClosed DEF AnalysisTypeOK
    <3>. QED BY <3>1, <3>2 DEF Summary
  <2>. HIDE DEF b, homs
  <2>3. DOMAIN HomOrder = 1 .. Len(HomOrder) /\ Len(HomOrder) \in Nat
    BY BodyAssumption
  <2>4. Range(b) = {CryptoOf[h] : h \in homs}
    <3>1. ASSUME NEW c \in Range(b) PROVE c \in {CryptoOf[h] : h \in homs}
      <4>1. PICK i \in Users(homs, c) : TRUE
        BY <2>1 DEF Listed
      <4>. QED BY <4>1 DEF Users
    <3>2. ASSUME NEW h \in homs PROVE CryptoOf[h] \in Range(b)
      <4>1. PICK i \in DOMAIN HomOrder : HomOrder[i] = h
        BY <2>2 DEF Homs, Range
      <4>2. i \in Users(homs, CryptoOf[h]) /\ i <= Len(HomOrder)
        BY <2>3, <4>1 DEF Users
      <4>. QED BY <2>1, <4>2 DEF Listed
    <3>. QED BY <3>1, <3>2
  <2>5. \A i, j \in DOMAIN b : i < j => Min(Users(homs, b[i])) < Min(Users(homs, b[j]))
    BY <2>1 DEF Listed
  <2>. QED BY <2>4, <2>5 DEF Users, b, homs
<1>. QED BY <1>1, <1>2, <1>3, <1>4, Analyses, Summaries, PTL DEF Spec
=============================================================================
