-------------------------- MODULE FunctionAnalyses --------------------------
(***************************************************************************)
(* The analyses of a program's functions that follow its calls, in the     *)
(* order in which process_ast runs them: called functions and recursion,   *)
(* read and modified values, the evaluation order check, what a circuit    *)
(* may inline, which functions need verification, and the homomorphisms    *)
(* each uses. Most summaries are completed in place, one function after    *)
(* the other, so that a function may look at a finished or at an           *)
(* unfinished one.                                                         *)
(*                                                                         *)
(* The body of a function is a set of items: calls, reads and assignments  *)
(* of values, operations outside and inside private expressions, each with *)
(* the kind of the loop around it ("no" if there is none). An operation    *)
(* outside private expressions has the field fits: whether the type of its *)
(* operands can be private. A value is a record of a variable and, for an  *)
(* element of a mapping, the key expression; as these are compared as      *)
(* objects, a key is one occurrence of an expression (only me and all are  *)
(* the same key wherever they occur). A function also has its modifiers    *)
(* (external, and view for pure and view), its return type and the         *)
(* homomorphisms of its private parameters (params).                       *)
(***************************************************************************)
EXTENDS Naturals, FiniteSets, Sequences, FiniteSetsExt, SequencesExt

CONSTANTS
    Programs,       \* [fns |-> functions in source order, expr |-> an expression]
    StateVars,      \* state variables (other variables are local)
    CircuitVars,    \* variables whose type can be private: no mappings, for instance
    HomOrder,       \* the homomorphisms as the enumeration lists them
    CryptoOf        \* the crypto backend of each

\* Programs have functions, and call only those they have.
ASSUME ProgramAssumption ==
    \A p \in Programs :
        /\ Len(p.fns) \in Nat \ {0} /\ DOMAIN p.fns = 1 .. Len(p.fns)
        /\ \A f \in DOMAIN p.fns :
              /\ p.fns[f].external \in BOOLEAN
              /\ \A i \in p.fns[f].body :
                    i.k \in {"call", "privatecall"} => i.of \in DOMAIN p.fns

\* Bodies are finite, and homomorphisms are those of the enumeration.
ASSUME BodyAssumption ==
    /\ Len(HomOrder) \in Nat /\ DOMAIN HomOrder = 1 .. Len(HomOrder)
    /\ \A p \in Programs : \A f \in DOMAIN p.fns :
          /\ IsFiniteSet(p.fns[f].body)
          /\ p.fns[f].params \subseteq Range(HomOrder)
          /\ \A i \in p.fns[f].body :
                i.k \in {"private", "privatecall"} => i.hom \in Range(HomOrder)

VARIABLES
    program,    \* the program under analysis
    phase,      \* the analysis that runs
    at,         \* the function it visits
    leaves,     \* called functions found by the last iteration of the search
    attr,       \* attr[f]: the attributes of function f
    fixed,      \* fixed_point_reached
    dirty       \* functions whose homomorphisms have to reach their callers

analysisVars == <<program, phase, at, leaves, attr, fixed, dirty>>

Homs == Range(HomOrder)
Fns == DOMAIN program.fns
Body(f) == program.fns[f].body

-----------------------------------------------------------------------------
(* What the visitors collect from the body of one function                 *)

CallItems(f) == {i \in Body(f) : i.k \in {"call", "privatecall"}}
Direct(f) == {i.of : i \in CallItems(f)}
PrivateItems(f) == {i \in Body(f) : i.k \in {"private", "privatecall"}}
DirectlyRead(f) == {i.value : i \in {j \in Body(f) : j.k = "read"}}
DirectlyModified(f) == {i.value : i \in {j \in Body(f) : j.k = "assign"}}
DirectlyStatic(f) == \A i \in Body(f) : i.loop \notin {"for", "while"}

\* Operations of any type have a circuit form only if that type fits in a circuit.
InCircuit(op, fits) == op # "**" /\ (op \in {"==", "!=", "ite"} => fits)

\* Statements other than assignments, declarations, if and return, public
\* operations without a circuit form, and locations of a type that cannot be
\* private, cannot be part of a circuit.
DirectlyInlineable(f) ==
    \A i \in Body(f) :
        /\ i.loop = "no" /\ i.k # "statement"
        /\ i.k = "op" => InCircuit(i.op, i.fits)
        /\ i.k \in {"read", "assign"} => i.value.var \in CircuitVars

DirectHoms(f) == {i.hom : i \in PrivateItems(f)} \cup program.fns[f].params

OfState(values) == {v \in values : v.var \in StateVars}

Initial(f) ==
    [called |-> Direct(f), recursive |-> FALSE, static |-> DirectlyStatic(f),
     reads |-> DirectlyRead(f), mods |-> DirectlyModified(f),
     inlineable |-> DirectlyInlineable(f), verif |-> PrivateItems(f) # {},
     verifExt |-> program.fns[f].external
                     /\ (PrivateItems(f) # {} \/ program.fns[f].params # {}),
     homs |-> DirectHoms(f), backends |-> <<>>]

Init ==
    /\ program \in Programs
    /\ phase = "called"
    /\ at = 1
    /\ attr = [f \in Fns |-> Initial(f)]
    /\ leaves = Direct(1)
    /\ fixed = TRUE
    /\ dirty = {}

-----------------------------------------------------------------------------

\* The phase goes on with the next function or, after the last one, ends.
Advance(next) ==
    IF at < Len(program.fns)
    THEN /\ at' = at + 1
         /\ phase' = phase
         /\ leaves' = attr'[at + 1].called
    ELSE /\ at' = 1
         /\ phase' = next
         /\ leaves' = {}

\* One iteration of the search for indirectly called functions; when it finds
\* nothing new the function is known to be recursive or not.
NewLeaves == (UNION {attr[g].called : g \in leaves}) \ attr[at].called

Search ==
    /\ phase = "called" /\ NewLeaves # {}
    /\ attr' = [attr EXCEPT ![at].called = @ \cup NewLeaves]
    /\ leaves' = NewLeaves
    /\ UNCHANGED <<program, phase, at, fixed, dirty>>

EndSearch ==
    /\ phase = "called" /\ NewLeaves = {}
    /\ attr' = [attr EXCEPT ![at].recursive = at \in attr[at].called,
                            ![at].static = @ /\ at \notin attr[at].called]
    /\ Advance("static")
    /\ UNCHANGED <<program, fixed, dirty>>

DetectDynamicBody ==
    /\ phase = "static"
    /\ attr' = [attr EXCEPT ![at].static = @ /\ \A g \in attr[at].called : attr[g].static]
    /\ Advance("sets")
    /\ UNCHANGED <<program, fixed, dirty>>

\* One function of a pass over all bodies; passes are repeated until one
\* changes nothing.
WithCallees(summary) ==
    attr[at][summary] \cup UNION {OfState(attr[g][summary]) : g \in Direct(at)}

\* Mutation: a function whose values did not change ends the iteration.
PropagateSetsOnce ==
    LET reads == WithCallees("reads")
        mods == WithCallees("mods")
    IN  /\ phase = "sets"
        /\ attr' = [attr EXCEPT ![at].reads = reads, ![at].mods = mods]
        /\ Advance(IF reads = attr[at].reads THEN "order" ELSE "sets")
        /\ UNCHANGED <<program, fixed, dirty>>

PropagateSets ==
    LET reads == WithCallees("reads")
        mods == WithCallees("mods")
        same == fixed /\ reads = attr[at].reads /\ mods = attr[at].mods
        last == at = Len(program.fns)
    IN  /\ phase = "sets"
        /\ attr' = [attr EXCEPT ![at].reads = reads, ![at].mods = mods]
        /\ fixed' = (same \/ last)
        /\ Advance(IF same THEN "order" ELSE "sets")
        /\ UNCHANGED <<program, dirty>>

\* The operands of an expression: what each may read and modify.
OperandReads(o) ==
    CASE o.k = "call" -> OfState(attr[o.of].reads)
      [] o.k = "value" -> {o.value}
      [] OTHER -> {}
OperandMods(o) == IF o.k = "call" THEN OfState(attr[o.of].mods) ELSE {}

\* Mutation: only reads to the right of a modification are looked at.
EvalOrderDefinedToTheRight(args) ==
    /\ \A i \in 2 .. Len(args) : OperandMods(args[1]) \cap OperandMods(args[i]) = {}
    /\ \A i, j \in DOMAIN args : i < j => OperandMods(args[i]) \cap OperandReads(args[j]) = {}

\* visit_child_expressions. Only the first operand's modifications are compared
\* with those of the later ones.
EvalOrderDefined(args) ==
    /\ \A i \in 2 .. Len(args) : OperandMods(args[1]) \cap OperandMods(args[i]) = {}
    /\ \A i, j \in DOMAIN args : i # j => OperandMods(args[i]) \cap OperandReads(args[j]) = {}

Checked(accepted, next) ==
    /\ phase' = IF accepted THEN next ELSE "rejected"
    /\ UNCHANGED <<program, at, leaves, attr, fixed, dirty>>

CheckEvalOrder ==
    phase = "order" /\ Checked(EvalOrderDefined(program.expr.args), "types")

DetectInlineable ==
    /\ phase = "inlineable"
    /\ attr' = [attr EXCEPT ![at].inlineable =
                                @ /\ \A g \in attr[at].called : attr[g].inlineable]
    /\ Advance("compliance")
    /\ UNCHANGED <<program, fixed, dirty>>

\* A call within a private expression is inlined into the circuit.
Compliant(f) ==
    \A i \in Body(f) : i.k = "privatecall" =>
        program.fns[i.of].view /\ attr[i.of].static /\ attr[i.of].inlineable

CheckCompliance ==
    phase = "compliance" /\ Checked(\A f \in Fns : Compliant(f), "hybrid")

DetectHybrid ==
    LET found == \E g \in attr[at].called : attr[g].verif
    IN  /\ phase = "hybrid"
        /\ attr' = [attr EXCEPT ![at].verif = @ \/ found,
                                ![at].verifExt = @ \/ (found /\ program.fns[at].external)]
        /\ Advance("loops")
        /\ UNCHANGED <<program, fixed, dirty>>

\* Mutation: a function that calls itself is not looked for.
NonInlineableSelfCall(i) ==
    i.k \in {"call", "privatecall"} /\ attr[i.of].verif /\ i.of \in Direct(i.of)

\* Recursive functions with private expressions, and private expressions or
\* calls to functions that contain them in a loop, are rejected.
NonInlineableCall(i) ==
    i.k \in {"call", "privatecall"} /\ attr[i.of].verif /\ attr[i.of].recursive

PrivateInLoop(i) ==
    /\ i.loop # "no"
    /\ \/ i.k \in {"private", "privatecall"}
       \/ i.k = "call" /\ attr[i.of].verif

Callers(f) == {g \in Fns : f \in attr[g].called}

CheckLoops ==
    /\ phase = "loops"
    /\ LET accepted == \A f \in Fns : \A i \in Body(f) :
                           ~NonInlineableCall(i) /\ ~PrivateInLoop(i)
       IN  /\ phase' = IF accepted THEN "homs" ELSE "rejected"
           /\ dirty' = IF accepted
                       THEN {f \in Fns : attr[f].homs # {} /\ Callers(f) # {}} ELSE {}
    /\ UNCHANGED <<program, at, leaves, attr, fixed>>

\* Mutation: every caller is put into the worklist.
GrowsAlways(g, f) == g # f

\* A function taken from the worklist hands its homomorphisms to its callers.
Grows(g, f) == g # f /\ ~(attr[f].homs \subseteq attr[g].homs)

PropagateHoms(f) ==
    /\ phase = "homs" /\ f \in dirty
    /\ attr' = [g \in Fns |-> IF g \in Callers(f)
                              THEN [attr[g] EXCEPT !.homs = @ \cup attr[f].homs] ELSE attr[g]]
    /\ dirty' = (dirty \ {f})
                    \cup {g \in Callers(f) : Grows(g, f) /\ Callers(g) # {}}
    /\ UNCHANGED <<program, phase, at, leaves, fixed>>

\* Mutation: the set of homomorphisms is enumerated in another order.
UsedBackendsReversed(homs) ==
    FoldRight(LAMBDA h, used : IF h \in homs /\ CryptoOf[h] \notin Range(used)
                               THEN Append(used, CryptoOf[h]) ELSE used,
              HomOrder, <<>>)

\* The backends of a function in the order of the homomorphisms, each once.
UsedBackends(homs) ==
    FoldLeft(LAMBDA used, h : IF h \in homs /\ CryptoOf[h] \notin Range(used)
                              THEN Append(used, CryptoOf[h]) ELSE used,
             <<>>, HomOrder)

SetBackends ==
    /\ phase = "homs" /\ dirty = {}
    /\ attr' = [f \in Fns |-> [attr[f] EXCEPT !.backends = UsedBackends(attr[f].homs)]]
    /\ phase' = "analysed"
    /\ UNCHANGED <<program, at, leaves, fixed, dirty>>

Analyse ==
    \/ Search \/ EndSearch \/ DetectDynamicBody
    \/ PropagateSets \/ CheckEvalOrder
    \/ DetectInlineable \/ CheckCompliance
    \/ DetectHybrid \/ CheckLoops
    \/ \E f \in Fns : PropagateHoms(f)
    \/ SetBackends

-----------------------------------------------------------------------------
(* What the summaries are meant to be                                      *)

Closed(S) == \A h \in S : Direct(h) \subseteq S

\* The functions a call of f may run: those it calls, those they call, and so on.
Reached(f) ==
    {g \in Fns : \A S \in SUBSET Fns : Direct(f) \subseteq S /\ Closed(S) => g \in S}

Runs(f) == {f} \cup Reached(f)

Phases == <<"called", "static", "sets", "order", "types", "inlineable", "compliance",
            "hybrid", "loops", "homs", "analysed", "entered", "simulated", "executed">>
Past(p) == \E i, j \in DOMAIN Phases : Phases[i] = p /\ Phases[j] = phase /\ i < j

Summary(f) ==
    [called |-> Reached(f), recursive |-> f \in Reached(f),
     static |-> \A g \in Runs(f) : DirectlyStatic(g) /\ g \notin Reached(g),
     reads |-> DirectlyRead(f) \cup UNION {OfState(DirectlyRead(g)) : g \in Reached(f)},
     mods |-> DirectlyModified(f) \cup UNION {OfState(DirectlyModified(g)) : g \in Reached(f)},
     inlineable |-> \A g \in Runs(f) : DirectlyInlineable(g),
     verif |-> \E g \in Runs(f) : PrivateItems(g) # {},
     homs |-> UNION {DirectHoms(g) : g \in Runs(f)}]

(* Whatever the order of the functions and the shape of their calls, each   *)
(* summary is what the runs of the function may really do, no more and no   *)
(* less, as soon as the analysis that computes it is over.                  *)
SummariesExact ==
    \A f \in Fns : LET s == Summary(f) IN
        /\ Past("called") => attr[f].called = s.called /\ attr[f].recursive = s.recursive
        /\ Past("static") => attr[f].static = s.static
        /\ Past("sets") => attr[f].reads = s.reads /\ attr[f].mods = s.mods
        /\ Past("inlineable") => attr[f].inlineable = s.inlineable
        /\ Past("hybrid") =>
            /\ attr[f].verif = s.verif
            /\ attr[f].verifExt =
                  (program.fns[f].external /\ (s.verif \/ program.fns[f].params # {}))
        /\ Past("homs") => attr[f].homs = s.homs

(* The crypto backends of a function are those of the homomorphisms it and  *)
(* its callees use, each listed once, in the order of the homomorphisms:    *)
(* contract and circuit lay out the keys in the order of this list.         *)
BackendsListed ==
    Past("homs") =>
        \A f \in Fns :
            LET b == attr[f].backends
                homs == Summary(f).homs
                first(c) == Min({i \in DOMAIN HomOrder : HomOrder[i] \in homs
                                                         /\ CryptoOf[HomOrder[i]] = c})
            IN  /\ Range(b) = {CryptoOf[h] : h \in homs}
                /\ \A i, j \in DOMAIN b : i < j => first(b[i]) < first(b[j])

(* The circuit of an accepted function is finite: what is inlined into it,  *)
(* the bodies of private calls and the circuits of called functions that    *)
(* need verification, contains no loop and no recursion.                    *)
CircuitsAreFinite ==
    Past("loops") =>
        \A f \in Fns : \A i \in CallItems(f) :
            \/ ~attr[i.of].verif /\ i.k = "call"
            \/ /\ i.loop = "no"
               /\ i.of \notin Reached(i.of)
               /\ i.k = "privatecall" =>
                    \A g \in Runs(i.of) : \A j \in Body(g) : j.loop = "no" /\ g \notin Reached(g)
=============================================================================
