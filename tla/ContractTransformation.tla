----------------------- MODULE ContractTransformation -----------------------
(***************************************************************************)
(* The transformation of statements and functions, and the position of     *)
(* each function's inputs and outputs in the arrays that the external      *)
(* wrapper hands to the functions it calls and to the verifier.            *)
(***************************************************************************)
EXTENDS CircuitHelper

VARIABLE contract   \* the compiled functions by name, or <<>>

RECURSIVE TransformedBlock(_, _, _), TransformedStatement(_, _, _)

\* The statements that have to go first, and then s itself.
Done(s, g) == [ss |-> Append(g.pre, s), g |-> Emptied(g)]

\* r is what becomes of the first statement; then comes the rest, with what the
\* first one tells about owners.
TransformedRest(ss, rets, g, r) ==
    LET rest == TransformedBlock(Tail(ss), rets, [r.g EXCEPT !.A = AfterStatement(g.A, Head(ss))])
    IN  [ss |-> r.ss \o rest.ss, g |-> [rest.g EXCEPT !.A = g.A]]
TransformedBlock(ss, rets, g) ==
    IF ss = <<>> THEN [ss |-> <<>>, g |-> g]
    ELSE TransformedRest(ss, rets, g, TransformedStatement(Head(ss), rets, g))

\* An assigned variable is the circuit value it was assigned, or unknown: r is
\* what T_e makes of the value.
TransformedAssignment(s, r) ==
    LET output == s.lhs.k = "id" /\ r.e.k = "circ"
        known == IF output THEN Remap(r.g, s.lhs.x, r.g.outs[r.e.i.n].of) ELSE r.g
        others == {l \in Modified(s) : ~(output /\ l = s.lhs)}
    IN  Done([s EXCEPT !.e = r.e], Invalidate(known, others))

TransformedReturn(s, r) == Done([s EXCEPT !.e = r.e], r.g)

TransformedSimple(s, r) ==
    CASE s.k = "assign" -> TransformedAssignment(s, r)
      [] s.k \in {"decl", "expr", "require"} -> Done([s EXCEPT !.e = r.e], r.g)
      [] s.k = "return" -> TransformedReturn(s, r)

\* A public condition: its branches are guarded by c in the circuit as well.
TransformedPublicIf(s, rets, g, c) ==
    LET then == TransformedBlock(s.then, rets, Emptied(c.g))
        afterThen == [Guarded(c.g, then.g, c.i, TRUE) EXCEPT !.rmap = g.rmap]
        else == TransformedBlock(s.else, rets, afterThen)
        afterElse == IF s.else = <<>> THEN afterThen
                     ELSE [Guarded(afterThen, else.g, c.i, FALSE) EXCEPT !.rmap = g.rmap]
        whole == [s EXCEPT !.e = c.e, !.then = then.ss, !.else = else.ss]
    IN  [ss |-> Append(c.g.pre, whole),
         g |-> Invalidate(Emptied(afterElse), Modified(s))]

\* Branches without private expressions are no concern of the circuit.
TransformedPlainIf(s, rets, c) ==
    LET then == TransformedBlock(s.then, rets, Emptied(c.g))
        else == TransformedBlock(s.else, rets, then.g)
    IN  [ss |-> Append(c.g.pre, [s EXCEPT !.e = c.e, !.then = then.ss, !.else = else.ss]),
         g |-> else.g]

RECURSIVE OutputAll(_, _, _)
\* The current version of each variable, as an output for the sender; the first
\* one is r.
OutputRest(xs, k, r) ==
    LET rest == OutputAll(xs, k + 1, r.g) IN [es |-> <<r.e>> \o rest.es, g |-> rest.g]
OutputAll(xs, k, g) ==
    IF k > Len(xs) THEN [es |-> <<>>, g |-> g]
    ELSE OutputRest(xs, k, CircuitOutput(Circ(g.rmap[xs[k]]), Me, Type[xs[k]].h, g))

SetAsSeq(xs) == CHOOSE q \in [1..Cardinality(xs) -> xs] : {q[k] : k \in DOMAIN q} = xs

\* What no branch has changed is read again.
ReadAgain(xs, g) == BindAll(xs, [k \in DOMAIN xs |-> Variable(xs[k])], 1, g)

\* The outputs r are assigned to xs, whatever the condition is.
AssignedOutputs(s, xs, r, g) ==
    Done([k |-> "tuple", xs |-> xs, es |-> r.es],
         LeaveScope(g, r.g, DOMAIN r.g.rmap \ Declared(<<s>>)))

\* A private condition: both branches are evaluated in the circuit, and all that
\* either of them may modify is assigned.
TransformedPrivateIf(s, rets, g) ==
    LET locs == {l \in Modified(s) : l.x \notin Declared(<<s>>)}
        xs == SetAsSeq({l.x : l \in locs})
    IN  IF ~RequiresVerification(g.f) \/ \E l \in locs : l.k = "idx" THEN Done(s, Fail(g))
        ELSE AssignedOutputs(s, xs, OutputAll(xs, 1, ReadAgain(xs, CircuitBlock(<<s>>, rets, g))), g)

TransformedIf(s, rets, g) ==
    IF s.e.t.p # All THEN TransformedPrivateIf(s, rets, g)
    ELSE IF BlockContainsPrivate(s.then) \/ BlockContainsPrivate(s.else)
    THEN TransformedPublicIf(s, rets, g, GuardOf(s.e, g))
    ELSE TransformedPlainIf(s, rets, XF(s.e, g))

\* Loops are public and left as they are.
TransformedLoop(s, g) == Done(s, g)

TransformedStatement(s, rets, g) ==
    CASE s.k = "while" -> TransformedLoop(s, g)
      [] s.k = "if" -> TransformedIf(s, rets, g)
      [] s.k = "require" /\ s.e.k = "same" -> Done(s, g)
      [] s.k \in {"assign", "decl", "expr", "require", "return"} /\ s.e.k # "same" ->
           TransformedSimple(s, XF(s.e, g))

-----------------------------------------------------------------------------
(* Functions.                                                               *)

\* The compiled function f, from the statements and the helper in r.
Compiled(f, r) ==
    [code |-> r.ss, ins |-> r.g.ins, outs |-> r.g.outs, tmps |-> r.g.tmps, phi |-> r.g.phi,
     calls |-> r.g.calls, keys |-> r.g.keys, proof |-> RequiresVerification(f),
     failed |-> r.g.failed]
CompiledFunctions ==
    [f \in DOMAIN ast |->
        Compiled(f, TransformedBlock(CheckedFunction(f), code[f].rets, NewHelper(f)))]

RECURSIVE Start(_, _, _, _), Total(_, _, _), AllKeys(_, _)
\* Where the inputs (outputs) of the k-th call start, seen from those of f.
Start(fns, f, part, k) ==
    LET calls == fns[f].calls
    IN  IF k = 1 THEN Len(fns[f][part])
        ELSE Start(fns, f, part, k - 1) + Total(fns, calls[k - 1], part)
\* The number of inputs (outputs) of f and of all it calls.
Total(fns, f, part) == Start(fns, f, part, Len(fns[f].calls) + 1)

\* The keys of f and then those of the functions it calls, each once.
RECURSIVE Merged(_, _)
Merged(xs, ys) ==
    IF ys = <<>> THEN xs
    ELSE Merged(IF InSeq(Head(ys), xs) THEN xs ELSE Append(xs, Head(ys)), Tail(ys))
AllKeys(fns, f) ==
    LET c == fns[f].calls
        keys[k \in 0..Len(c)] == IF k = 0 THEN fns[f].keys
                                 ELSE Merged(keys[k - 1], AllKeys(fns, c[k]))
    IN  keys[Len(c)]

InStart(fns, f, k) == Start(fns, f, "ins", k)
\* Mutation: the outputs of calls before the k-th one are not skipped.
OutStartOfFirst(fns, f, k) == Start(fns, f, "outs", 1)
OutStart(fns, f, k) == Start(fns, f, "outs", k)

\* The encrypted arguments, whose encryption the wrapper has checked.
PrivateParams(f) == SelectSeq(code[f].params, LAMBDA x : Type[x].p # All)

\* The keys the wrapper requests: also those its encrypted arguments need.
WrapperKeys(f, keys) ==
    LET params == PrivateParams(f)
    IN  Merged(keys, [n \in DOMAIN params |-> <<Me, Type[params[n]].h>>])

\* Which functions get an external wrapper, and which of them check a proof.
HasWrapper(fns, f) == fns[f].proof \/ PrivateParams(f) # <<>>
NeedsProof(fns, f) == HasWrapper(fns, f) /\ HasSideEffects(f)

\* The functions with the positions of what they hand to the functions they call.
Linked(fns) ==
    [f \in DOMAIN fns |->
        [inStart |-> [k \in DOMAIN fns[f].calls |-> InStart(fns, f, k)],
         outStart |-> [k \in DOMAIN fns[f].calls |-> OutStart(fns, f, k)],
         allKeys |-> AllKeys(fns, f),
         wrapperKeys |-> WrapperKeys(f, AllKeys(fns, f)),
         wrapper |-> HasWrapper(fns, f),
         proven |-> NeedsProof(fns, f)] @@ fns[f]]

\* A contract is compiled if the transformation of no function has failed.
Link(fns) ==
    /\ \A f \in DOMAIN fns : ~fns[f].failed
    /\ contract' = Evaluated(Linked(fns))
Transform ==
    /\ ast # <<>> /\ contract = <<>> /\ Accepted
    /\ Link(Evaluated(CompiledFunctions))
    /\ UNCHANGED <<code, ast>>

\* Where an internal function finds the sender's key: its position among the
\* function's own keys.
KeyPosition(keys, key) == CHOOSE n \in DOMAIN keys : keys[n] = key
MeKeyIndex(f) == KeyPosition(contract[f].allKeys, <<Me, "none">>)
=============================================================================
