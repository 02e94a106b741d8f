---------------------------- MODULE PrivacyTypes ----------------------------
(***************************************************************************)
(* The privacy type system: every expression is public (@all) or owned by  *)
(* one address, and is homomorphic or not. Checking a function also        *)
(* elaborates it: where a value changes its owner a reveal is inserted,    *)
(* and each expression is marked to be evaluated in public or in the       *)
(* circuit. Data types are left out (functions are data-well-typed); only  *)
(* constants keep theirs, since they are folded into circuits.             *)
(***************************************************************************)
EXTENDS Naturals, Sequences, FiniteSets, TLC

CONSTANTS
    Me, All,            \* the labels @me and @all
    StateVars,          \* the variables of the contract
    Final,              \* those that are final addresses: owners of others
    Labels,             \* parameters that are addresses
    TypeOf              \* the annotated type of each variable

VARIABLES
    code,   \* the functions of the contract by name: parameters, return
            \* variables and body
    ast     \* the same functions checked: with where each expression is
            \* evaluated, and whether the function needs a proof; or <<>>

LOCAL Part == INSTANCE PartitionState WITH Immutable <- Final \cup {Me, All}

\* x itself, which TLC builds here and not again wherever it is used.
Evaluated(x) == CHOOSE y \in {x} : y = x

Type == Evaluated(TypeOf)

Public == [p |-> All, h |-> "none"]
Mine == [p |-> Me, h |-> "none"]
Err == [k |-> "err"]
Errs(es) == \E i \in DOMAIN es : es[i].k = "err"

SameOwner(A, x, y) == Part!SamePartition(A, x, y)
AtMe(A, t) == t.p # All /\ SameOwner(A, t.p, Me)
Accessible(A, t) == t.p = All \/ AtMe(A, t)

\* The owner of a value of type t where one of type u is expected, or "none".
CombinedPrivacy(A, t, u) ==
    IF t.h # u.h /\ t.p # All THEN "none"
    ELSE IF SameOwner(A, u.p, t.p) THEN t.p
    ELSE IF t.p = All THEN u.p ELSE "none"

InstanceOf(A, e, u) ==
    LET c == CombinedPrivacy(A, e.t, u)
    IN  IF c = "none" THEN "no" ELSE IF c = e.t.p THEN "yes" ELSE "make-private"

Reclassify(e, t, isRehom) ==
    [k |-> "reveal", e |-> e, t |-> t, pe |-> FALSE, rehom |-> isRehom]

IsPublicIte(e) == e.k = "op" /\ e.f = "ite" /\ e.args[1].t.p = All

RECURSIVE CanRehom(_, _), TryRehom(_, _, _)
CanRehom(A, e) ==
    \/ Accessible(A, e.t)
    \/ e.k = "reveal"
    \/ IsPublicIte(e) /\ CanRehom(A, e.args[2]) /\ CanRehom(A, e.args[3])

TryRehom(A, e, u) ==
    IF e.t.p = All THEN Err
    ELSE IF AtMe(A, e.t) THEN Reclassify(e, u, TRUE)
    ELSE IF e.k = "reveal" /\ ~e.rehom THEN [e EXCEPT !.t.h = u.h]
    ELSE IF IsPublicIte(e)
         THEN LET b == [i \in {2, 3} |-> TryRehom(A, e.args[i], u)]
              IN  IF Errs(b) THEN Err
                  ELSE [e EXCEPT !.args[2] = b[2], !.args[3] = b[3], !.t.h = u.h]
    ELSE Err

\* Mutation: the owner of a private value is not looked at.
AsExpectedOfAny(A, e, u) ==
    IF e.t.p = All /\ u.p # All THEN Reclassify(e, u, FALSE) ELSE e

\* e where a value of type u is expected: get_rhs.
AsExpected(A, e, u) ==
    LET first == InstanceOf(A, e, u)
        inst == IF first = "no" THEN InstanceOf(A, e, [u EXCEPT !.h = e.t.h]) ELSE first
    IN  IF inst = "no" \/ (inst = "make-private" /\ u.p = All) THEN Err
        ELSE IF inst = "make-private" THEN Reclassify(e, u, FALSE)
        ELSE IF first = "no" THEN TryRehom(A, e, u)
        ELSE e

OpNode(f, args, t, private, h) ==
    IF Errs(args) THEN Err
    ELSE [k |-> "op", f |-> f, args |-> args, t |-> t, pe |-> FALSE,
          private |-> private, h |-> h]

CombinedHom(A, x, y) ==
    IF x.t.h # y.t.h /\ CanRehom(A, x) THEN y.t.h ELSE x.t.h

\* A conditional: a private condition makes everything private.
TypedIte(A, args) ==
    LET hom == CombinedHom(A, args[2], args[3])
        both == CombinedPrivacy(A, [args[2].t EXCEPT !.h = hom], [args[3].t EXCEPT !.h = hom])
        p == IF both = "none" THEN All ELSE both
        t == IF args[1].t.p # All THEN Mine ELSE [p |-> p, h |-> hom]
    IN  IF t.p = All /\ t.h # "none" THEN Err
        ELSE OpNode("ite",
                    <<args[1], AsExpected(A, args[2], t), AsExpected(A, args[3], t)>>,
                    t, args[1].t.p # All, "none")

TypedPlainOp(A, f, args) ==
    LET private == \E i \in DOMAIN args : args[i].t.p # All
        t == IF private THEN Mine ELSE Public
    IN  OpNode(f, [i \in DOMAIN args |-> AsExpected(A, args[i], t)], t, private, "none")

\* The operations on additively homomorphic ciphertexts, and which of their
\* operands have to be public.
HomomorphicOps ==
    {[f |-> "+", public |-> <<FALSE, FALSE>>], [f |-> "-", public |-> <<FALSE, FALSE>>],
     [f |-> "*", public |-> <<TRUE, FALSE>>], [f |-> "*", public |-> <<FALSE, TRUE>>]}

\* Which operands the selected overload wants public; {} if there is none. The
\* exception for a revealed factor is not restricted to multiplications.
Overload(A, f, args) ==
    LET fits == {o \in HomomorphicOps :
                     o.f = f /\ \A i \in DOMAIN args : o.public[i] => args[i].t.p = All}
        revealed == Cardinality({i \in DOMAIN args : args[i].k = "reveal"}) = 1
    IN  IF fits # {} THEN {(CHOOSE o \in fits : TRUE).public}
        ELSE IF Len(args) = 2 /\ revealed THEN {<<FALSE, FALSE>>} ELSE {}

TypedHomOp(A, f, args) ==
    LET owner == args[CHOOSE i \in DOMAIN args :
                          /\ ~Accessible(A, args[i].t)
                          /\ \A j \in 1..(i - 1) : Accessible(A, args[j].t)].t.p
        t == [p |-> owner, h |-> "add"]
        found == Overload(A, f, args)
        public == CHOOSE o \in found : TRUE
    IN  IF found = {} THEN Err
        ELSE OpNode(f, [i \in DOMAIN args |->
                            AsExpected(A, args[i], IF public[i] THEN Public ELSE t)],
                    t, TRUE, "add")

TypedOp(A, f, args) ==
    IF f = "ite" /\ (args[1].t.p = All \/ \A i \in DOMAIN args : Accessible(A, args[i].t))
    THEN TypedIte(A, args)
    ELSE IF \A i \in DOMAIN args : Accessible(A, args[i].t) THEN TypedPlainOp(A, f, args)
    ELSE TypedHomOp(A, f, args)

\* reveal(e, to): e has to be accessible, and the reveal not redundant.
TypedReveal(A, e, to, hom) ==
    LET h == IF to = All THEN "none" ELSE IF hom = "same" THEN e.t.h ELSE hom
        r == Reclassify(e, [p |-> to, h |-> h], FALSE)
    IN  IF Accessible(A, e.t) /\ InstanceOf(A, r, e.t) # "yes" THEN r ELSE Err

\* The type of a variable; an element of a mapping is owned by its key.
TypeAt(loc) ==
    IF loc.k = "idx" THEN [p |-> loc.key, h |-> Type[loc.x].h] ELSE Type[loc.x]
Known(loc) == loc @@ [t |-> TypeAt(loc), pe |-> FALSE]

RECURSIVE Typed(_, _)
Typed(A, e) ==
    LET args == [i \in DOMAIN e.args |-> Typed(A, e.args[i])]
        inner == Typed(A, e.e)
        params == code[e.f].params
        given == [i \in DOMAIN params |-> AsExpected(A, args[i], Type[params[i]])]
    IN  CASE e.k = "lit" -> [k |-> "lit", v |-> e.v, t |-> Public, pe |-> FALSE]
          [] e.k \in {"id", "idx"} -> Known(e)
          [] e.k = "op" -> IF Errs(args) THEN Err ELSE TypedOp(A, e.f, args)
          [] e.k = "reveal" ->
               IF inner.k = "err" THEN Err ELSE TypedReveal(A, inner, e.to, e.h)
          [] e.k = "call" ->
               IF Errs(args) \/ Errs(given) THEN Err
               ELSE [k |-> "call", f |-> e.f, args |-> given, pe |-> FALSE,
                     t |-> IF code[e.f].rets = <<>> THEN Public
                           ELSE Type[code[e.f].rets[1]]]

-----------------------------------------------------------------------------
(* What a function modifies, and which of them can be part of a circuit.    *)

Vars(locs) == {loc.x : loc \in {l \in locs : l.k = "id"}}
RECURSIVE Calls(_), Modified(_), ModifiedBy(_), Declared(_)

\* The functions called in an expression.
Calls(e) ==
    CASE e.k = "call" -> {e.f} \cup UNION {Calls(e.args[i]) : i \in DOMAIN e.args}
      [] e.k = "op" -> UNION {Calls(e.args[i]) : i \in DOMAIN e.args}
      [] e.k = "reveal" -> Calls(e.e)
      [] OTHER -> {}

ModifiedBy(f) == UNION {Modified(s) : s \in {code[f].body[i] : i \in DOMAIN code[f].body}}

\* The locations a statement modifies, in the functions it calls too.
Modified(s) ==
    LET all(ss) == UNION {Modified(ss[i]) : i \in DOMAIN ss}
        calls(e) == UNION {{l \in ModifiedBy(f) : l.x \in StateVars} : f \in Calls(e)}
    IN  CASE s.k = "assign" -> {s.lhs} \cup calls(s.e)
          [] s.k = "decl" -> {[k |-> "id", x |-> s.x]} \cup calls(s.e)
          [] s.k \in {"expr", "require", "return"} -> calls(s.e)
          [] s.k = "if" -> all(s.then) \cup all(s.else) \cup calls(s.e)
          [] s.k = "while" -> all(s.body) \cup calls(s.e)

\* The names declared in a list of statements.
Declared(ss) ==
    UNION {IF ss[i].k = "decl" THEN {ss[i].x}
           ELSE IF ss[i].k = "if" THEN Declared(ss[i].then) \cup Declared(ss[i].else)
           ELSE {} : i \in DOMAIN ss}

HasSideEffects(f) == \E l \in ModifiedBy(f) : l.x \in StateVars

RECURSIVE InlineableBlock(_), CallsIn(_), Reached(_, _)
\* Only assignments, declarations, conditionals and returns can be inlined.
InlineableBlock(ss) ==
    \A i \in DOMAIN ss :
        /\ ss[i].k \in {"assign", "decl", "if", "return"}
        /\ ss[i].k = "if" => InlineableBlock(ss[i].then) /\ InlineableBlock(ss[i].else)

\* The functions called by statements.
CallsIn(ss) ==
    UNION {LET s == ss[i]
           IN  (IF s.k = "require" /\ s.e.k = "same" THEN {} ELSE Calls(s.e))
               \cup (IF s.k = "if" THEN CallsIn(s.then) \cup CallsIn(s.else) ELSE {})
               \cup (IF s.k = "while" THEN CallsIn(s.body) ELSE {}) : i \in DOMAIN ss}

\* The functions reached from those in fs by calls.
Reached(fs, seen) ==
    IF fs \subseteq seen THEN seen
    ELSE Reached(UNION {CallsIn(code[f].body) : f \in fs}, seen \cup fs)
CalledFunctions(f) == Reached(CallsIn(code[f].body), {})
IsRecursive(f) == f \in CalledFunctions(f)

\* A loop or a recursion, in f or in what it calls.
RECURSIVE HasLoop(_)
HasLoop(ss) ==
    \E i \in DOMAIN ss : \/ ss[i].k = "while"
                         \/ ss[i].k = "if" /\ (HasLoop(ss[i].then) \/ HasLoop(ss[i].else))
HasStaticBody(f) ==
    \A h \in CalledFunctions(f) \cup {f} : ~IsRecursive(h) /\ ~HasLoop(code[h].body)

CanBePrivate(f) ==
    \A h \in CalledFunctions(f) \cup {f} : InlineableBlock(code[h].body)

-----------------------------------------------------------------------------
(* Where expressions are evaluated.                                         *)

RECURSIVE SetEvaluation(_, _), Comply(_, _, _)

\* e with all its parts evaluated in the circuit, or in public.
SetEvaluation(e, private) ==
    IF e.k = "err" \/ (private /\ e.k = "call" /\ HasSideEffects(e.f)) THEN Err
    ELSE IF e.k \in {"op", "call"}
         THEN LET args == [i \in DOMAIN e.args |-> SetEvaluation(e.args[i], private)]
              IN  IF Errs(args) THEN Err ELSE [e EXCEPT !.args = args, !.pe = private]
    ELSE IF e.k = "reveal"
         THEN LET s == SetEvaluation(e.e, private)
              IN  IF s.k = "err" THEN Err ELSE [e EXCEPT !.e = s, !.pe = private]
    ELSE [e EXCEPT !.pe = private]

\* Private operations and everything below them are evaluated in the circuit,
\* what is revealed from a public value is evaluated in public unless constant.
Comply(A, e, inPrivateIf) ==
    IF e.k = "err" THEN Err
    ELSE IF e.k = "reveal"
    THEN LET all == SetEvaluation(e, TRUE)
             mixed == IF e.e.t.p = All /\ (all.k = "err" \/ e.e.k # "lit")
                      THEN SetEvaluation(e.e, FALSE) ELSE all.e
             inner == Comply(A, mixed, inPrivateIf)
         IN  IF \/ inPrivateIf /\ ~SameOwner(A, e.t.p, Me)
                \/ e.e.t.p # All /\ all.k = "err"
                \/ inner.k = "err"
             THEN Err ELSE [e EXCEPT !.e = inner, !.pe = TRUE]
    ELSE IF e.k \in {"op", "call"}
    THEN LET f == IF e.k = "op" /\ e.private THEN SetEvaluation(e, TRUE) ELSE e
             args == IF f.k = "err" THEN <<f>>
                     ELSE [i \in DOMAIN f.args |-> Comply(A, f.args[i], inPrivateIf)]
         IN  IF Errs(args) \/ (f.k = "call" /\ f.pe /\ ~(CanBePrivate(f.f) /\ HasStaticBody(f.f))) THEN Err
             ELSE [f EXCEPT !.args = args]
    ELSE e

\* The owners known to be equal after a statement: require(x == y) tells.
AfterStatement(A, s) ==
    IF s.k = "require" /\ s.e.k = "same" THEN Part!Merge(A, s.e.x, s.e.y) ELSE A

-----------------------------------------------------------------------------
(* Statements.                                                              *)

RECURSIVE CheckedStatement(_, _, _, _), CheckedBlock(_, _, _, _)

CheckedBlock(A, ss, inPrivateIf, rets) ==
    IF ss = <<>> THEN <<>>
    ELSE <<CheckedStatement(A, Head(ss), inPrivateIf, rets)>>
         \o CheckedBlock(AfterStatement(A, Head(ss)), Tail(ss), inPrivateIf, rets)

\* A private condition: only values of the sender may be modified under it.
PrivateIfAllowed(A, s) ==
    /\ \A l \in Modified(s) : l.x \in Declared(<<s>>) \/ SameOwner(A, TypeAt(l).p, Me)
    /\ \A f \in CallsIn(<<s>>) : ~HasSideEffects(f)

\* The type that is expected of the value in s, if there is one.
ExpectedType(s, t, rets) ==
    CASE s.k = "assign" -> TypeAt(s.lhs)
      [] s.k = "decl" -> Type[s.x]
      [] s.k = "return" -> Type[rets[1]]
      [] OTHER -> t

\* The typed expression e of statement s, checked.
CheckedExpression(A, s, e, inPrivateIf, rets) ==
    IF e.k = "err" THEN Err
    ELSE Comply(A, AsExpected(A, e, ExpectedType(s, e.t, rets)), inPrivateIf)

CheckedIf(A, s, c, inPrivateIf, rets) ==
    LET private == c.t.p # All
        then == CheckedBlock(A, s.then, inPrivateIf \/ private, rets)
        else == CheckedBlock(A, s.else, inPrivateIf \/ private, rets)
    IN  IF \/ Errs(then) \/ Errs(else)
           \/ private /\ (InstanceOf(A, c, Mine) = "no" \/ ~PrivateIfAllowed(A, s))
        THEN Err
        ELSE [k |-> "if", e |-> IF private THEN SetEvaluation(c, TRUE) ELSE c,
              then |-> then, else |-> else]

CheckedRequire(s, c) == IF c.t.p # All THEN Err ELSE [s EXCEPT !.e = c]

CheckedWhile(A, s, c, inPrivateIf, rets) ==
    LET body == CheckedBlock(A, s.body, inPrivateIf, rets)
    IN  IF Errs(body) \/ c.t.p # All THEN Err ELSE [s EXCEPT !.e = c, !.body = body]

CheckedAssignment(s, c) == IF s.lhs.x \in Final THEN Err ELSE [s EXCEPT !.e = c]

CheckedReturn(s, c) == [s EXCEPT !.e = c]

\* Statement s with its checked expression c.
CheckedWith(A, s, c, inPrivateIf, rets) ==
    IF c.k = "err" THEN Err
    ELSE CASE s.k = "assign" -> CheckedAssignment(s, c)
           [] s.k \in {"decl", "expr"} -> [s EXCEPT !.e = c]
           [] s.k = "return" -> CheckedReturn(s, c)
           [] s.k = "require" -> CheckedRequire(s, c)
           [] s.k = "while" -> CheckedWhile(A, s, c, inPrivateIf, rets)
           [] s.k = "if" -> CheckedIf(A, s, c, inPrivateIf, rets)

CheckedStatement(A, s, inPrivateIf, rets) ==
    IF s.k = "require" /\ s.e.k = "same" THEN s
    ELSE CheckedWith(A, s, CheckedExpression(A, s, Typed(A, s.e), inPrivateIf, rets),
                     inPrivateIf, rets)

\* Every label on its own: nothing is known at the start of a function.
Unrelated == {{x} : x \in Final \cup Labels \cup {Me, All}}

CheckedBodies ==
    [f \in DOMAIN code |-> CheckedBlock(Unrelated, code[f].body, FALSE, code[f].rets)]

-----------------------------------------------------------------------------
(* Which functions need a proof: private expressions, in them or called.    *)

RECURSIVE IsHybrid(_), BlockIsHybrid(_), ContainsPrivate(_), BlockContainsPrivate(_)

IsHybrid(e) ==
    \/ e.k = "reveal" \/ (e.k = "op" /\ e.private)
    \/ e.k \in {"op", "call"} /\ \E i \in DOMAIN e.args : IsHybrid(e.args[i])

BlockIsHybrid(ss) ==
    \E i \in DOMAIN ss :
        LET s == ss[i]
        IN  \/ ~(s.k = "require" /\ s.e.k = "same") /\ IsHybrid(s.e)
            \/ s.k = "if" /\ (BlockIsHybrid(s.then) \/ BlockIsHybrid(s.else))
            \/ s.k = "while" /\ BlockIsHybrid(s.body)

\* The functions with these bodies. A proof is needed for those with private
\* expressions, in them or in what they call.
Checked(bodies) ==
    [f \in DOMAIN bodies |->
        [body |-> bodies[f],
         verified |-> \E h \in CalledFunctions(f) \cup {f} :
                          ~Errs(bodies[h]) /\ BlockIsHybrid(bodies[h])]]
CheckedFunction(f) == ast[f].body
RequiresVerification(f) == ast[f].verified

ContainsPrivate(e) ==
    \/ e.pe
    \/ e.k \in {"op", "call"} /\ \E i \in DOMAIN e.args : ContainsPrivate(e.args[i])
    \/ e.k = "reveal" /\ ContainsPrivate(e.e)
    \/ e.k = "call" /\ RequiresVerification(e.f)

BlockContainsPrivate(ss) ==
    \E i \in DOMAIN ss :
        LET s == ss[i]
        IN  \/ ~(s.k = "require" /\ s.e.k = "same") /\ ContainsPrivate(s.e)
            \/ s.k = "if" /\ (BlockContainsPrivate(s.then) \/ BlockContainsPrivate(s.else))
            \/ s.k = "while" /\ BlockContainsPrivate(s.body)

\* Loops have to be public.
LoopsPublic(ss) ==
    \A i \in DOMAIN ss :
        ss[i].k = "while" => ~ContainsPrivate(ss[i].e) /\ ~BlockContainsPrivate(ss[i].body)

\* No error was found in any function.
Accepted ==
    \A f \in DOMAIN ast :
        /\ ~Errs(CheckedFunction(f)) /\ LoopsPublic(CheckedFunction(f))
        /\ RequiresVerification(f) => ~IsRecursive(f)

\* The type checker, and the analyses that follow it.
Check ==
    /\ ast = <<>>
    /\ ast' = Checked(Evaluated(CheckedBodies))
    /\ UNCHANGED code
=============================================================================
