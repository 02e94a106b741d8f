--------------------------- MODULE MCExpressions ---------------------------
(* Programs of three functions that call each other in every way, and        *)
(* programs whose expression has operands of every kind. Sizes are scaled     *)
(* down: 4 stands for a narrow integer type, 16 for the 256 bit types.        *)
EXTENDS Expressions

CONSTANTS me, other, noKey, c1, c2, none, vx, vy, vw, vm, local, additive, plain, paillier, ecdh

MCSizes == {4, 16}
MCHomOrder == <<plain, additive>>
MCCryptoOf == (plain :> ecdh) @@ (additive :> paillier)
MCVarType ==
    (vx :> UintType(4)) @@ (vy :> IntType(4)) @@ (vw :> UintType(16)) @@ (vm :> UintType(4))
        @@ (local :> UintType(4))
Store(a, b, c) == (vx :> a) @@ (vy :> b) @@ (vw :> c) @@ (vm :> 1) @@ (local :> 2)
MCStores == {Store(2, 1, 5), Store(3, -2, 14)}

Var(v) == [var |-> v, key |-> noKey]
Elem(k) == [var |-> vm, key |-> k]
Item(k) == [k |-> k, loop |-> "no"]
Read(v) == [value |-> v] @@ Item("read")
Assign(v) == [value |-> v] @@ Item("assign")
Op(f, fits) == [op |-> f, fits |-> fits] @@ Item("op")
Private(h) == [hom |-> h] @@ Item("private")
Statement == Item("statement")
Call(g) == [of |-> g] @@ Item("call")
PrivateCall(g) == [of |-> g, hom |-> plain] @@ Item("privatecall")
In(loop, i) == [i EXCEPT !.loop = loop]

Fn(body, external, params) ==
    [body |-> body, external |-> external, params |-> params, returns |-> UintType(4),
     view |-> FALSE]

\* The Solidity compiler accepts view where no state variable is modified.
Modifies(fns, f) ==
    LET Callees(S) == {i.of : i \in {j \in UNION {fns[g].body : g \in S} :
                                        j.k \in {"call", "privatecall"}}}
        run == FoldLeft(LAMBDA S, g : S \cup Callees(S), {f}, fns)
    IN  \E g \in run : \E i \in fns[g].body : i.k = "assign" /\ i.value.var \in StateVars

WithViews(p) ==
    [p EXCEPT !.fns = [f \in DOMAIN @ |-> [@[f] EXCEPT !.view = ~Modifies(p.fns, f)]]]

Value(v) == [k |-> "value", value |-> v]
Lit(v) == [k |-> "literal", literal |-> v]
CallOf(g) == [k |-> "call", of |-> g]
Expression(f, args, private) == [f |-> f, args |-> args, private |-> private]

Calls(gs) == {Call(g) : g \in gs}

First == {{Read(Var(vx)), Assign(Var(local))}, {Private(additive)}, {In("dowhile", Op("+", TRUE))}}
Second ==
    {{Assign(Var(vy)), Read(Var(local))}, {In("while", Read(Var(vx))), Statement},
     {Private(plain), Read(Elem(me))}}
Third == {{Op("**", TRUE), Assign(Var(vw))}, {Private(plain), Op("==", FALSE)}, {}}
AtMostOne == {{}, {1}, {2}, {3}}
ByThird(gs) ==
    {Calls(gs), {PrivateCall(g) : g \in gs}} \cup {{In("for", i) : i \in Calls(gs)}}

GraphPrograms ==
    {[fns |-> <<Fn(a \cup Calls(ca), TRUE, {}),
                Fn(b \cup Calls(cb), FALSE, {}),
                Fn(c \cup cc, TRUE, {additive})>>,
      expr |-> Expression("args", <<CallOf(1), CallOf(3)>>, FALSE)] :
        a \in First, b \in Second, c \in Third, ca \in {{}, {2}, {3}}, cb \in AtMostOne,
        cc \in UNION {ByThird(gs) : gs \in {{}, {1}, {1, 2}, {2, 3}}}}

Operands ==
    {Value(Var(v)) : v \in {vx, vy, vw}} \cup {Value(Elem(other))} \cup {Lit(v) : v \in {-1, 2, 5}}
        \cup {CallOf(g) : g \in 1 .. 3}

Arguments == {CallOf(g) : g \in 1 .. 3} \cup {Value(Var(vx)), Value(Elem(other))}

MCExprs ==
    {Expression(f, <<a, b>>, p) : f \in Operators, a \in Operands, b \in Operands, p \in BOOLEAN}
    \cup {Expression("args", <<a, b, c>>, FALSE) : a \in Arguments, b \in Arguments, c \in Arguments}

ExprFns ==
    <<Fn({Read(Var(vx)), Read(Elem(me))}, FALSE, {}),
      Fn({Read(Var(vx)), Assign(Var(vx))}, FALSE, {}),
      Fn({Read(Var(vy)), Assign(Elem(me)), Call(1)}, FALSE, {})>>

ExprPrograms ==
    {[fns |-> ExprFns, expr |-> e] :
        e \in {d \in MCExprs :
                  /\ d.private => d.f \notin {"/", "%"} /\ \A i \in {1, 2} : d.args[i].k = "value"
                  /\ d.args[1].k = "literal" => d.args[2].k # "literal" \/ d.f \notin {"/", "%", "<<"}}}

MCPrograms == {WithViews(p) : p \in GraphPrograms \cup ExprPrograms}
=============================================================================
