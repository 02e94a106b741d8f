--------------------------- MODULE CircuitHelper ---------------------------
(***************************************************************************)
(* The transformation of a checked function into Solidity statements and   *)
(* an abstract proof circuit. A helper g holds what CircuitHelper holds:   *)
(* the circuit (phi), its inputs, outputs and temporaries, the circuit     *)
(* value that stands for each variable (rmap), the requested keys, and the *)
(* statements that go before the current one (pre). An operator returns    *)
(* its result with the helper it leaves behind.                            *)
(***************************************************************************)
EXTENDS PrivacyTypes

CONSTANT StaticLabels   \* @me and the final addresses, in their order

\* A circuit value: kind, number, and whether it is a cipher text.
Idf(k, n, c) == [k |-> k, n |-> n, c |-> c, key |-> <<>>]
NoIdf == Idf("none", 0, FALSE)
Circ(i) == [k |-> "circ", i |-> i, t |-> Public, pe |-> FALSE]
GlobalKey(label, h) == [Idf("key", 0, FALSE) EXCEPT !.key = <<label, h>>]

Emptied(g) == [g EXCEPT !.pre = <<>>, !.dyn = <<>>]
NewHelper(f) ==
    [f |-> f, phi |-> <<>>, ins |-> <<>>, outs |-> <<>>, tmps |-> <<>>, secs |-> 0,
     rmap |-> <<>>, keys |-> <<>>, dyn |-> <<>>, pre |-> <<>>, calls |-> <<>>,
     A |-> Unrelated, failed |-> FALSE]

Remapped(g, x) == x \in DOMAIN g.rmap
Remap(g, x, i) == [g EXCEPT !.rmap = (x :> i) @@ @]
Forget(g, xs) == [g EXCEPT !.rmap = [x \in DOMAIN @ \ xs |-> @[x]]]
\* Mutation: what is overwritten in public code keeps its cached value.
InvalidateNothing(g, locs) == g
Invalidate(g, locs) == Forget(g, Vars(locs))

Constrain(g, c) == [g EXCEPT !.phi = Append(@, c)]
Before(g, s) == [g EXCEPT !.pre = Append(@, s)]
Fail(g) == [g EXCEPT !.failed = TRUE]
NewIn(g, kind) ==
    [i |-> Idf("in", Len(g.ins) + 1, kind = "cipher"),
     g |-> [g EXCEPT !.ins = Append(@, kind)]]

IsCipher(e) == e.t.h = "cipher" \/ (e.k = "circ" /\ e.i.c)
AsCipher(e) == [e EXCEPT !.t = [p |-> All, h |-> "cipher", of |-> e.t]]
IsHomOp(e) == e.k = "op" /\ e.h # "none"

\* What h guards: all that was added to the circuit since g.
Guarded(g, h, i, value) ==
    [h EXCEPT !.phi =
        Append(g.phi, [k |-> "guard", i |-> i, v |-> value,
                       body |-> SubSeq(@, Len(g.phi) + 1, Len(@))])]

-----------------------------------------------------------------------------
(* Keys and encryption.                                                     *)

\* The static label that is known to be the same address, if there is one.
CanonicalLabel(A, p) ==
    LET same == {n \in DOMAIN StaticLabels : SameOwner(A, StaticLabels[n], p)}
    IN  IF same = {} THEN p ELSE StaticLabels[CHOOSE n \in same : \A m \in same : n <= m]

IsStatic(p) == \E n \in DOMAIN StaticLabels : StaticLabels[n] = p
InSeq(x, xs) == \E n \in DOMAIN xs : xs[n] = x

\* A key that the contract asks the PKI for and hands to the circuit.
RequestKey(g, p, h) ==
    LET r == NewIn(g, "key")
    IN  [i |-> r.i, g |-> Before(r.g, [k |-> "key", i |-> r.i, p |-> p, h |-> h])]

\* Static keys are requested once by the wrapper, others on the spot.
RequireKey(g, p, h) ==
    IF IsStatic(p)
    THEN [i |-> GlobalKey(p, h),
          g |-> IF InSeq(<<p, h>>, g.keys) THEN g
                ELSE [g EXCEPT !.keys = Append(@, <<p, h>>)]]
    ELSE IF p \in DOMAIN g.dyn THEN [i |-> g.dyn[p], g |-> g]
    ELSE LET r == RequestKey(g, p, h)
         IN  [i |-> r.i, g |-> [r.g EXCEPT !.dyn = (p :> r.i) @@ @]]

\* The sender's key that is stored with a cipher text.
SenderKey(g, cipher) ==
    LET r == NewIn(g, "key")
    IN  [i |-> r.i, g |-> Before(r.g, [k |-> "sender", i |-> r.i, of |-> cipher])]

\* The constraints: plain and cipher text belong together, in an encryption or
\* a decryption, and two values are equal.
EncConstraint(kind, plain, key, h, cipher) ==
    [k |-> kind, plain |-> plain, key |-> key, h |-> h, cipher |-> cipher]
EqConstraint(tgt, val) == [k |-> "eq", tgt |-> tgt, val |-> val]

\* cipher holds plain, encrypted for p.
EnsureEncryption(g, plain, p, h, cipher) ==
    LET me == IF h = "none" THEN RequireKey(g, Me, h) ELSE RequireKey(g, p, h)
        key == RequireKey(me.g, p, h)
    IN  Constrain(key.g, EncConstraint("enc", plain, key.i, h, cipher))

\* plain is what the sender decrypts cipher to.
EnsureDecryption(g, plain, h, cipher) ==
    LET me == RequireKey(g, Me, h)
        key == IF h # "none" THEN me ELSE SenderKey(me.g, cipher)
    IN  Constrain(key.g, EncConstraint("dec", plain, key.i, h, cipher))

-----------------------------------------------------------------------------
(* Expressions.                                                             *)

\* What visitor v makes of x: T_e is the transformer of expressions in Solidity,
\* T_phi that of expressions in the circuit, "block" that of their statements.
RECURSIVE Visit(_, _, _), VisitAll(_, _, _, _), BindAll(_, _, _, _),
          JoinKeys(_, _, _, _, _)
XF(e, g) == Visit("T_e", e, g)
CF(e, g) == Visit("T_phi", e, g)
CircuitBlock(ss, rets, g) == Visit("block", [ss |-> ss, rets |-> rets], g)

\* The sequence es, each transformed after the one before.
VisitAll(v, es, n, g) ==
    IF n > Len(es) THEN [es |-> <<>>, g |-> g]
    ELSE LET r == Visit(v, es[n], g)
             rest == VisitAll(v, es, n + 1, r.g)
         IN  [es |-> <<r.e>> \o rest.es, g |-> rest.g]
XFAll(es, g) == VisitAll("T_e", es, 1, g)
CFAll(es, g) == VisitAll("T_phi", es, 1, g)

\* The value of e as a circuit variable: r is what T_phi makes of e.
NewTemporary(r) ==
    LET i == Idf("tmp", Len(r.g.tmps) + 1, IsCipher(r.e))
    IN  [i |-> i, g |-> Constrain([r.g EXCEPT !.tmps = Append(@, r.e)],
                                  [k |-> "let", i |-> i, e |-> r.e])]
EvaluatePrivate(e, g) ==
    IF e.k = "circ" THEN [i |-> e.i, g |-> g] ELSE NewTemporary(CF(e, g))

\* An input that is read from r.e, of which the circuit holds the plain value sec.
InputFrom(r, i, sec) == [k |-> "in", i |-> i, e |-> r.e, sec |-> sec]
PublicInput(r, new) == [i |-> new.i, g |-> Before(new.g, InputFrom(r, new.i, NoIdf))]
PrivateInput(r, h, new, sec) ==
    [i |-> sec, g |-> EnsureDecryption(Before(new.g, InputFrom(r, new.i, sec)), sec, h, new.i)]

\* Move the value of e, which T_e has made r of, into the circuit.
NewInput(e, r) ==
    IF r.e.k = "lit" THEN EvaluatePrivate(r.e, r.g)
    ELSE IF e.k = "id" /\ Remapped(r.g, e.x) THEN [i |-> r.g.rmap[e.x], g |-> r.g]
    ELSE IF e.t.p = All
    THEN PublicInput(r, NewIn(r.g, IF IsCipher(e) THEN "cipher" ELSE "plain"))
    ELSE PrivateInput(r, e.t.h, NewIn([r.g EXCEPT !.secs = @ + 1], "cipher"),
                      Idf("sec", r.g.secs + 1, FALSE))

\* The circuit value of a variable is kept for later.
Kept(e, new) ==
    [new EXCEPT !.g = IF e.k = "id" THEN Remap(@, e.x, new.i) ELSE @]
AddInput(e, g) == Kept(e, NewInput(e, XF(e, g)))

\* The guard of a condition can be read in Solidity only if it is an input.
Guard(r) ==
    LET literal == r.i.k = "tmp" /\ r.g.tmps[r.i.n].k = "lit"
    IN  [e |-> IF literal THEN r.g.tmps[r.i.n] ELSE Circ(r.i), i |-> r.i,
         g |-> IF r.i.k \in {"in", "out"} \/ literal THEN r.g ELSE Fail(r.g)]
GuardOf(e, g) == Guard(AddInput(e, g))

\* e under a guard; what it needs beforehand is guarded in Solidity too.
XFGuarded(guard, value, e, g) ==
    LET r == XF(e, g)
        h == Guarded(g, r.g, guard.i, value)
        new == SubSeq(h.pre, Len(g.pre) + 1, Len(h.pre))
        then == [k |-> "if", e |-> guard.e, then |-> IF value THEN new ELSE <<>>,
                 else |-> IF value THEN <<>> ELSE new]
    IN  [e |-> r.e, g |-> IF new = <<>> THEN h ELSE [h EXCEPT !.pre = Append(g.pre, then)]]

ShortCircuit == {"ite", "&&", "||"}

\* A public operation with a guard for its later operands, which it evaluates
\* conditionally.
XFShortCircuit(e, guard) ==
    LET two == XFGuarded(guard, e.f # "||", e.args[2], guard.g)
        three == XFGuarded(guard, FALSE, e.args[3], two.g)
    IN  IF e.f = "ite"
        THEN [e |-> [e EXCEPT !.args = <<guard.e, two.e, three.e>>], g |-> three.g]
        ELSE [e |-> [e EXCEPT !.args = <<guard.e, two.e>>], g |-> two.g]

\* A call in Solidity: its circuit is included, or its effects are noted.
XFCall(e, g) ==
    LET r == XFAll(e.args, g)
        state == {l \in ModifiedBy(e.f) : l.x \in StateVars}
        call == [e EXCEPT !.args = r.es] @@ [n |-> Len(r.g.calls) + 1]
    IN  IF RequiresVerification(e.f)
        THEN [e |-> call, g |-> Constrain([r.g EXCEPT !.calls = Append(@, e.f)],
                                          [k |-> "call", f |-> e.f])]
        ELSE [e |-> call, g |-> IF HasSideEffects(e.f) THEN Invalidate(r.g, state) ELSE r.g]

\* The value r of own, computed in the circuit, as an output for label.
NewOutput(own, r, label, encrypted, h) ==
    LET out == Idf("out", Len(r.g.outs) + 1, IsCipher(own) \/ encrypted)
        output == [of |-> r.i, p |-> IF encrypted THEN label ELSE All, h |-> h, c |-> out.c]
        g == [r.g EXCEPT !.outs = Append(@, output)]
    IN  [e |-> Circ(out),
         g |-> Before(IF encrypted THEN EnsureEncryption(g, r.i, label, h, out)
                      ELSE Constrain(g, EqConstraint(r.i, out)), [k |-> "compute", i |-> out])]

ValueInCircuit(own, g) ==
    IF own.k = "circ" \/ own.t.p # All \/ own.pe THEN EvaluatePrivate(own, g)
    ELSE AddInput(own, g)
Operand(e) == IF IsHomOp(e) THEN AsCipher(e) ELSE e

\* Mutation: what is for the sender needs no encryption.
CircuitOutputUnencrypted(e, p, h, g) ==
    NewOutput(Operand(e), ValueInCircuit(Operand(e), g), CanonicalLabel(g.A, p),
              ~IsCipher(Operand(e)) /\ p # All /\ ~SameOwner(g.A, p, Me), h)

\* The value of e as an output for p: encrypted, unless it is public.
CircuitOutput(e, p, h, g) ==
    NewOutput(Operand(e), ValueInCircuit(Operand(e), g), CanonicalLabel(g.A, p),
              ~IsCipher(Operand(e)) /\ p # All, h)

\* Private operations and reveals become outputs of the circuit.
TransformedExpression(e, g) ==
    LET parts == XFAll(e.args, g)
    IN  CASE e.k \in {"lit", "id", "idx", "circ"} -> [e |-> e, g |-> g]
          [] e.k = "reveal" -> CircuitOutput(e.e, e.t.p, e.t.h, g)
          [] e.k = "op" /\ e.private -> CircuitOutput(e, e.t.p, e.h, g)
          [] e.k = "op" /\ ~e.private ->
               IF /\ e.f \in ShortCircuit
                  /\ \E n \in 2..Len(e.args) : ContainsPrivate(e.args[n])
               THEN XFShortCircuit(e, GuardOf(e.args[1], g))
               ELSE [e |-> [e EXCEPT !.args = parts.es], g |-> parts.g]
          [] e.k = "call" -> XFCall(e, g)

\* An operation on cipher texts: its private operands are taken encrypted. A
\* revealed factor is taken as a plain value, and the product is randomised anew.
CFHomomorphic(e, g) ==
    LET of == IF e.t.h = "cipher" THEN e.t.of ELSE e.t
        key == RequireKey(g, of.p, "add")
        operand(a) == IF e.f = "*" /\ a.k = "reveal" THEN a.e
                      ELSE IF a.t.p # All THEN AsCipher(a) ELSE a
        r == CFAll([n \in DOMAIN e.args |-> operand(e.args[n])], key.g)
    IN  [e |-> [e EXCEPT !.args = r.es, !.t = [p |-> All, h |-> "cipher", of |-> of]]
               @@ [key |-> key.i], g |-> r.g]

\* A location: the circuit value that stands for it, or else a new input.
CFInput(e, g) == LET r == AddInput(e, g) IN [e |-> Circ(r.i), g |-> r.g]
CFIdentifier(e, g) ==
    IF Remapped(g, e.x) THEN [e |-> Circ(g.rmap[e.x]), g |-> g] ELSE CFInput(e, g)

CFReveal(e, g) ==
    IF IsCipher(e) THEN CircuitOutput(e.e, e.t.of.p, e.t.of.h, g)
    ELSE IF e.e.pe THEN CF(e.e, g) ELSE CFInput(e.e, g)

-----------------------------------------------------------------------------
(* Statements inside the circuit.                                           *)

\* The value new is the latest version of x.
Versioned(x, new) == Remap(new.g, x, new.i)
NewVersion(x, e, g) == Versioned(x, EvaluatePrivate(e, g))

BindAll(xs, es, n, g) ==
    IF n > Len(xs) THEN g ELSE BindAll(xs, es, n + 1, NewVersion(xs[n], es[n], g))

\* The values of the caller's variables before h, those of others after h.
LeaveScope(g, h, kept) ==
    [h EXCEPT !.rmap = [x \in DOMAIN h.rmap \cap kept |-> h.rmap[x]] @@ g.rmap]

InlineCall(e, g) ==
    LET fn == code[e.f]
        h == CircuitBlock(CheckedFunction(e.f), fn.rets, BindAll(fn.params, e.args, 1, g))
        names == StateVars \cup {fn.params[n] : n \in DOMAIN fn.params}
                 \cup {fn.rets[n] : n \in DOMAIN fn.rets}
    IN  [e |-> Circ(h.rmap[fn.rets[1]]), g |-> LeaveScope(g, h, names)]

CircuitAssignment(s, g) ==
    IF s.lhs.k = "id" THEN NewVersion(s.lhs.x, s.e, g) ELSE Fail(g)

ReadOnly(i) == i.k \in {"in", "out", "sec"}
Variable(x) == Known([k |-> "id", x |-> x])

\* The versions after two branches: of a variable that only one of them knows,
\* the other version is read again.
JoinedVersion(x, cond, then, else, g) ==
    LET side(m) == IF x \in DOMAIN m THEN Circ(m[x]) ELSE Variable(x)
    IN  NewVersion(x, OpNode("ite", <<Circ(cond), side(then), side(else)>>, Mine, TRUE, "none"), g)
Joined(x, cond, then, else, g) ==
    LET one == IF x \in DOMAIN then THEN then[x] ELSE else[x]
        both == x \in DOMAIN then \cap DOMAIN else
    IN  IF IF both THEN then[x] = else[x] ELSE ReadOnly(one) THEN Remap(g, x, one)
        ELSE JoinedVersion(x, cond, then, else, g)
JoinKeys(xs, cond, then, else, g) ==
    IF xs = {} THEN g
    ELSE LET x == CHOOSE y \in xs : TRUE
         IN  JoinKeys(xs \ {x}, cond, then, else, Joined(x, cond, then, else, g))

\* Both branches start with the versions of g; c is the value of the condition
\* and then what the first branch has left.
CircuitElse(s, rets, g, c, then) ==
    LET afterThen == [Guarded(c.g, then, c.i, TRUE) EXCEPT !.rmap = g.rmap]
        else == CircuitBlock(s.else, rets, afterThen)
        afterElse == IF s.else = <<>> THEN afterThen ELSE Guarded(afterThen, else, c.i, FALSE)
        xs == (DOMAIN then.rmap \cup DOMAIN else.rmap) \ Declared(<<s>>)
    IN  JoinKeys(xs, c.i, then.rmap, else.rmap, [afterElse EXCEPT !.rmap = <<>>])
CircuitBranches(s, rets, g, c) ==
    CircuitElse(s, rets, g, c, CircuitBlock(s.then, rets, c.g))
CircuitIf(s, rets, g) == CircuitBranches(s, rets, g, EvaluatePrivate(s.e, g))

CircuitStatement(s, rets, g) ==
    CASE s.k = "assign" -> CircuitAssignment(s, g)
      [] s.k = "decl" -> NewVersion(s.x, s.e, g)
      [] s.k = "return" -> NewVersion(rets[1], s.e, g)
      [] s.k = "if" -> CircuitIf(s, rets, g)
      [] OTHER -> Fail(g)

\* An expression inside the circuit.
CircuitExpression(e, g) ==
    LET parts == CFAll(e.args, g)
    IN  CASE e.k \in {"lit", "circ"} -> [e |-> e, g |-> g]
          [] e.k = "id" -> CFIdentifier(e, g)
          [] e.k = "idx" -> CFInput(e, g)
          [] e.k = "reveal" -> CFReveal(e, g)
          [] e.k = "op" /\ IsHomOp(e) -> CFHomomorphic(e, g)
          [] e.k = "op" /\ ~IsHomOp(e) -> [e |-> [e EXCEPT !.args = parts.es], g |-> parts.g]
          [] e.k = "call" -> InlineCall(e, g)

Visit(v, x, g) ==
    CASE v = "T_e" -> TransformedExpression(x, g)
      [] v = "T_phi" -> CircuitExpression(x, g)
      [] v = "block" ->
           IF x.ss = <<>> THEN g
           ELSE CircuitBlock(Tail(x.ss), x.rets, CircuitStatement(Head(x.ss), x.rets, g))
=============================================================================

