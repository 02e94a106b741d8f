-------------------------- MODULE MCAliasAnalysis --------------------------
(* Function bodies of one compound statement between two simple ones, over a *)
(* state variable sv, a final one fv, a parameter pv and a local name nv.    *)
EXTENDS AliasAnalysis, FiniteSetsExt

CONSTANTS me, all, sv, fv, pv, nv, fresh, call, a1, a2, everybody

MCImmutable == {me, all, fv}

\* How deep a statement with these parts is.
Over(parts) == 1 + Max({p.depth : p \in parts} \cup {0})

\* Statements, before they are placed in a scope.
Outer == [visible |-> {sv, fv, pv, me, all}, pending |-> {}, hidden |-> {}, loop |-> FALSE,
          exits |-> {}]
Simply(k) == [k |-> k, depth |-> 0, scope |-> Outer]
None == Simply("none")
CallIt == Simply("call")
Set(x, r) == [k |-> "assign", lhs |-> <<x>>, rhs |-> <<r>>, depth |-> 0, scope |-> Outer]
Pair(x, q, y, r) ==
    [k |-> "assign", lhs |-> <<x, y>>, rhs |-> <<q, r>>, depth |-> 0, scope |-> Outer]
Decl(x, r) == [k |-> "decl", var |-> x, rhs |-> r, depth |-> 0, scope |-> Outer]
Require(c) == [k |-> "require", cond |-> c, depth |-> 0, scope |-> Outer]

List(ss) ==
    LET list[i \in 1..(Len(ss) + 1)] ==
            IF i > Len(ss) THEN None
            ELSE [k |-> "list", first |-> ss[i], rest |-> list[i + 1],
                  depth |-> Over({ss[i], list[i + 1]}), scope |-> Outer]
    IN  list[1]
BlockOf(names, ss) ==
    LET body == List(ss)
    IN  [k |-> "block", names |-> names, body |-> body, depth |-> Over({body}), scope |-> Outer]
Scope(ss) == BlockOf({nv}, ss)

\* The part that consists of the statements ss.
Part(ss) == IF ss = <<>> THEN None ELSE IF Len(ss) = 1 THEN ss[1] ELSE BlockOf({}, ss)

If(c, ts, es) ==
    LET t == Part(ts)
        e == Part(es)
    IN  [k |-> "if", cond |-> c, then |-> t, else |-> e, depth |-> Over({t, e}), scope |-> Outer]
While(c, ss) ==
    LET b == Part(ss)
    IN  [k |-> "while", cond |-> c, body |-> b, depth |-> Over({b}), scope |-> Outer]
DoWhile(c, ss) == [While(c, ss) EXCEPT !.k = "dowhile"]
For(i, c, us, ss) ==
    LET b == Part(ss)
        u == Part(us)
    IN  [k |-> "for", names |-> {nv}, init |-> i, cond |-> c, update |-> u, body |-> b,
         depth |-> Over({i, u, b}), scope |-> Outer]

\* s and its parts in their scopes.
RECURSIVE Placed(_, _)
Placed(s, sc) ==
    LET t == [s EXCEPT !.scope = sc]
        inFor == Declaring(Opened(sc, s.names), s.init)
    IN  CASE s.k = "list" ->
                [t EXCEPT !.first = Placed(@, IF @.k = "decl" THEN sc ELSE Inner(sc)),
                          !.rest = Placed(@, Declaring(sc, s.first))]
          [] s.k = "block" -> [t EXCEPT !.body = Placed(@, Opened(sc, s.names))]
          [] s.k = "if" -> [t EXCEPT !.then = Placed(@, Inner(sc)), !.else = Placed(@, Inner(sc))]
          [] s.k \in {"while", "dowhile"} -> [t EXCEPT !.body = Placed(@, Looped(sc, ExitsOf(s)))]
          [] s.k = "for" ->
                [t EXCEPT !.init = Placed(@, Opened(sc, s.names)),
                          !.update = Placed(@, Inner(inFor)),
                          !.body = Placed(@, Looped(inFor, ExitsOf(s)))]
          [] OTHER -> t

\* A union of large sets: TLC sorts the first when it compares it.
Plus(ss, ts) == IF ss = {} THEN ts ELSE ss \cup ts

\* The statements in ss and their parts, level by level.
Field(ss, f) == {s[f] : s \in {t \in ss : f \in DOMAIN t}}
PartsOf(ss) ==
    Plus(Field(ss, "body"), Plus(Field(ss, "rest"), Plus(Field(ss, "first"),
         Field(ss, "then") \cup Field(ss, "else") \cup Field(ss, "init") \cup Field(ss, "update"))))

RECURSIVE AllParts(_)
AllParts(ss) == IF ss = {} THEN {} ELSE ss \cup AllParts(PartsOf(ss))

Eq(x, y) == [op |-> "eq", l |-> x, r |-> y, labels |-> {x, y} \ {fresh}, depth |-> 0]
Ne(x, y) == [Eq(x, y) EXCEPT !.op = "ne"]
Not(c) == [op |-> "not", l |-> c, labels |-> c.labels, depth |-> Over({c})]
And(c, d) ==
    [op |-> "and", l |-> c, r |-> d, labels |-> c.labels \cup d.labels, depth |-> Over({c, d})]
Or(c, d) == [And(c, d) EXCEPT !.op = "or"]
Opaque == [op |-> "opaque", labels |-> {}, depth |-> 0]
Calls == [op |-> "call", labels |-> {}, depth |-> 0]

RECURSIVE AllOperands(_)
AllOperands(cs) ==
    LET operators == {c \in cs : c.op \in {"not", "and", "or"}}
    IN  IF cs = {} THEN {}
        ELSE cs \cup AllOperands({c.l : c \in operators}
                                  \cup {c.r : c \in {d \in operators : d.op # "not"}})

First == {Set(sv, pv), Set(pv, me), Require(Eq(fv, me)), Require(And(Eq(sv, pv), Opaque))}
Simple ==
    {Set(sv, pv), Set(pv, fv), Set(pv, fresh), Set(sv, call), Pair(sv, pv, pv, me),
     Require(Eq(pv, sv)), Require(Not(Calls)), CallIt}
Conds ==
    {Eq(pv, me), Ne(sv, pv), Not(And(Eq(pv, fv), Opaque)), Not(Or(Ne(pv, sv), Ne(fv, pv))),
     Eq(sv, fresh), Opaque, Calls}

Compound ==
    {If(c, <<a>>, <<b>>) : c \in Conds, a \in Simple, b \in Simple}
    \cup {If(c, <<a>>, <<>>) : c \in Conds \ {Calls}, a \in Simple}
    \cup {While(c, <<a>>) : c \in Conds, a \in Simple}
    \cup {DoWhile(c, <<a>>) : c \in Conds, a \in Simple}
    \cup {For(Decl(nv, pv), c, <<Set(nv, sv)>>, <<a>>) :
             c \in Conds \cup {Ne(nv, me)}, a \in Simple}
    \cup {For(Decl(nv, me), c, <<>>, <<b>>) :
             c \in {Ne(nv, pv)}, b \in {Require(Eq(sv, nv))}}
    \cup {Scope(<<Decl(nv, r), a>>) : r \in {pv, fresh, call}, a \in Simple \cup {Set(nv, sv)}}
    \cup {While(c, <<a, If(Eq(pv, me), <<Simply(k)>>, <<>>), Set(pv, me)>>) :
             c \in {Opaque, Eq(sv, pv)}, k \in {"break", "continue", "return"}, a \in Simple}
    \cup {While(Ne(pv, me), <<If(c, <<Simply("continue")>>, <<>>), a>>) :
             c \in {Eq(sv, pv), Opaque}, a \in Simple}
    \cup {While(Ne(pv, me), <<If(c, <<a>>, <<>>), Set(sv, pv)>>) :
             c \in {Eq(sv, pv), Opaque}, a \in Simple}

Function(ss) == Placed(BlockOf({}, ss), Outer)
MCPrograms == {Function(<<a, b>>) : a \in First, b \in Compound}

\* A loop that is left by break.
MCBreak == {Function(<<While(Ne(pv, me), <<If(Opaque, <<Simply("break")>>, <<>>), a>>)>>) :
               a \in Simple}

MCNodes ==
    LET statements == AllParts(Programs)
    IN  statements \cup AllOperands(Field(statements, "cond"))

\* The programs of the other runs have none of the statements that are misjudged.
ASSUME JudgedAssumption == Programs # MCBreak => \A s \in Statements : Judged(s)
=============================================================================
