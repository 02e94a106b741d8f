----------------------------- MODULE Execution -----------------------------
(***************************************************************************)
(* What a function does: in the source contract, on plain values; in the   *)
(* simulator, which also computes the outputs of the circuit; and on the   *)
(* chain, where the outputs are given. The circuit is satisfied if secret  *)
(* inputs exist for which all of its constraints hold.                     *)
(***************************************************************************)
EXTENDS ContractTransformation

CONSTANT V      \* plain values are 0..V-1, with arithmetic modulo V

Plain(x) == [v |-> x]
Truth(b) == Plain(IF b THEN 1 ELSE 0)
IsTrue(x) == x # Plain(0)
Undefined == [undefined |-> TRUE]

PublicKey(a, h) == [a |-> a, h |-> h]
NoKey == PublicKey("none", "none")

\* A cipher text: the keys it was made with (the receiver's, and the sender's
\* for the symmetric cipher), the sender's key that is stored with it.
NoCipher == [pair |-> {}, from |-> NoKey, h |-> "none", v |-> 0]
Encrypted(x, a, h, me) ==
    IF h = "none"
    THEN [pair |-> {PublicKey(a, h), PublicKey(me, h)}, from |-> PublicKey(me, h),
          h |-> h, v |-> x]
    ELSE [pair |-> {PublicKey(a, h)}, from |-> NoKey, h |-> h, v |-> x]

IsEmpty(c) == c.pair = {}
\* The keys with which the owner of key k decrypts c.
PairOf(c, k) == IF c.h = "none" THEN {k, c.from} ELSE {k}
Readable(c, a) ==
    "pair" \in DOMAIN c /\ (IsEmpty(c) \/ c.pair = PairOf(c, PublicKey(a, c.h)))

Default(kind) == CASE kind = "plain" -> Plain(0)
                   [] kind = "cipher" -> NoCipher
                   [] kind = "key" -> NoKey

\* What a variable of type t holds in the compiled contract.
StoredAs(t) == IF t.p = All THEN "plain" ELSE "cipher"

Arithmetic(f, x) ==
    CASE f = "+" -> Plain((x[1].v + x[2].v) % V)
      [] f = "-" -> Plain((x[1].v + V - x[2].v) % V)
      [] f = "*" -> Plain((x[1].v * x[2].v) % V)
      [] f = "==" -> Truth(x[1] = x[2])
      [] f = "<" -> Truth(x[1].v < x[2].v)

\* An operation on cipher texts under one key; an empty one stands for 0.
Homomorphic(f, x, key) ==
    LET ciphers == {n \in DOMAIN x : "pair" \in DOMAIN x[n]}
        fit == \A n \in ciphers : IsEmpty(x[n]) \/ x[n].pair = {key}
    IN  IF ~fit \/ (f # "*" /\ ciphers # DOMAIN x) THEN Undefined
        ELSE [pair |-> {key}, from |-> NoKey, h |-> key.h, v |-> Arithmetic(f, x).v]

-----------------------------------------------------------------------------
(* The circuit.                                                             *)

RECURSIVE Value(_, _, _)
\* The value of e where w gives those of inputs, outputs and secrets.
Value(e, w, tmps) ==
    LET x == [n \in DOMAIN e.args |-> Value(e.args[n], w, tmps)]
        c == Value(e.args[1], w, tmps)
    IN  CASE e.k = "lit" -> Plain(e.v)
          [] e.k = "circ" -> IF e.i \in DOMAIN w THEN w[e.i]
                             ELSE IF e.i.k = "tmp" THEN Value(tmps[e.i.n], w, tmps)
                             ELSE Undefined
          [] e.k = "op" /\ e.f = "ite" ->
               IF c = Undefined THEN c
               ELSE Value(e.args[IF IsTrue(c) THEN 2 ELSE 3], w, tmps)
          [] e.k = "op" /\ e.f # "ite" ->
               IF \E n \in DOMAIN x : x[n] = Undefined THEN Undefined
               ELSE IF e.h = "none" THEN Arithmetic(e.f, x)
               ELSE Homomorphic(e.f, x, w[e.key])

RECURSIVE Satisfying(_, _), Extended(_, _)

\* The inputs and outputs of the next invocation of f, after those already taken.
Frame(f, x) ==
    LET t == contract[f]
        in(k) == IF x.in + k \in DOMAIN x.ins THEN x.ins[x.in + k] ELSE Default(t.ins[k])
        out(k) == IF x.out + k \in DOMAIN x.outs THEN x.outs[x.out + k]
                  ELSE Default(IF t.outs[k].c THEN "cipher" ELSE "plain")
        ins == {Idf("in", k, t.ins[k] = "cipher") : k \in DOMAIN t.ins}
        outs == {Idf("out", k, t.outs[k].c) : k \in DOMAIN t.outs}
    IN  [x EXCEPT !.w = [i \in ins |-> in(i.n)] @@ [i \in outs |-> out(i.n)] @@ x.keys,
                  !.f = f, !.in = @ + Len(t.ins), !.out = @ + Len(t.outs)]

\* The assignments that extend x and meet one more statement of the circuit.
\* Under a guard that does not hold, nothing is asserted.
Extended(s, x) ==
    LET w == x.w
        me == w[GlobalKey(Me, "none")]
        cipher == w[s.cipher]
        key == w[s.key]
        pair == IF s.h = "none" THEN {me, key} ELSE {key}
        with(y) == [x EXCEPT !.w = (s.plain :> y) @@ @]
        value == Value(s.e, w, contract[x.f].tmps)
    IN  CASE s.k = "let" -> {[x EXCEPT !.w = (s.i :> value) @@ @]}
          [] s.k = "eq" -> IF x.guard => w[s.tgt] = w[s.val] THEN {x} ELSE {}
          [] s.k = "enc" -> IF x.guard => /\ cipher.pair = pair /\ cipher.h = s.h
                                          /\ cipher.v = w[s.plain].v
                            THEN {x} ELSE {}
          [] s.k = "dec" -> IF ~x.guard THEN {with(Plain(n)) : n \in 0..(V - 1)}
                            ELSE IF IsEmpty(cipher) THEN {with(Plain(0))}
                            ELSE IF cipher.pair = pair THEN {with(Plain(cipher.v))} ELSE {}
          [] s.k = "guard" ->
               {[y EXCEPT !.guard = x.guard] :
                   y \in Satisfying(s.body,
                             {[x EXCEPT !.guard = @ /\ (IsTrue(w[s.i]) = s.v)]})}
          [] s.k = "call" ->
               {[y EXCEPT !.w = x.w, !.f = x.f] :
                   y \in Satisfying(contract[s.f].phi, {Frame(s.f, x)})}

Satisfying(ss, xs) ==
    IF ss = <<>> THEN xs
    ELSE Satisfying(Tail(ss), UNION {Extended(Head(ss), x) : x \in xs})

-----------------------------------------------------------------------------
(* The contract and its simulation. n is the state of an execution: store,  *)
(* local variables, the values of the circuit of the current function, the *)
(* arrays of inputs and outputs and where this function's part begins.      *)

AddressOf(label, n) ==
    IF label = Me THEN n.me
    ELSE IF label \in DOMAIN n.lv THEN n.lv[label].a ELSE n.st[label].a

Stored(loc, x, n) ==
    IF loc.k = "idx" THEN [n EXCEPT !.st[loc.x][AddressOf(loc.key, n)] = x]
    ELSE IF loc.x \in StateVars THEN [n EXCEPT !.st[loc.x] = x]
    ELSE [n EXCEPT !.lv = (loc.x :> x) @@ @]

Fails(n, how) == [n EXCEPT !.ok = IF @ = "ok" THEN how ELSE @]

RECURSIVE Eval(_, _), EvalAll(_, _, _), Invoke(_, _, _, _), Run(_, _), Exec(_, _)

EvalAll(es, k, n) ==
    IF k > Len(es) THEN [vs |-> <<>>, n |-> n]
    ELSE LET r == Eval(es[k], n)
             rest == EvalAll(es, k + 1, r.n)
         IN  [vs |-> <<r.v>> \o rest.vs, n |-> rest.n]

\* An operation whose first operand has been evaluated to c.
EvalLazily(e, c) ==
    CASE e.f = "ite" -> Eval(e.args[IF IsTrue(c.v) THEN 2 ELSE 3], c.n)
      [] e.f = "&&" -> IF IsTrue(c.v) THEN Eval(e.args[2], c.n) ELSE c
      [] e.f = "||" -> IF IsTrue(c.v) THEN c ELSE Eval(e.args[2], c.n)

Eval(e, n) ==
    LET r == EvalAll(e.args, 1, n)
        result(x) == [v |-> x, n |-> n]
    IN  CASE e.k = "lit" -> result(Plain(e.v))
          [] e.k = "id" -> result(IF e.x \in StateVars THEN n.st[e.x] ELSE n.lv[e.x])
          [] e.k = "idx" -> result(n.st[e.x][AddressOf(e.key, n)])
          [] e.k = "circ" -> IF e.i \in DOMAIN n.zk THEN result(n.zk[e.i])
                             ELSE [v |-> Plain(0), n |-> Fails(n, "stuck")]
          [] e.k = "reveal" -> Eval(e.e, n)
          [] e.k = "op" -> IF e.f \in ShortCircuit THEN EvalLazily(e, Eval(e.args[1], n))
                           ELSE [v |-> Arithmetic(e.f, r.vs), n |-> r.n]
          [] e.k = "call" -> Invoke(e.f, r.vs, IF "n" \in DOMAIN e THEN e.n ELSE 0, r.n)

Run(ss, n) == IF ss = <<>> THEN n ELSE Run(Tail(ss), Exec(Head(ss), n))

\* The outputs of f, given on the chain; the sender's key is stored with them.
Deserialized(f, n) ==
    LET t == contract[f]
        raw(k) == IF n.out0 + k \in DOMAIN n.outs THEN n.outs[n.out0 + k]
                  ELSE Default(IF t.outs[k].c THEN "cipher" ELSE "plain")
        value(k) == IF t.outs[k].c /\ t.outs[k].h = "none"
                    THEN [raw(k) EXCEPT !.from = n.ins[MeKeyIndex(f)]] ELSE raw(k)
    IN  [i \in {Idf("out", k, t.outs[k].c) : k \in DOMAIN t.outs} |-> value(i.n)]

\* The inputs of f, and when it is simulated its outputs, in their arrays.
Serialized(f, n) ==
    LET in(i) == i.k = "in" /\ i \in DOMAIN n.zk
        ins == {i \in DOMAIN n.zk : i.k = "in"}
        outs == IF n.mode = "simulate" THEN {i \in DOMAIN n.zk : i.k = "out"} ELSE {}
        at(is, start) == [k \in {start + i.n : i \in is} |->
                              n.zk[CHOOSE i \in is : start + i.n = k]]
    IN  [n EXCEPT !.ins = at(ins, n.in0) @@ @, !.outs = at(outs, n.out0) @@ @]

\* A call of f, the k-th one with a circuit in its caller.
Invoke(f, args, k, n) ==
    LET fn == code[f]
        circuit == n.mode # "source" /\ contract[f].proof
        lv == [x \in {fn.params[j] : j \in DOMAIN fn.params} |->
                   args[CHOOSE j \in DOMAIN fn.params : fn.params[j] = x]]
              @@ [x \in {fn.rets[j] : j \in DOMAIN fn.rets} |->
                      Default(IF n.mode = "source" THEN "plain" ELSE StoredAs(Type[x]))]
        inside == [n EXCEPT !.lv = lv, !.f = f, !.zk = <<>>,
                            !.in0 = @ + (IF circuit /\ k > 0 THEN contract[n.f].inStart[k] ELSE 0),
                            !.out0 = @ + (IF circuit /\ k > 0 THEN contract[n.f].outStart[k] ELSE 0)]
        begun == IF circuit /\ n.mode = "chain"
                 THEN [inside EXCEPT !.zk = Deserialized(f, inside)] ELSE inside
        ended == Run(IF n.mode = "source" THEN fn.body ELSE contract[f].code, begun)
        left == IF circuit THEN Serialized(f, ended) ELSE ended
    IN  [v |-> IF fn.rets = <<>> THEN Plain(0) ELSE ended.lv[fn.rets[1]],
         n |-> [left EXCEPT !.lv = n.lv, !.zk = n.zk, !.f = n.f, !.in0 = n.in0,
                            !.out0 = n.out0]]

\* A circuit input with the value in r; the simulator also decrypts it.
CircuitInput(s, r) ==
    LET read == [r.n EXCEPT !.zk = (s.i :> r.v) @@ @]
    IN  IF r.n.mode # "simulate" \/ s.sec = NoIdf THEN read
        ELSE IF Readable(r.v, r.n.me)
        THEN [read EXCEPT !.zk = (s.sec :> Plain(r.v.v)) @@ @]
        ELSE Fails(read, "stuck")

\* The simulator computes an output from the inputs, and encrypts it.
CircuitComputation(s, n) ==
    LET o == contract[n.f].outs[s.i.n]
        keys == [i \in {GlobalKey(p, h) : p \in {StaticLabels[j] : j \in DOMAIN StaticLabels},
                                          h \in {"none", "add"}} |->
                     PublicKey(AddressOf(i.key[1], n), i.key[2])]
        x == Value(Circ(o.of), n.zk @@ keys, contract[n.f].tmps)
        out == IF o.p = All THEN x ELSE Encrypted(x.v, AddressOf(o.p, n), o.h, n.me)
    IN  IF n.mode # "simulate" THEN n
        ELSE IF x = Undefined THEN Fails(n, "stuck")
        ELSE [n EXCEPT !.zk = (s.i :> out) @@ @]

\* Each of xs is assigned; r holds the values.
StoredAll(xs, r) ==
    LET assigned[k \in 0..Len(xs)] ==
            IF k = 0 THEN r.n
            ELSE Stored([k |-> "id", x |-> xs[k]], r.vs[k], assigned[k - 1])
    IN  assigned[Len(xs)]

\* Owners are compared without evaluating anything else.
RequireSame(s, n) ==
    IF AddressOf(s.e.x, n) = AddressOf(s.e.y, n) THEN n ELSE Fails(n, "revert")

\* Statement s, whose expression has been evaluated to r.
ExecValue(s, r) ==
    CASE s.k = "assign" -> Stored(s.lhs, r.v, r.n)
      [] s.k = "decl" -> Stored([k |-> "id", x |-> s.x], r.v, r.n)
      [] s.k = "expr" -> r.n
      [] s.k = "return" -> Stored([k |-> "id", x |-> code[r.n.f].rets[1]], r.v, r.n)
      [] s.k = "require" -> IF IsTrue(r.v) THEN r.n ELSE Fails(r.n, "revert")
      [] s.k = "if" -> Run(IF IsTrue(r.v) THEN s.then ELSE s.else, r.n)
      [] s.k = "while" -> IF IsTrue(r.v) THEN Exec(s, Run(s.body, r.n)) ELSE r.n
      [] s.k = "in" -> CircuitInput(s, r)

Exec(s, n) ==
    IF n.ok # "ok" THEN n
    ELSE CASE s.k = "tuple" -> StoredAll(s.xs, EvalAll(s.es, 1, n))
           [] s.k = "compute" -> CircuitComputation(s, n)
           [] s.k = "key" -> [n EXCEPT !.zk = (s.i :> PublicKey(AddressOf(s.p, n), s.h)) @@ @]
           [] s.k = "sender" -> [n EXCEPT !.zk = (s.i :> n.zk[s.of].from) @@ @]
           [] s.k = "require" /\ s.e.k = "same" -> RequireSame(s, n)
           [] s.k \notin {"tuple", "compute", "key", "sender"} /\ s.e.k # "same" ->
                ExecValue(s, Eval(s.e, n))

-----------------------------------------------------------------------------
(* Calls from outside.                                                      *)

State(mode, st, me, ins, outs) ==
    [mode |-> mode, st |-> st, me |-> me, lv |-> <<>>, zk |-> <<>>, ins |-> ins,
     outs |-> outs, in0 |-> 0, out0 |-> 0, f |-> "none", ok |-> "ok"]

SourceCall(f, args, st, me) == Invoke(f, args, 0, State("source", st, me, <<>>, <<>>)).n

\* The wrapper: static keys and encrypted arguments go first into the array of
\* inputs, then the function is called.
Wrapper(mode, f, args, st, me, outs) ==
    LET keys == contract[f].wrapperKeys
        start == State(mode, st, me, <<>>, outs)
        key(k) == PublicKey(AddressOf(keys[k][1], start), keys[k][2])
        private == SelectSeq([j \in DOMAIN args |-> args[j]],
                             LAMBDA x : "pair" \in DOMAIN x)
        n == Len(keys)
        ins == [k \in 1..(n + Len(private)) |-> IF k <= n THEN key(k) ELSE private[k - n]]
    IN  Invoke(f, args, 0, IF contract[f].wrapper
                           THEN [start EXCEPT !.ins = ins, !.in0 = Len(ins)] ELSE start).n

\* The verifier accepts if secret inputs exist that satisfy the circuit.
Verified(f, n) ==
    LET keys == contract[f].wrapperKeys
        params == PrivateParams(f)
        x == [w |-> <<>>, f |-> f, guard |-> TRUE, ins |-> n.ins, outs |-> n.outs,
              keys |-> [i \in {GlobalKey(keys[k][1], keys[k][2]) : k \in DOMAIN keys} |->
                            n.ins[KeyPosition(keys, i.key)]],
              in |-> Len(keys) + Len(params), out |-> 0]
        encrypted(k) == LET c == n.ins[Len(keys) + k]
                            me == x.keys[GlobalKey(Me, Type[params[k]].h)]
                        IN  c.pair = {me}
    IN  /\ \A k \in DOMAIN params : encrypted(k)
        /\ contract[f].proof => Satisfying(contract[f].phi, {Frame(f, x)}) # {}
=============================================================================
