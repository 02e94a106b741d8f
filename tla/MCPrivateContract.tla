------------------------- MODULE MCPrivateContract -------------------------
(***************************************************************************)
(* A contract with a final owner, two values it owns (one homomorphic), a  *)
(* mapping of private values and a public counter. There is a contract for *)
(* each pair of statements from a pool: its main function is that pair.    *)
(***************************************************************************)
EXTENDS PrivateContract

T(p, h) == [p |-> p, h |-> h]
Types ==
    [own |-> T("all", "none"), a |-> T("own", "none"), b |-> T("own", "add"),
     bal |-> T("key", "none"), n |-> T("all", "none"),
     to |-> T("all", "none"), p |-> T("me", "none"),
     q |-> T("me", "none"), qr |-> T("me", "none"), w |-> T("me", "none"),
     l |-> T("me", "none"), m |-> T("all", "none"), pr |-> T("all", "none")]

Lit(x) == [k |-> "lit", v |-> x]
Id(x) == [k |-> "id", x |-> x]
At(key) == [k |-> "idx", x |-> "bal", key |-> key]
Op(f, x, y) == [k |-> "op", f |-> f, args |-> <<x, y>>]
Ite(c, x, y) == [k |-> "op", f |-> "ite", args |-> <<c, x, y>>]
Reveal(x, to) == [k |-> "reveal", e |-> x, to |-> to, h |-> "none"]
RevealHom(x, to) == [k |-> "reveal", e |-> x, to |-> to, h |-> "add"]
Call(f, args) == [k |-> "call", f |-> f, args |-> args]
Assign(lhs, e) == [k |-> "assign", lhs |-> lhs, e |-> e]
Decl(x, e) == [k |-> "decl", x |-> x, e |-> e]
Do(e) == [k |-> "expr", e |-> e]
Require(e) == [k |-> "require", e |-> e]
Same(x, y) == [k |-> "require", e |-> [k |-> "same", x |-> x, y |-> y]]
Return(e) == [k |-> "return", e |-> e]
If(e, then, else) == [k |-> "if", e |-> e, then |-> then, else |-> else]
While(e, body) == [k |-> "while", e |-> e, body |-> body]
Fn(params, rets, body) == [params |-> params, rets |-> rets, body |-> body]

\* Functions that are called: one for circuits, one with effects, two with proofs.
Callees ==
    ("double" :> Fn(<<"q">>, <<"qr">>,
                   <<If(Op("==", Id("q"), Lit(0)), <<Assign(Id("q"), Lit(1))>>, <<>>),
                     Return(Op("+", Id("q"), Id("q")))>>) @@
     "clear" :> Fn(<<>>, <<>>, <<Assign(Id("n"), Lit(0))>>) @@
     "bump" :> Fn(<<>>, <<"pr">>, <<Assign(Id("n"), Op("+", Id("n"), Lit(1))), Return(Id("n"))>>) @@
     "put" :> Fn(<<"w">>, <<>>,
                <<Decl("l", Call("double", <<Id("w")>>)),
                  Assign(At("me"), Op("+", Id("l"), Id("w")))>>))

\* Statements of functions that only the owner can call.
Plainly ==
    [add |-> Assign(Id("a"), Op("+", Id("a"), Id("p"))),
     const |-> Assign(Id("a"), Lit(1)),
     encrypt |-> Assign(Id("a"), Id("n")),
     publish |-> Assign(Id("n"), Reveal(Id("a"), "all")),
     deposit |-> Assign(At("me"), Op("+", At("me"), Id("a"))),
     give |-> Assign(At("to"), Reveal(Id("a"), "to")),
     when |-> If(Op("==", Id("a"), Id("n")), <<Assign(Id("a"), Id("p"))>>, <<>>),
     whether |-> If(Id("p"), <<Assign(Id("p"), Lit(0))>>, <<Assign(Id("a"), Lit(0))>>),
     public |-> If(Op("==", Id("n"), Lit(0)), <<Assign(Id("p"), Op("+", Id("a"), Lit(1)))>>,
                   <<Assign(Id("p"), Lit(1))>>),
     lazy |-> Assign(Id("n"), Ite(Op("==", Id("n"), Lit(0)), Reveal(At("me"), "all"), Lit(0))),
     either |-> Require(Op("||", Op("==", Id("n"), Lit(1)), Reveal(Op("==", At("me"), Lit(0)), "all"))),
     inline |-> Assign(Id("a"), Op("+", Call("double", <<Id("p")>>), Id("a"))),
     nested |-> If(Op("==", Id("a"), Lit(0)),
                   <<Decl("l", Op("+", Id("a"), Id("p"))),
                     If(Op("==", Id("p"), Id("l")), <<Assign(Id("a"), Id("l"))>>,
                        <<Assign(Id("p"), Lit(1))>>)>>, <<>>),
     clear |-> Do(Call("clear", <<>>)),
     bump |-> Assign(Id("a"), Call("bump", <<>>))]
\* Those that call a function with a circuit of its own.
Calling ==
    [double |-> Assign(Id("a"), Call("double", <<Id("a")>>)),
     save |-> Assign(At("me"), Call("double", <<Id("p")>>)),
     put |-> Do(Call("put", <<Id("a")>>))]
\* Those with homomorphically encrypted values.
Adding ==
    [total |-> Assign(Id("b"), Op("+", Id("b"), Id("a"))),
     open |-> Assign(Id("n"), Reveal(Id("b"), "all"))]
Looping == [loop |-> While(Op("==", Id("n"), Lit(0)), <<Assign(Id("n"), Lit(1))>>)]

\* Statements of functions that anybody can call.
Free ==
    [pass |-> Assign(Id("a"), Reveal(Id("p"), "own")),
     collect |-> Assign(Id("b"), Op("+", Id("b"), RevealHom(Id("p"), "own"))),
     scale |-> Assign(Id("b"), Op("*", Id("b"), Reveal(Id("p"), "all"))),
     transfer |-> Assign(At("to"), Reveal(At("me"), "to")),
     balance |-> Assign(Id("p"), Op("+", At("me"), Id("p"))),
     private |-> If(Id("p"), <<Assign(Id("p"), Id("n"))>>, <<>>),
     take |-> Assign(Id("p"), Id("a")),
     misplace |-> Assign(Id("a"), Id("p")),
     disclose |-> Assign(Id("n"), Reveal(Id("a"), "all")),
     imply |-> If(Id("p"), <<Assign(Id("n"), Lit(1))>>, <<>>),
     first |-> If(Op("==", Id("n"), Lit(0)),
                  <<Assign(Id("p"), Lit(1)), Assign(Id("n"), Lit(1))>>, <<>>)]

\* A contract: its main function and those that are called.
Contract(body) ==
    LET called == CallsIn(body)
        names == called \cup UNION {CallsIn(Callees[f].body) : f \in called}
    IN  [f \in names \cup {"main"} |->
            IF f = "main" THEN Fn(<<"p", "to">>, <<>>, body) ELSE Callees[f]]

\* Two statements, followed by one that uses what they leave.
OwnedContract(x, y) ==
    Contract(<<Same("own", "me"), x, y, Assign(At("me"), Op("+", Id("a"), Id("n")))>>)
FreeContract(x, y) ==
    Contract(<<x, y, Assign(At("me"), Op("+", At("me"), Id("p")))>>)

OwnedPairs(pool) == {OwnedContract(pool[x], pool[y]) : x \in DOMAIN pool, y \in DOMAIN pool}
MCContracts ==
    OwnedPairs(Plainly @@ Calling) \cup OwnedPairs(Plainly @@ Adding)
    \cup {OwnedContract(Looping["loop"], Plainly[y]) : y \in DOMAIN Plainly}
    \cup {FreeContract(Free[x], Free[y]) : x \in DOMAIN Free, y \in DOMAIN Free}
\* A function that adds homomorphically and calls another one.
MixedContracts ==
    {Contract(<<Same("own", "me"), Adding["total"], Calling["save"]>>)}
AccountSymmetry == Permutations(Accounts)
MCStatics == <<"me", "own">>
=============================================================================
