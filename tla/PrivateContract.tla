-------------------------- MODULE PrivateContract --------------------------
(***************************************************************************)
(* A compiled contract: each call is simulated by its sender and executed  *)
(* on the chain if the verifier accepts the outputs that were sent. The    *)
(* outputs of an execution are those of the simulation, or others: the     *)
(* circuit has to determine them.                                          *)
(***************************************************************************)
EXTENDS Execution

CONSTANTS
    Accounts,       \* addresses
    Contracts,      \* the functions of each contract by name; Main is one of them
    Main,           \* the function that is called from outside
    Mappings,       \* the variables that map an address to a value it owns
    MaxTx           \* bound: transactions

VARIABLES store,    \* the variables on the chain
          tx,       \* the last call and what has become of it
          sent      \* the number of calls, at most MaxTx

contractVars == <<code, ast, contract, store, tx, sent>>

IsPrivate(x) == x \in Mappings \/ Type[x].p # All
OwnerOf(x, st) == st[Type[x].p].a

\* The plain value of a variable, if its owner can read it.
PlainOf(x) == IF "pair" \in DOMAIN x THEN Plain(x.v) ELSE x
PlainStore(st) ==
    [x \in StateVars |-> IF x \in Mappings THEN [a \in Accounts |-> PlainOf(st[x][a])]
                         ELSE PlainOf(st[x])]

Init ==
    /\ code \in Contracts
    /\ ast = <<>> /\ contract = <<>> /\ store = <<>>
    /\ tx = [phase |-> "none"]
    /\ sent = 0

\* The compiler.
Compile == (Check /\ UNCHANGED contract) \/ Transform

\* The constructor stores encrypted values for the owners.
Deploy(owners, deployer, n) ==
    /\ contract # <<>> /\ store = <<>>
    /\ store' = [x \in StateVars |->
                   IF x \in Final THEN [a |-> owners[x]]
                   ELSE IF x \in Mappings THEN [a \in Accounts |-> NoCipher]
                   ELSE IF IsPrivate(x)
                   THEN Encrypted(n, owners[Type[x].p], Type[x].h, deployer)
                   ELSE Plain(0)]

\* Arguments: addresses for those that own something, values for the others.
Arguments ==
    LET ps == code[Main].params
        values(x) == IF x \in Labels THEN {[a |-> a] : a \in Accounts}
                     ELSE {Plain(n) : n \in 0..(V - 1)}
    IN  {args \in [DOMAIN ps -> UNION {values(ps[k]) : k \in DOMAIN ps}] :
            \A k \in DOMAIN ps : args[k] \in values(ps[k])}

\* The sender encrypts the private arguments.
Sent(args, me) ==
    [k \in DOMAIN args |->
        LET t == Type[code[Main].params[k]]
        IN  IF t.p = All THEN args[k] ELSE Encrypted(args[k].v, me, t.h, me)]

\* The call with what its simulation n has computed.
Simulated(me, args, n) ==
    [phase |-> "simulated", me |-> me, args |-> args, ok |-> n.ok, ins |-> n.ins,
     outs |-> n.outs]

Simulate(me, args) ==
    /\ store # <<>> /\ tx.phase # "simulated" /\ sent < MaxTx
    /\ tx' = Simulated(me, args, Wrapper("simulate", Main, Sent(args, me), store, me, <<>>))
    /\ sent' = sent + 1
    /\ UNCHANGED store

\* What may be sent in the place of output k.
Others(x) ==
    IF "pair" \in DOMAIN x
    THEN {[x EXCEPT !.v = n] : n \in 0..(V - 1)}
         \cup {Encrypted(x.v, a, x.h, tx.me) : a \in Accounts} \cup {NoCipher}
    ELSE {Plain(n) : n \in 0..(V - 1)}
OutputsSent ==
    {tx.outs} \cup UNION {{[tx.outs EXCEPT ![k] = x] : x \in Others(tx.outs[k])} :
                             k \in DOMAIN tx.outs}

\* The transaction takes effect unless it reverts or its proof is rejected.
Settle(n, outs) ==
    LET accepted == n.ok = "ok" /\ (contract[Main].proven => Verified(Main, n))
    IN  /\ store' = IF accepted THEN n.st ELSE store
        /\ tx' = [phase |-> IF accepted THEN "accepted" ELSE "rejected",
                  honest |-> outs = tx.outs]
Execute(outs) ==
    /\ tx.phase = "simulated" /\ tx.ok = "ok"
    /\ Settle(Wrapper("chain", Main, Sent(tx.args, tx.me), store, tx.me, outs), outs)
    /\ UNCHANGED sent

\* A simulation that fails sends nothing.
GiveUp ==
    /\ tx.phase = "simulated" /\ tx.ok # "ok"
    /\ tx' = [phase |-> "none"]
    /\ UNCHANGED <<store, sent>>

Next ==
    \/ Compile /\ UNCHANGED <<store, tx, sent>>
    \/ \E owners \in [Final -> Accounts], deployer \in Accounts, n \in 0..(V - 1) :
           Deploy(owners, deployer, n) /\ UNCHANGED <<code, ast, contract, tx, sent>>
    \/ /\ \/ \E me \in Accounts, args \in Arguments : Simulate(me, args)
          \/ tx.phase = "simulated" /\ \E outs \in OutputsSent : Execute(outs)
          \/ GiveUp
       /\ UNCHANGED <<code, ast, contract>>

Spec == Init /\ [][Next]_contractVars

-----------------------------------------------------------------------------

\* Every private variable holds a cipher text its owner can read, and every
\* public one a plain value.
TypeOK ==
    \A x \in DOMAIN store :
        IF x \in Final THEN TRUE
        ELSE IF x \in Mappings THEN \A a \in Accounts : Readable(store[x][a], a)
        ELSE IF IsPrivate(x) THEN Readable(store[x], OwnerOf(x, store))
        ELSE store[x] \in {Plain(n) : n \in 0..(V - 1)}

\* The sender stored with a symmetric cipher text has taken part in making it,
\* which whoever decrypts it relies on. Violated: a function that is called by
\* another one takes the sender's key from its own order of keys.
SenderIsStored ==
    \A x \in DOMAIN store \ Final :
        \A c \in IF x \in Mappings THEN {store[x][a] : a \in Accounts} ELSE {store[x]} :
            "pair" \in DOMAIN c /\ c.h = "none" /\ ~IsEmpty(c) => c.from \in c.pair

SourceResult == SourceCall(Main, tx.args, PlainStore(store), tx.me)

\* Whatever outputs are sent: if the proof is accepted, the contract does to the
\* decrypted values what the function of the source contract does to plain ones.
DoesWhatTheSourceDoes ==
    [][tx'.phase = "accepted" =>
          SourceResult.ok = "ok" /\ PlainStore(store') = SourceResult.st]_contractVars

\* The simulator fails only if the source contract reverts, and what it sends is
\* accepted: the circuit asks for nothing that the contract does not provide.
HonestCallsSucceed ==
    /\ tx.phase = "simulated" => tx.ok = SourceResult.ok
    /\ tx.phase = "rejected" => ~tx.honest

\* What everybody sees of an array of inputs or outputs.
Seen(xs) == [k \in DOMAIN xs |-> IF "pair" \in DOMAIN xs[k] THEN [xs[k] EXCEPT !.v = 0]
                                 ELSE xs[k]]
SeenOf(n) == [ok |-> n.ok, ins |-> Seen(n.ins), outs |-> Seen(n.outs)]
Shifted(x) == IF "pair" \in DOMAIN x /\ ~IsEmpty(x) THEN [x EXCEPT !.v = (@ + 1) % V] ELSE x
OtherStore == [x \in StateVars |-> IF x \in Mappings THEN [a \in Accounts |-> Shifted(store[x][a])]
                                   ELSE Shifted(store[x])]
OtherArgs == LET args == Sent(tx.args, tx.me) IN [k \in DOMAIN args |-> Shifted(args[k])]

\* The functions that reveal a value to everybody.
RECURSIVE Declassifies(_), BlockDeclassifies(_)
Declassifies(e) ==
    \/ e.k = "reveal" /\ (e.to = All \/ Declassifies(e.e))
    \/ e.k \in {"op", "call"} /\ \E n \in DOMAIN e.args : Declassifies(e.args[n])
BlockDeclassifies(ss) ==
    \E n \in DOMAIN ss :
        \/ ~(ss[n].k = "require" /\ ss[n].e.k = "same") /\ Declassifies(ss[n].e)
        \/ ss[n].k = "if" /\ (BlockDeclassifies(ss[n].then) \/ BlockDeclassifies(ss[n].else))
        \/ ss[n].k = "while" /\ BlockDeclassifies(ss[n].body)
Discreet == \A f \in CalledFunctions(Main) \cup {Main} : ~BlockDeclassifies(code[f].body)

\* Unless a function reveals a value to all, what it makes public does not depend
\* on private values: not on those stored and not on the arguments.
RevealsNothing ==
    tx.phase = "simulated" /\ Discreet =>
        \A st \in {store, OtherStore}, args \in {Sent(tx.args, tx.me), OtherArgs} :
            SeenOf(Wrapper("simulate", Main, args, st, tx.me, <<>>)) = SeenOf(tx)
=============================================================================
