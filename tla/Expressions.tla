---------------------------- MODULE Expressions ----------------------------
(***************************************************************************)
(* An expression of an analysed program, evaluated twice: by the simulator *)
(* with Python integers and from left to right, and by the chain with      *)
(* words and with its operands in any order. If it is private, the second  *)
(* evaluation is that of its circuit.                                      *)
(*                                                                         *)
(* program.expr is a record of an operator f ("args" for the arguments of  *)
(* a call, which are not combined), its operands args and private. An      *)
(* operand is the value of a variable, a literal or a call.                *)
(***************************************************************************)
EXTENDS FunctionAnalyses, NumberTypes

CONSTANTS
    VarType,        \* the type of each variable, of each mapping's elements
    Keys,           \* key expressions of mapping elements
    NoKey,          \* the key of a value that is no element of a mapping
    KeyValues,      \* what they may evaluate to
    Stores,         \* initial contents: functions of the variables
    None            \* no value

\* Variables have integer types and contents these can represent; programs use
\* declared variables, the key expressions and their own functions. What fits in a
\* circuit has a type that can be private.
ASSUME ExpressionAssumption ==
    /\ \A v \in CircuitVars : CanBePrivateType(VarType[v])
    /\ \A v \in DOMAIN VarType :
          /\ VarType[v] \in IntTypes
          /\ \A s \in Stores : s[v] \in Int /\ CanRepresent(VarType[v], s[v])
    /\ \A p \in Programs :
          /\ \A f \in DOMAIN p.fns : \A i \in p.fns[f].body :
                i.k \in {"read", "assign"} =>
                    i.value.var \in DOMAIN VarType /\ i.value.key \in Keys \cup {NoKey}
          /\ \A i \in DOMAIN p.expr.args :
                p.expr.args[i].k = "call" => p.expr.args[i].of \in DOMAIN p.fns

\* An expression is an operation on two operands or the arguments of a call;
\* operands are values of variables, literals and calls that return integers.
ASSUME OperandAssumption ==
    /\ None \notin Int
    /\ \A p \in Programs :
          /\ Len(p.expr.args) \in Nat /\ DOMAIN p.expr.args = 1 .. Len(p.expr.args)
          /\ p.expr.f = "args" \/ (p.expr.f \in Operators /\ Len(p.expr.args) = 2)
          /\ p.expr.private \in BOOLEAN
          /\ \A f \in DOMAIN p.fns : p.fns[f].returns \in IntTypes
          /\ \A i \in DOMAIN p.expr.args :
                LET o == p.expr.args[i]
                IN  /\ o.k \in {"value", "literal", "call"}
                    /\ o.k = "literal" => o.literal \in Int
                    /\ o.k = "value" => o.value.var \in DOMAIN VarType /\ o.value.key \in Keys \cup {NoKey}

VARIABLES
    keys,           \* keys[k]: the value of key expression k
    store,          \* store[l]: the value at location l
    operands,       \* operands[i]: the value of operand i, or None
    simulated,      \* the simulator's result and its store afterwards
    result          \* the chain's result

evalVars == <<keys, store, operands, simulated, result>>
allVars == <<analysisVars, evalVars>>

Expr == program.expr
Locations == {<<v, k>> : v \in DOMAIN VarType, k \in KeyValues \cup {NoKey}}
Location(v) == <<v.var, IF v.key = NoKey THEN NoKey ELSE keys[v.key]>>
TypeAt(l) == VarType[l[1]]

OperandType(o) ==
    CASE o.k = "value" -> VarType[o.value.var]
      [] o.k = "literal" -> Literal(o.literal)
      [] o.k = "call" -> program.fns[o.of].returns

ArgType == CombinedType(OperandType(Expr.args[1]), OperandType(Expr.args[2]), FALSE)
ExprType == Typed(Expr.f, OperandType(Expr.args[1]), OperandType(Expr.args[2]))

WellTyped ==
    \/ Expr.f = "args"
    \/ /\ ExprType # Incompatible
       /\ Expr.private => PrivateOperation(Expr.f, OperandType(Expr.args[1]),
                                           OperandType(Expr.args[2]))

-----------------------------------------------------------------------------
(* A call, whatever else the function does, may use the values it reads    *)
(* and may change the values it modifies.                                  *)

CallReads(g) == OfState(UNION {DirectlyRead(h) : h \in Runs(g)})
CallMods(g) == OfState(UNION {DirectlyModified(h) : h \in Runs(g)})

Used(g, s) == MapThenSumSet(LAMBDA l : s[l], {Location(v) : v \in CallReads(g)})

AfterOperand(o, s) ==
    IF o.k # "call" THEN s
    ELSE [l \in DOMAIN s |-> IF l \in {Location(v) : v \in CallMods(o.of)}
                             THEN Convert(Used(o.of, s) + o.of, TypeAt(l)) ELSE s[l]]

OperandValue(o, s) ==
    CASE o.k = "value" -> s[Location(o.value)]
      [] o.k = "literal" -> o.literal
      [] o.k = "call" -> Convert(Used(o.of, s) + 1, program.fns[o.of].returns)

LeftToRight(s) ==
    FoldLeft(LAMBDA r, o : [values |-> Append(r.values, OperandValue(o, r.store)),
                            store |-> AfterOperand(o, r.store)],
             [values |-> <<>>, store |-> s], Expr.args)

\* No division by zero and no shift by a negative amount or a wide one.
Defined(values) ==
    /\ Expr.f \in {"/", "%"} => values[2] # 0
    /\ Expr.f \in Shift => values[2] \in 0 .. 3

BySimulator(values) ==
    IF Expr.f = "args" THEN values
    ELSE IF ArgType = Folded THEN PythonOp(Expr.f, values[1], values[2])
    ELSE LET v == Simulated(Expr.f, ArgType, values[1], values[2], Expr.private)
         IN  IF Expr.private THEN SerializedBySimulator(v, ArgType) ELSE v

\* A circuit computes on what the contract hands it; values of the widest type
\* are field elements there, narrower ones words.
ByCircuit(f, t, a, b) ==
    LET x == SerializedByContract(a, t)
        y == SerializedByContract(b, t)
    IN  IF f \in Arithmetic /\ t.size = MaxSize THEN PythonOp(f, x, y) % FieldPrime
        ELSE IF f \in Comparison THEN EvmOp(f, t, x, y)
        ELSE Word(EvmOp(f, t, x, y), t)

ByChain(values) ==
    IF Expr.f = "args" THEN values
    ELSE IF ArgType = Folded THEN PythonOp(Expr.f, values[1], values[2])
    ELSE IF Expr.private THEN ByCircuit(Expr.f, ArgType, values[1], values[2])
    ELSE EvmOp(Expr.f, ArgType, values[1], values[2])

EvalInit ==
    /\ keys = <<>> /\ store = <<>> /\ operands = <<>>
    /\ simulated = None /\ result = None

TypeCheck == phase = "types" /\ Checked(WellTyped, "inlineable") /\ UNCHANGED evalVars

\* A transaction that evaluates the expression is issued.
Enter ==
    /\ phase = "analysed"
    /\ keys' \in [Keys -> KeyValues]
    /\ \E s \in Stores : store' = [l \in Locations |-> s[l[1]]]
    /\ operands' = [i \in DOMAIN Expr.args |-> None]
    /\ phase' = "entered"
    /\ UNCHANGED <<program, at, leaves, attr, fixed, dirty, simulated, result>>

Simulate ==
    /\ phase = "entered"
    /\ LET run == LeftToRight(store)
       IN  simulated' = [value |-> IF Defined(run.values) THEN BySimulator(run.values) ELSE None,
                         store |-> run.store]
    /\ phase' = "simulated"
    /\ UNCHANGED <<program, at, leaves, attr, fixed, dirty, keys, store, operands, result>>

EvaluateOperand(i) ==
    /\ phase = "simulated" /\ operands[i] = None
    /\ operands' = [operands EXCEPT ![i] = OperandValue(Expr.args[i], store)]
    /\ store' = AfterOperand(Expr.args[i], store)
    /\ UNCHANGED <<analysisVars, keys, simulated, result>>

Combine ==
    /\ phase = "simulated" /\ \A i \in DOMAIN operands : operands[i] # None
    /\ result' = IF Defined(operands) THEN ByChain(operands) ELSE None
    /\ phase' = "executed"
    /\ UNCHANGED <<program, at, leaves, attr, fixed, dirty, keys, store, operands, simulated>>

ExprInit == Init /\ EvalInit

ExprNext ==
    \/ Analyse /\ UNCHANGED evalVars
    \/ TypeCheck \/ Enter \/ Simulate
    \/ \E i \in DOMAIN operands : EvaluateOperand(i)
    \/ Combine

Spec == ExprInit /\ [][ExprNext]_allVars /\ WF_allVars(ExprNext)

-----------------------------------------------------------------------------

TypeOK ==
    /\ at \in Fns
    /\ phase \in Range(Phases) \cup {"rejected"}
    /\ leaves \subseteq Fns /\ dirty \subseteq Fns /\ fixed \in BOOLEAN
    /\ \A f \in Fns :
        /\ attr[f].called \subseteq Fns /\ attr[f].homs \subseteq Homs
        /\ \A v \in attr[f].reads \cup attr[f].mods : v.var \in DOMAIN VarType
        /\ attr[f].inlineable \in BOOLEAN /\ attr[f].static \in BOOLEAN
    /\ phase \in {"entered", "simulated", "executed"} =>
        \A l \in Locations : TypeAt(l) \in IntTypes /\ CanRepresent(TypeAt(l), store[l])

(* The analyses of every program come to an end, and so does each           *)
(* transaction: no iteration to a fixed point goes on for ever.             *)
Terminates == <>(phase \in {"rejected", "executed"})

\* What the evaluation order check does not see: two operands after the first
\* that modify the same value, and two key expressions with the same value.
OrderMissed ==
    \E i, j \in DOMAIN Expr.args : i # j /\
        \/ i > 1 /\ j > 1 /\ OperandMods(Expr.args[i]) \cap OperandMods(Expr.args[j]) # {}
        \/ \E v \in OperandMods(Expr.args[i]) :
             \E w \in OperandMods(Expr.args[j]) \cup OperandReads(Expr.args[j]) :
                 v # w /\ Location(v) = Location(w)

\* Shifts are not cut off to the type, and fields are smaller than the widest
\* integers.
RangeMissed ==
    /\ Expr.f # "args" /\ ArgType # Folded /\ \A i \in DOMAIN operands : operands[i] # None
    /\ \/ Expr.f \in Shift /\ ~(operands[2] \in 0 .. 3
                                 /\ CanRepresent(ArgType, operands[1] * 2^operands[2]))
       \/ /\ Expr.private /\ ArgType.size = MaxSize
          /\ Expr.f \in Comparison /\ \E i \in {1, 2} : operands[i] >= FieldPrime

(* An accepted expression has one value and one effect: in whatever order   *)
(* the chain evaluates the operands and whatever overflows, it computes     *)
(* what the simulation has computed, and so does a circuit.                 *)
SimulationAgrees ==
    phase = "executed" /\ ~OrderMissed =>
        /\ store = simulated.store
        /\ ~RangeMissed => result = simulated.value

(* A value is the same circuit input for the simulator and the contract,    *)
(* and comes back from the circuit unchanged unless it exceeds the field.   *)
SerializedAlike ==
    phase \in {"entered", "simulated", "executed"} =>
        \A l \in Locations :
            LET t == TypeAt(l)
                w == SerializedByContract(store[l], t)
            IN  CanBePrivateType(t) =>
                    /\ w = SerializedBySimulator(store[l], t)
                    /\ store[l] < FieldPrime => Deserialize(w, t) = store[l]
=============================================================================
