---------------------------- MODULE NumberTypes ----------------------------
(***************************************************************************)
(* The primitive types of expressions, what the compiler lets stand where, *)
(* and what an operator computes: folded by the type checker, simulated in *)
(* Python, executed by the chain, and handed to a circuit.                 *)
(*                                                                         *)
(* A type is a record with the field k. An int or uint has the field size, *)
(* the number of its values (2^8 for uint8); a literal has its value.      *)
(***************************************************************************)
EXTENDS Integers, FiniteSets, FiniteSetsExt

CONSTANTS
    Sizes,          \* the sizes of the integer types
    MaxSize,        \* the largest of them (2^256), also that of an enum
    AddressSize,    \* 2^160
    FieldPrime      \* the order of the field of the circuits

ASSUME SizeAssumption ==
    /\ Sizes \subseteq Nat
    /\ \A s \in Sizes : \E h \in 1 .. s : s = 2 * h
    /\ MaxSize \in Sizes /\ \A s \in Sizes : s <= MaxSize
    /\ FieldPrime \in Nat /\ 1 < FieldPrime /\ FieldPrime < MaxSize

IntType(size) == [k |-> "int", size |-> size]
UintType(size) == [k |-> "uint", size |-> size]
Literal(v) == [k |-> "literal", value |-> v]
BoolLiteral(b) == [k |-> "boolliteral", value |-> b]
Named(k) == [k |-> k]
Bool == Named("bool")
AnyNumber == Named("number")
Incompatible == Named("none")
Folded == Named("lit")

IntTypes == {IntType(s) : s \in Sizes} \cup {UintType(s) : s \in Sizes}

IsLiteral(t) == t.k \in {"literal", "boolliteral", "enumvalue"}
IsNumeric(t) == t.k \in {"int", "uint", "number", "literal"}
IsAddress(t) == t.k \in {"address", "payable"}

Low(t) == IF t.k \in {"int", "number"} THEN -(t.size \div 2) ELSE 0
High(t) == IF t.k \in {"int", "number"} THEN t.size \div 2 ELSE t.size
CanRepresent(t, v) == Low(t) <= v /\ v < High(t)

\* The number types have the widest signed range themselves.
Sized(t) == IF t.k = "number" THEN [k |-> "number", size |-> MaxSize] ELSE t

\* The smallest type of the literal's own sign.
LiteralType(v) ==
    LET Own(s) == IF v < 0 THEN IntType(s) ELSE UintType(s)
    IN  Own(Min({s \in Sizes : CanRepresent(Own(s), v)}))

Abstract(t) ==
    CASE t.k = "literal" -> LiteralType(t.value)
      [] t.k = "boolliteral" -> Bool
      [] t.k = "enumvalue" -> Named("enum")

\* All literals of a kind are one type.
SameType(t, u) == IF IsLiteral(t) THEN t.k = u.k ELSE t = u

ImplicitlyConvertible(t, u) ==
    \/ SameType(t, u)
    \/ t.k \in {"int", "uint"} /\ u.k = "number"
    \/ t.k \in {"int", "uint"} /\ u.k = t.k /\ t.size <= u.size
    \/ t.k = "literal" /\ u.k \in {"int", "uint", "number"} /\ CanRepresent(Sized(u), t.value)
    \/ /\ t.k = "literal" /\ IsAddress(u) /\ t.value >= 0
       /\ LiteralType(t.value).size = AddressSize
    \/ t.k = "boolliteral" /\ u = Bool
    \/ t.k = "enumvalue" /\ u.k = "enum"
    \/ t.k = "payable" /\ u.k = "address"

MoreGeneral(t, u) ==
    IF ImplicitlyConvertible(u, t) THEN t
    ELSE IF ImplicitlyConvertible(t, u) THEN u ELSE Incompatible

CombinedType(t, u, convertLiterals) ==
    IF t.k \in {"literal", "boolliteral"} /\ u.k = t.k
    THEN IF convertLiterals THEN MoreGeneral(Abstract(t), Abstract(u)) ELSE Folded
    ELSE MoreGeneral(t, u)

CanBePrivateType(t) ==
    /\ IsNumeric(t) \/ IsAddress(t) \/ t.k \in {"bool", "boolliteral", "enum", "enumvalue"}
    /\ ~(t.k = "int" /\ t.size = MaxSize)

-----------------------------------------------------------------------------
(* Values                                                                  *)

\* Mutation: the sign bit is not looked at.
ConvertUnsigned(v, t) == v % t.size

\* int_casts.__convert: the value of type t with the same low bits.
Convert(v, t) ==
    LET low == v % t.size
    IN  IF t.k = "int" /\ low >= t.size \div 2 THEN low - t.size ELSE low

\* In the circuit part the widest integers are field elements.
Constructed(v, t, inCircuit) ==
    IF inCircuit /\ t.size = MaxSize THEN v % FieldPrime ELSE Convert(v, t)

Arithmetic == {"+", "-", "*", "/", "%"}
Comparison == {"<", "=="}
Shift == {"<<"}
Operators == Arithmetic \cup Comparison \cup Shift

IsPrivateOp(f) == f # "**"
InputTypes(f) == IF f = "==" THEN {} ELSE {AnyNumber}
OutputIsBool(f) == f \in Comparison

Abs(v) == IF v < 0 THEN -v ELSE v
PythonDiv(a, b) == IF (a < 0) # (b < 0) THEN -(Abs(a) \div Abs(b)) ELSE Abs(a) \div Abs(b)
PythonMod(a, b) == IF a < 0 THEN -(Abs(a) % Abs(b)) ELSE Abs(a) % Abs(b)

Truth(b) == IF b THEN 1 ELSE 0

PythonOp(f, a, b) ==
    CASE f = "+" -> a + b
      [] f = "-" -> a - b
      [] f = "*" -> a * b
      [] f = "/" -> PythonDiv(a, b)
      [] f = "%" -> PythonMod(a, b)
      [] f = "<" -> Truth(a < b)
      [] f = "==" -> Truth(a = b)
      [] f = "<<" -> a * 2^b

\* The simulator: only arithmetic is cut off to the type (a shift is not).
Simulated(f, t, a, b, inCircuit) ==
    IF f \in Arithmetic THEN Constructed(PythonOp(f, a, b), t, inCircuit) ELSE PythonOp(f, a, b)

\* The chain computes on words: the values modulo size.
Word(v, t) == v % t.size
FromWord(w, t) == IF t.k = "int" /\ w >= t.size \div 2 THEN w - t.size ELSE w

EvmOp(f, t, a, b) ==
    LET x == Word(a, t)
        y == Word(b, t)
        Signed(v) == FromWord(v, t)
        Magnitude(v) == IF Signed(v) < 0 THEN t.size - v ELSE v
        Negated(v) == (t.size - v) % t.size
    IN  CASE f = "+" -> FromWord((x + y) % t.size, t)
          [] f = "-" -> FromWord((x + t.size - y) % t.size, t)
          [] f = "*" -> FromWord((x * y) % t.size, t)
          [] f = "/" -> LET q == Magnitude(x) \div Magnitude(y)
                        IN  FromWord(IF (Signed(x) < 0) # (Signed(y) < 0) THEN Negated(q)
                                     ELSE q % t.size, t)
          [] f = "%" -> LET r == Magnitude(x) % Magnitude(y)
                        IN  FromWord(IF Signed(x) < 0 THEN Negated(r) ELSE r, t)
          [] f = "<" -> Truth(Signed(x) < Signed(y))
          [] f = "==" -> Truth(x = y)
          [] f = "<<" -> FromWord((x * 2^b) % t.size, t)

\* HybridArgumentIdf.serialize: the word the contract hands to the verifier.
SerializedByContract(v, t) ==
    IF t.k = "int" THEN v % t.size
    ELSE IF t.k = "uint" /\ t.size = MaxSize THEN v % FieldPrime ELSE v

\* Mutation: negative numbers become field elements.
SerializedNegative(v, t) == IF v < 0 \/ t.size = MaxSize THEN v % FieldPrime ELSE v

\* __serialize_val: the number the simulator hands to the prover.
SerializedBySimulator(v, t) ==
    IF v < 0 THEN v % t.size ELSE IF t.size = MaxSize THEN v % FieldPrime ELSE v

\* HybridArgumentIdf.deserialize: a circuit output read by the contract.
Deserialize(w, t) == FromWord(w % t.size, t)

-----------------------------------------------------------------------------
(* Typing of f applied to operands of types t and u: the type both are     *)
(* converted to (arg), the result and the literal it is folded to.         *)

\* builtin_op_fct: the type checker divides literals with Python's own operators,
\* which round down.
FloorDiv(a, b) == IF b < 0 THEN (-a) \div (-b) ELSE a \div b
FloorMod(a, b) == a - b * FloorDiv(a, b)

FoldOp(f, a, b) ==
    CASE f = "/" -> FloorDiv(a, b)
      [] f = "%" -> FloorMod(a, b)
      [] OTHER -> PythonOp(f, a, b)

FoldedResult(f, t, u) ==
    IF OutputIsBool(f) THEN BoolLiteral(FoldOp(f, t.value, u.value) = 1)
    ELSE Literal(FoldOp(f, t.value, u.value))

Conforms(f, t) == \A n \in InputTypes(f) : ImplicitlyConvertible(t, n)

Typed(f, t, u) ==
    LET arg == CombinedType(t, u, FALSE)
    IN  IF ~Conforms(f, t) \/ ~Conforms(f, u) THEN Incompatible
        ELSE IF arg = Incompatible THEN Incompatible
        ELSE IF arg = Folded THEN FoldedResult(f, t, u)
        ELSE IF OutputIsBool(f) THEN Bool ELSE arg

\* Whether f may have private operands of these types.
PrivateOperation(f, t, u) ==
    /\ IsPrivateOp(f)
    /\ CanBePrivateType(t) /\ CanBePrivateType(u)
    /\ f \in Shift =>
        /\ IsLiteral(u) /\ u.value >= 0
        /\ Sized(t).size # MaxSize
=============================================================================
