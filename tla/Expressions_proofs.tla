------------------------- MODULE Expressions_proofs -------------------------
(***************************************************************************)
(* Proofs about numbers and the expressions computed from them, for every  *)
(* program and integer types of any size: conversions, and what they       *)
(* preserve; values stay in the ranges of their types whatever is          *)
(* executed; contract and simulator serialise them alike; chain, circuit   *)
(* and simulator compute the same value and the same effects.              *)
(***************************************************************************)
EXTENDS FunctionAnalyses_proofs

-----------------------------------------------------------------------------
(* Conversions                                                             *)

LEMMA SizeOfType ==
    ASSUME NEW t \in IntTypes
    PROVE  /\ t.k \in {"int", "uint"}
           /\ t.size \in Sizes /\ t.size \in Nat
           /\ \E h \in 1 .. t.size : t.size = 2 * h /\ t.size \div 2 = h
<1>1. t.k \in {"int", "uint"} /\ t.size \in Sizes
  BY DEF IntTypes, IntType, UintType
<1>2. t.size \in Nat
  BY <1>1, SizeAssumption
<1>3. PICK h \in 1 .. t.size : t.size = 2 * h
  BY <1>1, SizeAssumption
<1>4. t.size \div 2 = h
  BY <1>2, <1>3
<1> QED
  BY <1>1, <1>2, <1>3, <1>4

(* __convert returns a value of the type it converts to, whatever it gets:  *)
(* no result of the simulator is out of the range of its type.              *)
THEOREM ConvertInRange ==
    ASSUME NEW t \in IntTypes, NEW v \in Int
    PROVE  Convert(v, t) \in Int /\ CanRepresent(t, Convert(v, t))
<1>1. PICK h \in 1 .. t.size : t.size = 2 * h /\ t.size \div 2 = h
  BY SizeOfType
<1>2. t.k \in {"int", "uint"} /\ t.size \in Nat /\ h \in Int /\ h > 0
  BY <1>1, SizeOfType
<1>3. v % t.size \in 0 .. t.size - 1
  BY <1>1, <1>2
<1> QED
  BY <1>1, <1>2, <1>3 DEF Convert, CanRepresent, Low, High

(* A value that its type can represent is left alone, so that implicit      *)
(* casts, which the simulator leaves out, change nothing.                   *)
THEOREM ConvertKeepsValues ==
    ASSUME NEW t \in IntTypes, NEW v \in Int, CanRepresent(t, v)
    PROVE  Convert(v, t) = v
<1>1. PICK h \in 1 .. t.size : t.size = 2 * h /\ t.size \div 2 = h
  BY SizeOfType
<1>2. t.k \in {"int", "uint"} /\ t.size \in Nat /\ h \in Int /\ h > 0
  BY <1>1, SizeOfType
<1>3. CASE v >= 0
  <2>1. v < t.size
    BY <1>1, <1>2, <1>3 DEF CanRepresent, Low, High
  <2>2. v % t.size = v
    BY <1>2, <1>3, <2>1
  <2> QED
    BY <1>1, <1>2, <1>3, <2>2 DEF Convert, CanRepresent, Low, High
<1>4. CASE v < 0
  <2>1. t.k = "int" /\ -h <= v
    BY <1>1, <1>2, <1>4 DEF CanRepresent, Low, High
  <2>2. v % t.size = v + t.size
    BY <1>1, <1>2, <1>4, <2>1
  <2> QED
    BY <1>1, <1>2, <1>4, <2>1, <2>2 DEF Convert
<1> QED
  BY <1>3, <1>4

(* An implicit conversion never loses a value: what the expected type       *)
(* accepts without a cast it can represent.                                 *)
THEOREM ImplicitConversionIsSafe ==
    ASSUME NEW t \in IntTypes, NEW u \in IntTypes, NEW v \in Int,
           ImplicitlyConvertible(t, u), CanRepresent(t, v)
    PROVE  CanRepresent(u, v)
<1>1. /\ t.k \in {"int", "uint"} /\ u.k \in {"int", "uint"}
      /\ t.size \in Nat /\ u.size \in Nat
  BY SizeOfType
<1>2. t = u \/ (u.k = t.k /\ t.size <= u.size)
  BY <1>1 DEF ImplicitlyConvertible, SameType, IsLiteral, Bool, Named
<1>3. CASE t = u
  BY <1>3
<1>4. CASE u.k = t.k /\ t.size <= u.size
  <2>1. PICK g \in 1 .. t.size : t.size = 2 * g /\ t.size \div 2 = g
    BY SizeOfType
  <2>2. PICK h \in 1 .. u.size : u.size = 2 * h /\ u.size \div 2 = h
    BY SizeOfType
  <2>3. g \in Int /\ h \in Int /\ g <= h
    BY <1>1, <1>4, <2>1, <2>2
  <2> QED
    BY <1>1, <1>4, <2>1, <2>2, <2>3 DEF CanRepresent, Low, High
<1> QED
  BY <1>2, <1>3, <1>4

(* The operands of an operation on two integer types are converted to a     *)
(* type that can represent both.                                            *)
THEOREM CombinedTypeIsSafe ==
    ASSUME NEW t \in IntTypes, NEW u \in IntTypes, NEW v \in Int,
           CombinedType(t, u, FALSE) # Incompatible,
           CanRepresent(t, v) \/ CanRepresent(u, v)
    PROVE  CanRepresent(CombinedType(t, u, FALSE), v)
<1>1. t.k \in {"int", "uint"} /\ u.k \in {"int", "uint"}
  BY SizeOfType
<1>2. CombinedType(t, u, FALSE) = MoreGeneral(t, u)
  BY <1>1 DEF CombinedType
<1>3. CASE ImplicitlyConvertible(u, t)
  <2>1. MoreGeneral(t, u) = t
    BY <1>3 DEF MoreGeneral
  <2> QED
    BY <1>2, <1>3, <2>1, ImplicitConversionIsSafe
<1>4. CASE ~ImplicitlyConvertible(u, t) /\ ImplicitlyConvertible(t, u)
  <2>1. MoreGeneral(t, u) = u
    BY <1>4 DEF MoreGeneral
  <2> QED
    BY <1>2, <1>4, <2>1, ImplicitConversionIsSafe
<1>5. CASE ~ImplicitlyConvertible(u, t) /\ ~ImplicitlyConvertible(t, u)
  BY <1>2, <1>5 DEF MoreGeneral
<1> QED
  BY <1>3, <1>4, <1>5

(* The contract and the simulator serialise every value of a type that may  *)
(* be private to the same circuit input.                                    *)
THEOREM SerializedTheSame ==
    ASSUME NEW t \in IntTypes, NEW v \in Int, CanRepresent(t, v), CanBePrivateType(t)
    PROVE  SerializedByContract(v, t) = SerializedBySimulator(v, t)
<1>1. PICK h \in 1 .. t.size : t.size = 2 * h /\ t.size \div 2 = h
  BY SizeOfType
<1>2. t.k \in {"int", "uint"} /\ t.size \in Nat /\ h \in Int /\ h > 0
  BY <1>1, SizeOfType
<1>3. CASE t.k = "int"
  <2>1. t.size # MaxSize
    BY <1>3 DEF CanBePrivateType
  <2>2. v >= 0 => v % t.size = v
    BY <1>1, <1>2, <1>3 DEF CanRepresent, Low, High
  <2> QED
    BY <1>2, <1>3, <2>1, <2>2 DEF SerializedByContract, SerializedBySimulator
<1>4. CASE t.k = "uint"
  <2>1. v >= 0
    BY <1>4 DEF CanRepresent, Low
  <2> QED
    BY <1>4, <2>1 DEF SerializedByContract, SerializedBySimulator
<1> QED
  BY <1>2, <1>3, <1>4

(* A value below the order of the field comes back from the circuit as it   *)
(* was: deserialising inverts serialising.                                  *)
THEOREM SerializationRoundTrip ==
    ASSUME NEW t \in IntTypes, NEW v \in Int, CanRepresent(t, v), CanBePrivateType(t),
           v < FieldPrime
    PROVE  Deserialize(SerializedByContract(v, t), t) = v
<1>1. PICK h \in 1 .. t.size : t.size = 2 * h /\ t.size \div 2 = h
  BY SizeOfType
<1>2. t.k \in {"int", "uint"} /\ t.size \in Nat /\ h \in Int /\ h > 0
  BY <1>1, SizeOfType
<1>3. CASE t.k = "int"
  <2>1. (v % t.size) % t.size = v % t.size
    <3>1. v % t.size \in 0 .. t.size - 1
      BY <1>1, <1>2
    <3> QED
      BY <1>2, <3>1
  <2>2. Convert(v, t) = v
    BY ConvertKeepsValues
  <2> QED
    BY <1>3, <2>1, <2>2 DEF SerializedByContract, Deserialize, FromWord, Convert
<1>4. CASE t.k = "uint"
  <2>1. 0 <= v /\ v < t.size
    BY <1>4 DEF CanRepresent, Low, High
  <2>2. v % t.size = v
    BY <1>2, <2>1
  <2>3. v % FieldPrime = v
    BY <2>1, SizeAssumption
  <2> QED
    BY <1>4, <2>2, <2>3 DEF SerializedByContract, Deserialize, FromWord
<1> QED
  BY <1>2, <1>3, <1>4

-----------------------------------------------------------------------------
(* The values a call uses                                                  *)

SumOf(val, S) == MapThenSumSet(LAMBDA x : val[x], S)

\* MapThenSumSet adds integers up to an integer.
LEMMA SumIsInt ==
    ASSUME NEW S, IsFiniteSet(S), NEW val, \A x \in S : val[x] \in Int
    PROVE  SumOf(val, S) \in Int
<1>. DEFINE D == SUBSET S
            pick == [s \in D |-> CHOOSE x \in s : TRUE]
            step == [xt \in S \X Int |-> val[xt[1]] + xt[2]]
            Eqn(h) == h = [s \in SUBSET S |->
                            IF s = {} THEN 0
                            ELSE LET x == CHOOSE x \in s : TRUE IN val[x] + h[s \ {x}]]
            sum == CHOOSE h : Eqn(h)
<1>1. /\ 0 \in Int /\ step \in [S \X Int -> Int]
      /\ \A s \in D : s # {} => pick[s] \in s
  OBVIOUS
<1>2. PICK g \in [D -> Int] :
          \A s \in D : g[s] = IF s = {} THEN 0 ELSE step[<<pick[s], g[s \ {pick[s]}]>>]
  <2>1. Foldable(S, D, Int, 0, step, pick)
    <3>. HIDE DEF pick, step
    <3>. QED BY <1>1 DEF Foldable
  <2>. HIDE DEF pick, step, D
  <2>. QED BY <2>1, FoldSolution
<1>3. ASSUME NEW s \in SUBSET S, s # {}
      PROVE  /\ pick[s] = (CHOOSE x \in s : TRUE)
             /\ step[<<pick[s], g[s \ {pick[s]}]>>] = val[pick[s]] + g[s \ {pick[s]}]
  <2>1. pick[s] = (CHOOSE x \in s : TRUE) /\ pick[s] \in s
    BY <1>3
  <2>. HIDE DEF pick
  <2>2. pick[s] \in S /\ s \ {pick[s]} \in SUBSET S
    BY <2>1
  <2>3. g[s \ {pick[s]}] \in Int
    BY <2>2
  <2>. QED BY <2>1, <2>2, <2>3
<1>4. Eqn(g)
  <2>1. \A s \in SUBSET S :
          g[s] = IF s = {} THEN 0
                 ELSE LET x == CHOOSE x \in s : TRUE IN val[x] + g[s \ {x}]
    <3>. HIDE DEF pick, step
    <3>. QED BY <1>2, <1>3
  <2>. QED BY <2>1
<1>5. Eqn(sum)
  <2>. HIDE DEF Eqn
  <2>. QED BY <1>4
<1>6. \A s \in SUBSET S : sum[s] \in Int
  <2>. DEFINE Bad == {s \in SUBSET S : sum[s] \notin Int}
  <2>. SUFFICES ASSUME Bad # {} PROVE FALSE
    OBVIOUS
  <2>1. PICK s \in Bad : \A t \in Bad : Cardinality(s) <= Cardinality(t)
    <3>1. Bad \in SUBSET (SUBSET S)
      OBVIOUS
    <3>. HIDE DEF Bad
    <3>. QED BY <3>1, SmallestSet
  <2>2. s \in SUBSET S /\ sum[s] \notin Int
    OBVIOUS
  <2>. HIDE DEF sum
  <2>3. sum[s] = IF s = {} THEN 0
                 ELSE LET x == CHOOSE x \in s : TRUE IN val[x] + sum[s \ {x}]
    BY <1>5, <2>2
  <2>. DEFINE x == CHOOSE x \in s : TRUE
  <2>4. s # {}
    BY <2>2, <2>3
  <2>5. x \in s /\ x \in S
    BY <2>2, <2>4
  <2>. HIDE DEF x
  <2>6. /\ s \ {x} \in SUBSET S
        /\ Cardinality(s \ {x}) \in Nat /\ Cardinality(s \ {x}) < Cardinality(s)
    BY <2>2, <2>5, Smaller
  <2>7. Cardinality(s) \in Nat
    BY <2>2, FS_Subset, FS_CardinalityType
  <2>8. s \ {x} \notin Bad
    BY <2>1, <2>6, <2>7
  <2>9. sum[s \ {x}] \in Int
    BY <2>6, <2>8
  <2>. QED BY <2>2, <2>3, <2>4, <2>5, <2>9 DEF x
<1>7. SumOf(val, S) = sum[S]
  BY DEF SumOf, MapThenSumSet, MapThenFoldSet
<1>. QED BY <1>6, <1>7

\* A function maps a finite set to a finite set.
LEMMA FiniteImage ==
    ASSUME NEW S, IsFiniteSet(S), NEW f
    PROVE  IsFiniteSet({f[x] : x \in S})
<1>. DEFINE T == {f[x] : x \in S}
            g == [x \in S |-> f[x]]
<1>1. g \in Surjection(S, T)
  BY DEF Surjection
<1>. HIDE DEF g, T
<1>2. IsFiniteSet(T)
  BY <1>1, FS_Surjection
<1>. QED BY <1>2 DEF T

\* The values a call reads are finitely many, each at a location of the store.
LEMMA CallReadsLocated ==
    ASSUME program \in Programs, NEW g \in Fns, keys \in [Keys -> KeyValues]
    PROVE  /\ IsFiniteSet({Location(v) : v \in CallReads(g)})
           /\ {Location(v) : v \in CallReads(g)} \subseteq Locations
<1>. DEFINE Read(h) == {i.value : i \in {j \in Body(h) : j.k = "read"}}
            All == UNION {Read(h) : h \in Runs(g)}
<1>1. IsFiniteSet(Runs(g)) /\ Runs(g) \subseteq Fns
  <2>1. IsFiniteSet(Fns)
    BY Numbered, FS_Interval
  <2>2. Runs(g) \subseteq Fns
    BY RunsClosed
  <2>. QED BY <2>1, <2>2, FS_Subset
<1>2. ASSUME NEW h \in Fns
      PROVE  /\ IsFiniteSet(Read(h))
             /\ \A v \in Read(h) : v.var \in DOMAIN VarType /\ v.key \in Keys \cup {NoKey}
  <2>. DEFINE R == {j \in Body(h) : j.k = "read"}
              value == [i \in R |-> i.value]
  <2>1. program.fns[h].body = Body(h) /\ h \in DOMAIN program.fns
    BY DEF Body, Fns
  <2>2. IsFiniteSet(R)
    <3>1. IsFiniteSet(Body(h))
      BY <2>1, BodyAssumption
    <3>. QED BY <3>1, FS_Subset
  <2>3. Read(h) = {value[i] : i \in R}
    OBVIOUS
  <2>4. IsFiniteSet({value[i] : i \in R})
    <3>. HIDE DEF value, R
    <3>. QED BY <2>2, FiniteImage
  <2>5. \A i \in R : i.value.var \in DOMAIN VarType /\ i.value.key \in Keys \cup {NoKey}
    BY <2>1, ExpressionAssumption
  <2>. QED BY <2>3, <2>4, <2>5
<1>3. IsFiniteSet(All)
  <2>. DEFINE read == [h \in Runs(g) |-> Read(h)]
  <2>1. {Read(h) : h \in Runs(g)} = {read[h] : h \in Runs(g)}
    OBVIOUS
  <2>2. IsFiniteSet({read[h] : h \in Runs(g)})
    <3>. HIDE DEF read
    <3>. QED BY <1>1, FiniteImage
  <2>3. \A T \in {Read(h) : h \in Runs(g)} : IsFiniteSet(T)
    <3>. HIDE DEF Read
    <3>. QED BY <1>1, <1>2
  <2>. HIDE DEF Read, read
  <2>. QED BY <2>1, <2>2, <2>3, FS_UNION
<1>4. /\ CallReads(g) \subseteq All
      /\ \A v \in All : v.var \in DOMAIN VarType /\ v.key \in Keys \cup {NoKey}
  <2>1. CallReads(g) \subseteq All
    BY DEF CallReads, OfState, DirectlyRead
  <2>2. ASSUME NEW v \in All PROVE v.var \in DOMAIN VarType /\ v.key \in Keys \cup {NoKey}
    <3>1. PICK h \in Runs(g) : v \in Read(h)
      OBVIOUS
    <3>. HIDE DEF Read, All
    <3>. QED BY <1>1, <1>2, <3>1
  <2>. QED BY <2>1, <2>2
<1>. HIDE DEF All
<1>5. IsFiniteSet({Location(v) : v \in CallReads(g)})
  <2>. DEFINE place == [v \in CallReads(g) |-> Location(v)]
  <2>1. {Location(v) : v \in CallReads(g)} = {place[v] : v \in CallReads(g)}
    OBVIOUS
  <2>2. IsFiniteSet(CallReads(g))
    BY <1>3, <1>4, FS_Subset
  <2>3. IsFiniteSet({place[v] : v \in CallReads(g)})
    <3>. HIDE DEF place
    <3>. QED BY <2>2, FiniteImage
  <2>. QED BY <2>1, <2>3
<1>6. ASSUME NEW v \in CallReads(g) PROVE Location(v) \in Locations
  <2>1. v.var \in DOMAIN VarType /\ v.key \in Keys \cup {NoKey}
    BY <1>4
  <2>2. (IF v.key = NoKey THEN NoKey ELSE keys[v.key]) \in KeyValues \cup {NoKey}
    BY <2>1
  <2>. QED BY <2>1, <2>2 DEF Location, Locations
<1>. QED BY <1>5, <1>6

-----------------------------------------------------------------------------
(* The store                                                               *)

Running == phase \in {"entered", "simulated", "executed"}

\* s holds a value of its type at every location.
InRange(s) ==
    /\ s = [l \in Locations |-> s[l]]
    /\ \A l \in Locations : s[l] \in Int /\ CanRepresent(TypeAt(l), s[l])

StoreInv ==
    Running =>
        /\ keys \in [Keys -> KeyValues]
        /\ DOMAIN operands = DOMAIN Expr.args
        /\ InRange(store)

\* What a call modifies it converts to the type of the location.
LEMMA AfterOperandInRange ==
    ASSUME program \in Programs, keys \in [Keys -> KeyValues], NEW i \in DOMAIN Expr.args,
           NEW s, InRange(s)
    PROVE  InRange(AfterOperand(Expr.args[i], s))
<1>. DEFINE o == Expr.args[i]
            t == AfterOperand(o, s)
            ls == {Location(v) : v \in CallMods(o.of)}
<1>1. CASE o.k # "call"
  BY <1>1 DEF AfterOperand
<1>2. CASE o.k = "call"
  <2>1. o.of \in Fns
    BY <1>2, ExpressionAssumption DEF Expr, Fns
  <2>2. o.of \in Int
    BY <2>1, Numbered
  <2>3. Used(o.of, s) \in Int
    <3>. DEFINE S == {Location(v) : v \in CallReads(o.of)}
    <3>1. IsFiniteSet(S) /\ S \subseteq Locations
      BY <2>1, CallReadsLocated
    <3>2. \A l \in S : s[l] \in Int
      BY <3>1 DEF InRange
    <3>3. SumOf(s, S) \in Int
      <4>. HIDE DEF S
      <4>. QED BY <3>1, <3>2, SumIsInt
    <3>. QED BY <3>3 DEF Used, SumOf
  <2>4. DOMAIN s = Locations
    BY DEF InRange
  <2>5. t = [l \in Locations |-> IF l \in ls THEN Convert(Used(o.of, s) + o.of, TypeAt(l)) ELSE s[l]]
    BY <1>2, <2>4 DEF AfterOperand
  <2>. HIDE DEF t, ls, o
  <2>6. ASSUME NEW l \in Locations PROVE t[l] \in Int /\ CanRepresent(TypeAt(l), t[l])
    <3>1. CASE l \in ls
      <4>1. TypeAt(l) \in IntTypes
        BY ExpressionAssumption DEF Locations, TypeAt
      <4>2. Used(o.of, s) + o.of \in Int
        BY <2>2, <2>3
      <4>3. t[l] = Convert(Used(o.of, s) + o.of, TypeAt(l))
        BY <2>5, <3>1
      <4>. QED BY <4>1, <4>2, <4>3, ConvertInRange
    <3>2. CASE l \notin ls
      BY <2>5, <3>2 DEF InRange
    <3>. QED BY <3>1, <3>2
  <2>7. t = [l \in Locations |-> t[l]]
    BY <2>5
  <2>8. InRange(t)
    BY <2>6, <2>7 DEF InRange
  <2>. QED BY <2>8 DEF t, o
<1>. QED BY <1>1, <1>2

LEMMA StoreStep ==
    ASSUME AnalysisTypeOK, StoreInv, [ExprNext]_allVars
    PROVE  StoreInv'
<1>1. program' = program /\ program \in Programs /\ Expr' = Expr
  BY Frame DEF AnalysisTypeOK, Expr
<1>4. ASSUME UNCHANGED <<keys, store>>, DOMAIN operands' = DOMAIN operands, Running' => Running
      PROVE  StoreInv'
  <2>1. InRange(store') <=> InRange(store)
    BY <1>4
  <2>2. InRange(store)' <=> InRange(store)
    BY <2>1 DEF InRange, Locations, TypeAt
  <2>. QED BY <1>1, <1>4, <2>2 DEF StoreInv
<1>5. ASSUME Analyse, UNCHANGED evalVars
      PROVE  StoreInv'
  <2>1. phase \notin {"rejected", "analysed", "entered", "simulated", "executed"}
    BY <1>5 DEF Analyse, Search, EndSearch, DetectDynamicBody, PropagateSets, CheckEvalOrder,
                DetectInlineable, CheckCompliance, DetectHybrid, CheckLoops, PropagateHoms,
                SetBackends
  <2>2. ~Running'
    BY <2>1, Frame DEF Follows, Running
  <2>. QED BY <2>2 DEF StoreInv
<1>6. ASSUME TypeCheck
      PROVE  StoreInv'
  BY <1>6 DEF TypeCheck, Checked, StoreInv, Running
<1>7. ASSUME Enter
      PROVE  StoreInv'
  <2>1. PICK s \in Stores : store' = [l \in Locations |-> s[l[1]]]
    BY <1>7 DEF Enter
  <2>2. ASSUME NEW l \in Locations
        PROVE  store'[l] \in Int /\ CanRepresent(TypeAt(l), store'[l])
    <3>1. l[1] \in DOMAIN VarType
      BY DEF Locations
    <3>. QED BY <2>1, <3>1, ExpressionAssumption DEF TypeAt
  <2>3. InRange(store')
    BY <2>1, <2>2 DEF InRange
  <2>4. keys' \in [Keys -> KeyValues] /\ DOMAIN operands' = DOMAIN Expr.args
    BY <1>7 DEF Enter
  <2>5. InRange(store)'
    BY <2>3 DEF InRange, Locations, TypeAt
  <2>. QED BY <1>1, <2>4, <2>5 DEF StoreInv
<1>8. ASSUME Simulate \/ Combine
      PROVE  StoreInv'
  <2>1. /\ UNCHANGED <<keys, store, operands>> /\ phase \in {"entered", "simulated"}
    BY <1>8 DEF Simulate, Combine
  <2>. QED BY <1>4, <2>1 DEF Running
<1>9. ASSUME NEW i \in DOMAIN operands, EvaluateOperand(i)
      PROVE  StoreInv'
  <2>1. /\ phase = "simulated" /\ UNCHANGED <<phase, keys>>
        /\ store' = AfterOperand(Expr.args[i], store)
        /\ DOMAIN operands' = DOMAIN operands
    BY <1>9 DEF EvaluateOperand, analysisVars
  <2>2. /\ keys \in [Keys -> KeyValues] /\ DOMAIN operands = DOMAIN Expr.args /\ InRange(store)
    BY <2>1 DEF StoreInv, Running
  <2>3. InRange(store')
    BY <1>1, <2>1, <2>2, AfterOperandInRange
  <2>4. InRange(store)'
    BY <2>3 DEF InRange, Locations, TypeAt
  <2>. QED BY <1>1, <2>1, <2>2, <2>4 DEF StoreInv
<1>10. CASE UNCHANGED allVars
  BY <1>4, <1>10 DEF allVars, analysisVars, evalVars, Running
<1>. QED BY <1>5, <1>6, <1>7, <1>8, <1>9, <1>10 DEF ExprNext

LEMMA StoreInvariant == Spec => [](AnalysisTypeOK /\ StoreInv)
<1>1. ExprInit => StoreInv
  BY DEF ExprInit, Init, StoreInv, Running
<1>2. AnalysisInv => AnalysisTypeOK
  BY DEF AnalysisInv
<1>3. AnalysisTypeOK /\ StoreInv /\ [ExprNext]_allVars => StoreInv'
  BY StoreStep
<1>. QED BY <1>1, <1>2, <1>3, Analyses, PTL DEF Spec

\* SerializedAlike: whatever a transaction and the calls among its operands do,
\* each value of a type that may be private is the same circuit input for the
\* simulator (__serialize_val) and the contract (HybridArgumentIdf.serialize),
\* and comes back from the circuit as it was unless it exceeds the field.
THEOREM Serialization == Spec => []SerializedAlike
<1>1. ASSUME StoreInv PROVE SerializedAlike
  <2>. SUFFICES ASSUME Running, NEW l \in Locations, CanBePrivateType(TypeAt(l))
                PROVE  LET w == SerializedByContract(store[l], TypeAt(l))
                       IN  /\ w = SerializedBySimulator(store[l], TypeAt(l))
                           /\ store[l] < FieldPrime => Deserialize(w, TypeAt(l)) = store[l]
    BY DEF SerializedAlike, Running
  <2>1. store[l] \in Int /\ CanRepresent(TypeAt(l), store[l])
    BY <1>1 DEF StoreInv, InRange
  <2>2. TypeAt(l) \in IntTypes
    BY ExpressionAssumption DEF Locations, TypeAt
  <2>. QED BY <2>1, <2>2, SerializedTheSame, SerializationRoundTrip
<1>. QED BY <1>1, StoreInvariant, PTL

-----------------------------------------------------------------------------
(* What the analyses and the execution work on                             *)

FieldsOK(f) ==
    /\ attr[f].called \subseteq Fns /\ attr[f].homs \subseteq Homs
    /\ \A v \in attr[f].reads \cup attr[f].mods : v.var \in DOMAIN VarType

SetsTypeOK == leaves \subseteq Fns /\ dirty \subseteq Fns /\ \A f \in Fns : FieldsOK(f)

\* What the visitors collect from one body.
LEMMA InitialFields ==
    ASSUME program \in Programs, NEW f \in Fns
    PROVE  /\ Direct(f) \subseteq Fns /\ DirectHoms(f) \subseteq Homs
           /\ \A v \in DirectlyRead(f) \cup DirectlyModified(f) : v.var \in DOMAIN VarType
<1>1. Direct(f) \subseteq Fns
  BY Numbered
<1>2. f \in DOMAIN program.fns /\ Body(f) = program.fns[f].body
  BY DEF Fns, Body
<1>3. DirectHoms(f) \subseteq Homs
  BY <1>2, BodyAssumption DEF DirectHoms, PrivateItems, Homs
<1>4. \A i \in Body(f) : i.k \in {"read", "assign"} => i.value.var \in DOMAIN VarType
  BY <1>2, ExpressionAssumption
<1>. QED BY <1>1, <1>3, <1>4 DEF DirectlyRead, DirectlyModified

\* An analysis adds to a summary from those of called functions only.
LEMMA FieldsStep ==
    ASSUME AnalysisTypeOK, SetsTypeOK, [ExprNext]_allVars, NEW f \in Fns
    PROVE  FieldsOK(f)'
<1>1. /\ program' = program /\ program \in Programs /\ at \in Fns /\ Fns' = Fns /\ Homs' = Homs
      /\ Keeps(f, IF phase = "called" THEN {"called", "static"} ELSE {phase})
  BY Frame, ProgramKept DEF AnalysisTypeOK, Homs
<1>2. FieldsOK(f) /\ FieldsOK(at)
  BY <1>1 DEF SetsTypeOK
<1>3. attr'[f].called \subseteq Fns
  <2>1. CASE phase # "called"
    BY <1>1, <1>2, <2>1 DEF Keeps, FieldsOK
  <2>2. CASE Search
    <3>1. NewLeaves \subseteq Fns
      BY DEF NewLeaves, SetsTypeOK, FieldsOK
    <3>2. CASE f = at
      BY <1>2, <2>2, <3>1, <3>2, SearchSteps DEF FieldsOK
    <3>3. CASE f # at
      BY <1>2, <2>2, <3>3, SearchSteps DEF FieldsOK, Keeps
    <3>. QED BY <3>2, <3>3
  <2>3. CASE EndSearch
    <3>1. CASE f = at
      BY <1>2, <2>3, <3>1, EndSearchSteps DEF FieldsOK
    <3>2. CASE f # at
      BY <1>2, <2>3, <3>2, EndSearchSteps DEF FieldsOK, Keeps
    <3>. QED BY <3>1, <3>2
  <2>4. CASE UNCHANGED analysisVars
    BY <1>2, <2>4 DEF analysisVars, FieldsOK
  <2>5. phase = "called" => Search \/ EndSearch \/ UNCHANGED analysisVars
    BY DEF ExprNext, Analyse, DetectDynamicBody, PropagateSets, CheckEvalOrder,
           DetectInlineable, CheckCompliance, DetectHybrid, CheckLoops, PropagateHoms,
           SetBackends, TypeCheck, Enter, Simulate, EvaluateOperand, Combine, allVars
  <2>. QED BY <2>1, <2>2, <2>3, <2>4, <2>5
<1>4. attr'[f].homs \subseteq Homs
  <2>1. CASE phase # "homs"
    BY <1>1, <1>2, <2>1 DEF Keeps, FieldsOK
  <2>2. ASSUME NEW h \in Fns, PropagateHoms(h) PROVE attr'[f].homs \subseteq Homs
    <3>1. FieldsOK(h)
      BY DEF SetsTypeOK
    <3>2. attr'[f].homs \subseteq attr[f].homs \cup attr[h].homs
      BY <2>2, PropagateHomsSteps
    <3>. QED BY <1>2, <3>1, <3>2 DEF FieldsOK
  <2>3. CASE SetBackends
    BY <1>2, <2>3, SetBackendsSteps DEF Keeps, FieldsOK
  <2>4. CASE UNCHANGED analysisVars
    BY <1>2, <2>4 DEF analysisVars, FieldsOK
  <2>. QED BY <2>1, <2>2, <2>3, <2>4, Actions
<1>5. \A v \in attr'[f].reads \cup attr'[f].mods : v.var \in DOMAIN VarType
  <2>1. CASE phase # "sets"
    BY <1>1, <1>2, <2>1 DEF Keeps, FieldsOK
  <2>2. CASE PropagateSets
    <3>1. CASE f # at
      BY <1>2, <2>2, <3>1, PropagateSetsSteps DEF Keeps, FieldsOK
    <3>2. CASE f = at
      <4>1. \A g \in Direct(at) : FieldsOK(g)
        BY <1>1, Numbered DEF SetsTypeOK
      <4>2. \A v \in WithCallees("reads") \cup WithCallees("mods") : v.var \in DOMAIN VarType
        BY <1>2, <4>1 DEF WithCallees, OfState, FieldsOK
      <4>. QED BY <2>2, <3>2, <4>2, PropagateSetsSteps
    <3>. QED BY <3>1, <3>2
  <2>3. CASE UNCHANGED analysisVars
    BY <1>2, <2>3 DEF analysisVars, FieldsOK
  <2>. QED BY <2>1, <2>2, <2>3, Actions
<1>. QED BY <1>1, <1>3, <1>4, <1>5 DEF FieldsOK

LEMMA SetsTypeStep ==
    ASSUME AnalysisTypeOK, SetsTypeOK, [ExprNext]_allVars
    PROVE  SetsTypeOK'
<1>1. /\ program' = program /\ program \in Programs /\ at \in Fns /\ Fns' = Fns
      /\ Fns = 1 .. Len(program.fns) /\ Len(program.fns) \in Nat
  BY Frame, ProgramKept, Numbered DEF AnalysisTypeOK
<1>2. \A f \in Fns : FieldsOK(f)'
  BY FieldsStep
<1>3. \A f \in Fns : attr'[f].called \subseteq Fns
  BY <1>1, <1>2 DEF FieldsOK
<1>4. ASSUME NEW next, Advance(next) PROVE leaves' \subseteq Fns
  BY <1>1, <1>3, <1>4 DEF Advance
<1>5. leaves' \subseteq Fns
  <2>1. CASE Search
    BY <2>1 DEF Search, NewLeaves, SetsTypeOK, FieldsOK
  <2>2. CASE EndSearch
    BY <1>4, <2>2 DEF EndSearch
  <2>3. CASE DetectDynamicBody
    BY <1>4, <2>3 DEF DetectDynamicBody
  <2>4. CASE PropagateSets
    <3>1. \E next : Advance(next)
      BY <2>4 DEF PropagateSets
    <3>. QED BY <1>4, <3>1
  <2>5. CASE DetectInlineable
    BY <1>4, <2>5 DEF DetectInlineable
  <2>6. CASE DetectHybrid
    BY <1>4, <2>6 DEF DetectHybrid
  <2>7. CASE leaves' = leaves
    BY <2>7 DEF SetsTypeOK
  <2>. QED BY <2>1, <2>2, <2>3, <2>4, <2>5, <2>6, <2>7
           DEF ExprNext, Analyse, CheckEvalOrder, CheckCompliance, Checked, CheckLoops,
               PropagateHoms, SetBackends, TypeCheck, Enter, Simulate, EvaluateOperand, Combine,
               allVars, analysisVars
<1>6. dirty' \subseteq Fns
  <2>1. dirty \subseteq Fns
    BY DEF SetsTypeOK
  <2>2. CASE dirty' = dirty
    BY <2>1, <2>2
  <2>3. CASE CheckLoops
    BY <2>3 DEF CheckLoops
  <2>4. CASE \E f \in Fns : PropagateHoms(f)
    BY <2>1, <2>4 DEF PropagateHoms, Callers
  <2>. QED BY <2>2, <2>3, <2>4
           DEF ExprNext, Analyse, Search, EndSearch, DetectDynamicBody, PropagateSets,
               DetectInlineable, DetectHybrid, CheckEvalOrder, CheckCompliance, Checked,
               SetBackends, TypeCheck, Enter, Simulate, EvaluateOperand, Combine,
               allVars, analysisVars
<1>. QED BY <1>1, <1>2, <1>5, <1>6 DEF SetsTypeOK

\* TypeOK: analysed and executed, or rejected, a program's summaries name its
\* own functions and variables, and every value is one of its type: what a call
\* modifies is converted to it (int_casts.__convert).
THEOREM ExpressionTypes == Spec => []TypeOK
<1>1. ExprInit => SetsTypeOK
  <2>. SUFFICES ASSUME ExprInit PROVE SetsTypeOK
    OBVIOUS
  <2>1. /\ program \in Programs /\ attr = [f \in Fns |-> Initial(f)]
        /\ leaves = Direct(1) /\ dirty = {}
    BY DEF ExprInit, Init
  <2>2. 1 \in Fns
    BY <2>1, Numbered
  <2>3. ASSUME NEW f \in Fns PROVE FieldsOK(f)
    <3>1. /\ attr[f].called = Direct(f) /\ attr[f].homs = DirectHoms(f)
          /\ attr[f].reads = DirectlyRead(f) /\ attr[f].mods = DirectlyModified(f)
      BY <2>1 DEF Initial
    <3>. QED BY <2>1, <3>1, InitialFields DEF FieldsOK
  <2>. QED BY <2>1, <2>2, <2>3, InitialFields DEF SetsTypeOK
<1>2. AnalysisTypeOK /\ SetsTypeOK /\ [ExprNext]_allVars => SetsTypeOK'
  BY SetsTypeStep
<1>3. AnalysisTypeOK /\ StoreInv /\ SetsTypeOK => TypeOK
  <2>. SUFFICES ASSUME AnalysisTypeOK, StoreInv, SetsTypeOK PROVE TypeOK
    OBVIOUS
  <2>1. \A f \in Fns : IsSummary(attr[f]) /\ FieldsOK(f)
    BY DEF AnalysisTypeOK, SetsTypeOK
  <2>2. \A l \in Locations : TypeAt(l) \in IntTypes
    BY ExpressionAssumption DEF Locations, TypeAt
  <2>3. Running => \A l \in Locations : CanRepresent(TypeAt(l), store[l])
    BY DEF StoreInv, InRange
  <2>. QED BY <2>1, <2>2, <2>3
           DEF TypeOK, AnalysisTypeOK, SetsTypeOK, IsSummary, FieldsOK, Running
<1>. QED BY <1>1, <1>2, <1>3, StoreInvariant, PTL DEF Spec

-----------------------------------------------------------------------------
(* Remainders                                                              *)

\* Only one multiple of s lies between -s and s.
LEMMA SmallMultiple ==
    ASSUME NEW s \in Int, s > 0, NEW k \in Int, -s < k * s, k * s < s
    PROVE  k = 0
<1>1. CASE k >= 1
  <2>1. (k - 1) * s >= 0
    BY <1>1
  <2>. QED BY <2>1
<1>2. CASE k <= -1
  <2>1. (-1 - k) * s >= 0
    BY <1>2
  <2>. QED BY <2>1
<1>. QED BY <1>1, <1>2

\* Quotient and remainder.
LEMMA Division ==
    ASSUME NEW s \in Int, s > 0, NEW v \in Int
    PROVE  v \div s \in Int /\ v % s \in 0 .. (s - 1) /\ v = ((v \div s) * s) + (v % s)
OBVIOUS

\* A number below s is its own remainder.
LEMMA SmallRemainder ==
    ASSUME NEW s \in Int, s > 0, NEW r \in Int, 0 <= r, r < s
    PROVE  r % s = r
OBVIOUS

\* The remainder is determined by its range.
LEMMA Remainder ==
    ASSUME NEW s \in Int, s > 0, NEW q \in Int, NEW r \in Int, 0 <= r, r < s
    PROVE  (q * s + r) % s = r
<1>. DEFINE v == q * s + r
<1>1. v \div s \in Int /\ v % s \in 0 .. (s - 1) /\ v = ((v \div s) * s) + (v % s)
  BY Division
<1>2. (q - (v \div s)) * s = (v % s) - r
  BY <1>1
<1>3. q - (v \div s) = 0
  BY <1>1, <1>2, SmallMultiple
<1>. QED BY <1>1, <1>3

\* A multiple of s does not change the remainder.
LEMMA Shifted ==
    ASSUME NEW s \in Int, s > 0, NEW v \in Int, NEW k \in Int
    PROVE  (v + k * s) % s = v % s
<1>1. v \div s \in Int /\ v % s \in 0 .. (s - 1) /\ v = ((v \div s) * s) + (v % s)
  BY Division
<1>2. v + k * s = ((v \div s) + k) * s + (v % s)
  BY <1>1
<1>3. (((v \div s) + k) * s + (v % s)) % s = v % s
  <2>1. (v \div s) + k \in Int /\ v % s \in Int /\ 0 <= (v % s) /\ (v % s) < s
    BY <1>1
  <2>. QED BY <2>1, Remainder
<1>. QED BY <1>2, <1>3

\* Numbers that differ by a multiple of s have one remainder.
LEMMA Congruent ==
    ASSUME NEW s \in Int, s > 0, NEW v \in Int, NEW w \in Int, NEW k \in Int, w = v + k * s
    PROVE  w % s = v % s
BY Shifted

\* The same for a difference of s itself.
LEMMA OneSizeOff ==
    ASSUME NEW s \in Int, s > 0, NEW v \in Int, NEW w \in Int, w = v + s
    PROVE  w % s = v % s
<1>1. PICK k \in Int : k = 1
  OBVIOUS
<1>2. w = v + k * s
  BY <1>1
<1>. QED BY <1>2, Congruent

\* Remainders may be taken before and after an operation.
LEMMA RemainderOps ==
    ASSUME NEW s \in Int, s > 0, NEW a \in Int, NEW b \in Int
    PROVE  /\ ((a % s) + (b % s)) % s = (a + b) % s
           /\ ((a % s) - (b % s)) % s = (a - b) % s
           /\ ((a % s) * (b % s)) % s = (a * b) % s
           /\ ((a % s) * b) % s = (a * b) % s
           /\ (a % s) % s = a % s
           /\ (s - b) % s = (-b) % s
<1>1. PICK p \in Int, x \in Int : x = a % s /\ a = (p * s) + x
  BY Division
<1>2. PICK q \in Int, y \in Int : y = b % s /\ b = (q * s) + y
  BY Division
<1>3. ASSUME NEW v \in Int, NEW w \in Int, NEW k \in Int, w = v + k * s
      PROVE  v % s = w % s
  BY <1>3, Congruent
<1>4. (x + y) % s = (a + b) % s
  <2>1. a + b = (x + y) + (p + q) * s
    BY <1>1, <1>2
  <2>2. PICK v \in Int, w \in Int, k \in Int : v = x + y /\ w = a + b /\ k = p + q
    OBVIOUS
  <2>. QED BY ONLY <1>3, <2>1, <2>2
<1>5. (x - y) % s = (a - b) % s
  <2>1. a - b = (x - y) + (p - q) * s
    BY <1>1, <1>2
  <2>2. PICK v \in Int, w \in Int, k \in Int : v = x - y /\ w = a - b /\ k = p - q
    OBVIOUS
  <2>. QED BY ONLY <1>3, <2>1, <2>2
<1>6. (x * b) % s = (a * b) % s
  <2>1. a * b = (x * b) + (p * b) * s
    BY <1>1
  <2>2. PICK v \in Int, w \in Int, k \in Int : v = x * b /\ w = a * b /\ k = p * b
    OBVIOUS
  <2>. QED BY ONLY <1>3, <2>1, <2>2
<1>7. (x * y) % s = (x * b) % s
  <2>1. x * b = (x * y) + (x * q) * s
    BY <1>2
  <2>2. PICK v \in Int, w \in Int, k \in Int : v = x * y /\ w = x * b /\ k = x * q
    OBVIOUS
  <2>. QED BY ONLY <1>3, <2>1, <2>2
<1>8. x % s = a % s
  <2>1. a = x + p * s
    BY <1>1
  <2>. QED BY <1>3, <2>1
<1>9. (s - b) % s = (-b) % s
  <2>1. PICK v \in Int, w \in Int : v = -b /\ w = s - b
    OBVIOUS
  <2>2. w = v + s
    BY <2>1
  <2>3. w % s = v % s
    BY <2>2, OneSizeOff
  <2>. QED BY ONLY <2>1, <2>3, Zenon
<1>10. x = a % s /\ y = b % s
  BY <1>1, <1>2
<1>11. (x * y) % s = (a * b) % s
  BY <1>6, <1>7
<1>12. ((a % s) + (b % s)) % s = (a + b) % s
  BY ONLY <1>4, <1>10, Zenon
<1>13. ((a % s) - (b % s)) % s = (a - b) % s
  BY ONLY <1>5, <1>10, Zenon
<1>14. ((a % s) * (b % s)) % s = (a * b) % s
  BY ONLY <1>10, <1>11, Zenon
<1>15. ((a % s) * b) % s = (a * b) % s
  BY ONLY <1>6, <1>10, Zenon
<1>16. (a % s) % s = a % s
  BY ONLY <1>8, <1>10, Zenon
<1>. QED BY ONLY <1>9, <1>12, <1>13, <1>14, <1>15, <1>16

-----------------------------------------------------------------------------
(* What the chain computes                                                 *)

\* A word stands for the value the simulator cuts a number off to.
LEMMA WordIs ==
    ASSUME NEW t \in IntTypes, NEW v \in Int
    PROVE  /\ t.size \in Int /\ t.size > 0
           /\ v % t.size \in Int /\ 0 <= v % t.size /\ v % t.size < t.size
           /\ FromWord(v % t.size, t) = Convert(v, t)
           /\ CanRepresent(t, v) => FromWord(v % t.size, t) = v
<1>1. PICK h \in 1 .. t.size : t.size = 2 * h
  BY SizeOfType
<1>2. t.size \in Int /\ t.size > 0
  BY <1>1, SizeOfType
<1>3. v % t.size \in 0 .. (t.size - 1)
  BY <1>2, Division
<1>4. FromWord(v % t.size, t) = Convert(v, t)
  BY DEF FromWord, Convert
<1>. QED BY <1>2, <1>3, <1>4, ConvertKeepsValues

\* The magnitude of a word is that of its value.
LEMMA MagnitudeIs ==
    ASSUME NEW t \in IntTypes, NEW v \in Int, CanRepresent(t, v)
    PROVE  (IF v < 0 THEN t.size - (v % t.size) ELSE v % t.size) = Abs(v)
<1>1. PICK h \in 1 .. t.size : t.size = 2 * h /\ t.size \div 2 = h
  BY SizeOfType
<1>2. t.k \in {"int", "uint"} /\ t.size \in Int /\ h \in Int /\ h > 0
  BY <1>1, SizeOfType
<1>3. CASE v < 0
  <2>1. -h <= v
    BY <1>1, <1>2, <1>3 DEF CanRepresent, Low, High
  <2>2. v % t.size = v + t.size
    BY <1>1, <1>2, <1>3, <2>1
  <2>. QED BY <1>2, <1>3, <2>2 DEF Abs
<1>4. CASE v >= 0
  <2>1. v < t.size
    BY <1>1, <1>2, <1>4 DEF CanRepresent, Low, High
  <2>2. v % t.size = v
    BY <1>2, <1>4, <2>1
  <2>. QED BY <1>4, <2>2 DEF Abs
<1>. QED BY <1>3, <1>4

\* On words, an arithmetic operation yields what the simulator computes and
\* cuts off to the type.
LEMMA ArithmeticOnWords ==
    ASSUME NEW t \in IntTypes, NEW a \in Int, CanRepresent(t, a), NEW b \in Int, CanRepresent(t, b),
           NEW f \in Arithmetic, f \in {"/", "%"} => b # 0
    PROVE  PythonOp(f, a, b) \in Int /\ EvmOp(f, t, a, b) = Convert(PythonOp(f, a, b), t)
<1>. DEFINE s == t.size
            x == a % s
            y == b % s
<1>1. /\ s \in Int /\ s > 0 /\ x \in Int /\ y \in Int /\ 0 <= y /\ y < s
      /\ FromWord(x, t) = a /\ FromWord(y, t) = b
  BY WordIs
<1>2. \A v \in Int : FromWord(v % s, t) = Convert(v, t)
  BY WordIs
<1>3. /\ (x + y) % s = (a + b) % s
      /\ (x - y) % s = (a - b) % s
      /\ (x * y) % s = (a * b) % s
  <2>1. s \in Int /\ s > 0
    BY <1>1
  <2>. HIDE DEF s
  <2>. QED BY <2>1, RemainderOps, Zenon
<1>4. \A v \in Int : (s - v) % s = (-v) % s
  <2>1. s \in Int /\ s > 0
    BY <1>1
  <2>. HIDE DEF s
  <2>. QED BY <2>1, RemainderOps, Zenon
<1>5. CASE f = "+"
  <2>1. PythonOp(f, a, b) = a + b /\ EvmOp(f, t, a, b) = FromWord((x + y) % s, t)
    BY <1>5 DEF PythonOp, EvmOp, Word
  <2>. QED BY <1>2, <1>3, <2>1
<1>6. CASE f = "-"
  <2>1. PythonOp(f, a, b) = a - b /\ EvmOp(f, t, a, b) = FromWord((x + s - y) % s, t)
    BY <1>6 DEF PythonOp, EvmOp, Word
  <2>2. PICK v \in Int, w \in Int : v = x - y /\ w = x + s - y
    BY <1>1
  <2>3. w = v + s
    BY <1>1, <2>2
  <2>4. w % s = v % s
    BY <1>1, <2>3, OneSizeOff
  <2>. QED BY <1>2, <1>3, <2>1, <2>2, <2>4
<1>7. CASE f = "*"
  <2>1. PythonOp(f, a, b) = a * b /\ EvmOp(f, t, a, b) = FromWord((x * y) % s, t)
    BY <1>7 DEF PythonOp, EvmOp, Word
  <2>2. a * b \in Int
    OBVIOUS
  <2>. QED BY <1>2, <1>3, <2>1, <2>2
<1>8. /\ (IF a < 0 THEN s - x ELSE x) = Abs(a) /\ (IF b < 0 THEN s - y ELSE y) = Abs(b)
      /\ Abs(a) \in Int /\ Abs(b) \in Int /\ Abs(a) >= 0 /\ (b # 0 => Abs(b) > 0)
  BY MagnitudeIs DEF Abs
<1>9. CASE f = "/"
  <2>1. PICK q \in Int : q = Abs(a) \div Abs(b)
    BY <1>8, <1>9, Division
  <2>2. PythonOp(f, a, b) = IF (a < 0) # (b < 0) THEN -q ELSE q
    BY <1>9, <2>1 DEF PythonOp, PythonDiv
  <2>3. EvmOp(f, t, a, b) = FromWord(IF (a < 0) # (b < 0) THEN (s - q) % s ELSE q % s, t)
    BY <1>1, <1>8, <1>9, <2>1 DEF EvmOp, Word
  <2>. QED BY <1>2, <1>4, <2>2, <2>3
<1>10. CASE f = "%"
  <2>1. PICK r \in Int : r = Abs(a) % Abs(b) /\ r >= 0 /\ r < Abs(b)
    BY <1>8, <1>10, Division
  <2>2. PythonOp(f, a, b) = IF a < 0 THEN -r ELSE r
    BY <1>10, <2>1 DEF PythonOp, PythonMod
  <2>3. EvmOp(f, t, a, b) = FromWord(IF a < 0 THEN (s - r) % s ELSE r, t)
    BY <1>1, <1>8, <1>10, <2>1 DEF EvmOp, Word
  <2>4. r % s = r
    <3>1. Abs(b) <= s
      BY <1>1, <1>8
    <3>2. 0 <= r /\ r < s
      BY <1>1, <1>8, <1>10, <2>1, <3>1
    <3>. QED BY <1>1, <3>2, SmallRemainder
  <2>. QED BY <1>2, <1>4, <2>2, <2>3, <2>4
<1>. QED BY <1>5, <1>6, <1>7, <1>9, <1>10 DEF Arithmetic

\* Comparisons of words compare the values.
LEMMA ComparisonOnWords ==
    ASSUME NEW t \in IntTypes, NEW a \in Int, CanRepresent(t, a), NEW b \in Int, CanRepresent(t, b),
           NEW f \in Comparison
    PROVE  EvmOp(f, t, a, b) = PythonOp(f, a, b) /\ PythonOp(f, a, b) \in {0, 1}
<1>1. FromWord(a % t.size, t) = a /\ FromWord(b % t.size, t) = b
  BY WordIs
<1>2. CASE f = "<"
  BY <1>1, <1>2 DEF EvmOp, PythonOp, Word, Truth
<1>3. CASE f = "=="
  <2>1. a % t.size = b % t.size <=> a = b
    BY <1>1
  <2>. QED BY <1>3, <2>1 DEF EvmOp, PythonOp, Word, Truth
<1>. QED BY <1>2, <1>3 DEF Comparison

\* So does a shift whose result the type can represent.
LEMMA ShiftOnWords ==
    ASSUME NEW t \in IntTypes, NEW a \in Int, NEW b \in 0 .. 3, NEW f \in Shift,
           CanRepresent(t, a * 2^b)
    PROVE  EvmOp(f, t, a, b) = PythonOp(f, a, b) /\ PythonOp(f, a, b) = a * 2^b /\ a * 2^b \in Int
<1>1. PICK p \in Int : p = 2^b
  OBVIOUS
<1>2. t.size \in Int /\ t.size > 0
  BY WordIs
<1>3. f = "<<"
  BY DEF Shift
<1>4. EvmOp(f, t, a, b) = FromWord(((a % t.size) * p) % t.size, t) /\ PythonOp(f, a, b) = a * p
  BY <1>1, <1>3 DEF EvmOp, PythonOp, Word
<1>5. ((a % t.size) * p) % t.size = (a * p) % t.size
  BY <1>2, RemainderOps
<1>6. PICK v \in Int : v = a * p
  OBVIOUS
<1>7. FromWord(v % t.size, t) = v
  <2>1. CanRepresent(t, v)
    BY <1>1, <1>6
  <2>. QED BY <2>1, WordIs
<1>. QED BY <1>1, <1>4, <1>5, <1>6, <1>7

\* The chain computes on words: it takes a number and its word for the same.
LEMMA WordsAlike ==
    ASSUME NEW t \in IntTypes, NEW a \in Int, NEW b \in Int, NEW f \in Operators,
           NEW x \in {a, a % t.size}, NEW y \in {b, b % t.size}, f \in Shift => y = b
    PROVE  EvmOp(f, t, x, y) = EvmOp(f, t, a, b)
<1>1. Word(x, t) = Word(a, t) /\ Word(y, t) = Word(b, t)
  <2>1. t.size \in Int /\ t.size > 0
    BY WordIs
  <2>2. (a % t.size) % t.size = a % t.size /\ (b % t.size) % t.size = b % t.size
    BY <2>1, RemainderOps
  <2>. QED BY <2>2 DEF Word
<1>2. CASE f \in Shift
  BY <1>1, <1>2 DEF EvmOp, Shift
<1>3. CASE f \notin Shift
  BY <1>1, <1>3 DEF EvmOp, Shift, Operators, Arithmetic, Comparison
<1>. QED BY <1>2, <1>3

\* The circuit gets a value or its word, and a small number as it is.
LEMMA CircuitInputs ==
    ASSUME NEW t \in IntTypes, NEW a \in Int, CanRepresent(t, a), CanBePrivateType(t)
    PROVE  /\ t.size # MaxSize => SerializedByContract(a, t) \in {a, a % t.size}
           /\ t.size = MaxSize => SerializedByContract(a, t) = a % FieldPrime
           /\ t.size # MaxSize /\ a >= 0 => SerializedByContract(a, t) = a
           /\ t.size = MaxSize => t.k = "uint" /\ a >= 0
<1>1. t.k \in {"int", "uint"}
  BY SizeOfType
<1>2. t.k = "int" => t.size # MaxSize
  BY DEF CanBePrivateType
<1>3. t.k = "int" /\ a >= 0 => a % t.size = a
  <2>1. PICK h \in 1 .. t.size : t.size = 2 * h /\ t.size \div 2 = h
    BY SizeOfType
  <2>2. t.k = "int" => a < t.size
    BY <2>1, SizeOfType DEF CanRepresent, High
  <2>3. t.size \in Int /\ t.size > 0
    BY WordIs
  <2>. QED BY <2>2, <2>3, SmallRemainder
<1>4. t.k = "uint" => a >= 0
  BY DEF CanRepresent, Low
<1>. QED BY <1>1, <1>2, <1>3, <1>4 DEF SerializedByContract

\* The word of a value is what the simulator serialises.
LEMMA SerializedWord ==
    ASSUME NEW t \in IntTypes, NEW v \in Int, CanRepresent(t, v), t.size # MaxSize
    PROVE  SerializedBySimulator(v, t) = Word(v, t)
<1>1. PICK h \in 1 .. t.size : t.size = 2 * h /\ t.size \div 2 = h
  BY SizeOfType
<1>2. v < t.size
  BY <1>1, SizeOfType DEF CanRepresent, High
<1>3. t.size \in Int /\ t.size > 0
  BY WordIs
<1>4. v >= 0 => v % t.size = v
  BY <1>2, <1>3, SmallRemainder
<1>. QED BY <1>4 DEF SerializedBySimulator, Word

\* A circuit computes what the simulator serialises.
LEMMA CircuitAgrees ==
    ASSUME NEW t \in IntTypes, NEW a \in Int, CanRepresent(t, a), NEW b \in Int, CanRepresent(t, b),
           NEW f \in Operators \ {"/", "%"}, CanBePrivateType(t),
           f \in Shift => t.size # MaxSize /\ b \in 0 .. 3 /\ CanRepresent(t, a * 2^b),
           t.size = MaxSize /\ f \in Comparison => a < FieldPrime /\ b < FieldPrime
    PROVE  ByCircuit(f, t, a, b) = SerializedBySimulator(Simulated(f, t, a, b, TRUE), t)
<1>. DEFINE x == SerializedByContract(a, t)
            y == SerializedByContract(b, t)
<1>0. FieldPrime \in Int /\ FieldPrime > 1 /\ FieldPrime > 0
  BY SizeAssumption
<1>1. f \in {"+", "-", "*", "<", "==", "<<"}
  BY DEF Operators, Arithmetic, Comparison, Shift
<1>2. CASE f \in Arithmetic /\ t.size = MaxSize
  <2>1. f \in {"+", "-", "*"}
    BY <1>2 DEF Arithmetic
  <2>2. ByCircuit(f, t, a, b) = PythonOp(f, a % FieldPrime, b % FieldPrime) % FieldPrime
    BY <1>2, CircuitInputs DEF ByCircuit
  <2>3. PythonOp(f, a % FieldPrime, b % FieldPrime) % FieldPrime = PythonOp(f, a, b) % FieldPrime
    <3>1. /\ ((a % FieldPrime) + (b % FieldPrime)) % FieldPrime = (a + b) % FieldPrime
          /\ ((a % FieldPrime) - (b % FieldPrime)) % FieldPrime = (a - b) % FieldPrime
          /\ ((a % FieldPrime) * (b % FieldPrime)) % FieldPrime = (a * b) % FieldPrime
      BY <1>0, RemainderOps, Zenon
    <3>2. CASE f = "+"
      <4>1. /\ PythonOp(f, a % FieldPrime, b % FieldPrime) = (a % FieldPrime) + (b % FieldPrime)
            /\ PythonOp(f, a, b) = a + b
        BY <3>2 DEF PythonOp
      <4>. QED BY ONLY <3>1, <4>1, Zenon
    <3>3. CASE f = "-"
      <4>1. /\ PythonOp(f, a % FieldPrime, b % FieldPrime) = (a % FieldPrime) - (b % FieldPrime)
            /\ PythonOp(f, a, b) = a - b
        BY <3>3 DEF PythonOp
      <4>. QED BY ONLY <3>1, <4>1, Zenon
    <3>4. CASE f = "*"
      <4>1. /\ PythonOp(f, a % FieldPrime, b % FieldPrime) = (a % FieldPrime) * (b % FieldPrime)
            /\ PythonOp(f, a, b) = a * b
        BY <3>4 DEF PythonOp
      <4>. QED BY ONLY <3>1, <4>1, Zenon
    <3>. QED BY <2>1, <3>2, <3>3, <3>4
  <2>4. PICK v \in Int : v = PythonOp(f, a, b)
    BY <2>1 DEF PythonOp
  <2>5. Simulated(f, t, a, b, TRUE) = v % FieldPrime
    BY <1>2, <2>4 DEF Simulated, Constructed
  <2>6. PICK w \in Int : w = v % FieldPrime /\ w >= 0 /\ w < FieldPrime
    BY <1>0, Division
  <2>7. w % FieldPrime = w
    BY <1>0, <2>6, SmallRemainder
  <2>8. SerializedBySimulator(w, t) = w
    BY <1>2, <2>6, <2>7 DEF SerializedBySimulator
  <2>. QED BY <2>2, <2>3, <2>4, <2>5, <2>6, <2>8
<1>3. CASE f \in Arithmetic /\ t.size # MaxSize
  <2>1. ByCircuit(f, t, a, b) = Word(EvmOp(f, t, x, y), t)
    BY <1>3 DEF ByCircuit, Arithmetic, Comparison
  <2>2. x \in {a, a % t.size} /\ y \in {b, b % t.size}
    BY <1>3, CircuitInputs
  <2>3. f \notin Shift
    BY <1>3 DEF Arithmetic, Shift
  <2>. HIDE DEF x, y
  <2>4. EvmOp(f, t, x, y) = EvmOp(f, t, a, b)
    BY <2>2, <2>3, WordsAlike
  <2>5. PythonOp(f, a, b) \in Int /\ EvmOp(f, t, a, b) = Convert(PythonOp(f, a, b), t)
    BY <1>1, <1>3, ArithmeticOnWords
  <2>6. PICK c \in Int : c = Convert(PythonOp(f, a, b), t) /\ CanRepresent(t, c)
    BY <2>5, ConvertInRange
  <2>7. Simulated(f, t, a, b, TRUE) = c
    BY <1>3, <2>6 DEF Simulated, Constructed
  <2>. QED BY <1>3, <2>1, <2>4, <2>5, <2>6, <2>7, SerializedWord
<1>4. CASE f \in Comparison
  <2>1. ByCircuit(f, t, a, b) = EvmOp(f, t, x, y)
    BY <1>4 DEF ByCircuit, Arithmetic, Comparison
  <2>2. x \in {a, a % t.size} /\ y \in {b, b % t.size}
    <3>1. CASE t.size = MaxSize
      <4>1. /\ a >= 0 /\ a < FieldPrime /\ x = a % FieldPrime
            /\ b >= 0 /\ b < FieldPrime /\ y = b % FieldPrime
        BY <1>4, <3>1, CircuitInputs
      <4>. QED BY <1>0, <4>1, SmallRemainder
    <3>2. CASE t.size # MaxSize
      BY <3>2, CircuitInputs
    <3>. QED BY <3>1, <3>2
  <2>3. f \notin Shift /\ f \notin Arithmetic
    BY <1>4 DEF Comparison, Shift, Arithmetic
  <2>. HIDE DEF x, y
  <2>4. EvmOp(f, t, x, y) = EvmOp(f, t, a, b)
    BY <2>2, <2>3, WordsAlike
  <2>5. EvmOp(f, t, a, b) = PythonOp(f, a, b) /\ PythonOp(f, a, b) \in {0, 1}
    BY <1>4, ComparisonOnWords
  <2>6. Simulated(f, t, a, b, TRUE) = PythonOp(f, a, b)
    BY <2>3 DEF Simulated
  <2>7. \A v \in {0, 1} : SerializedBySimulator(v, t) = v
    BY <1>0, SmallRemainder DEF SerializedBySimulator
  <2>. QED BY <2>1, <2>4, <2>5, <2>6, <2>7
<1>5. CASE f \in Shift
  <2>1. ByCircuit(f, t, a, b) = Word(EvmOp(f, t, x, y), t) /\ f \notin Arithmetic
    BY <1>5 DEF ByCircuit, Arithmetic, Comparison, Shift
  <2>2. x \in {a, a % t.size} /\ y = b
    BY <1>5, CircuitInputs
  <2>. HIDE DEF x, y
  <2>4. EvmOp(f, t, x, y) = EvmOp(f, t, a, b)
    BY <1>5, <2>2, WordsAlike
  <2>5. PICK v \in Int : v = a * 2^b /\ EvmOp(f, t, a, b) = v /\ PythonOp(f, a, b) = v
    BY <1>5, ShiftOnWords
  <2>6. Simulated(f, t, a, b, TRUE) = v
    BY <2>1, <2>5 DEF Simulated
  <2>. QED BY <1>5, <2>1, <2>4, <2>5, <2>6, SerializedWord
<1>. QED BY <1>1, <1>2, <1>3, <1>4, <1>5 DEF Arithmetic, Comparison, Shift

\* So does the chain for public operations.
LEMMA ChainAgrees ==
    ASSUME NEW t \in IntTypes, NEW a \in Int, CanRepresent(t, a), NEW b \in Int, CanRepresent(t, b),
           NEW f \in Operators, f \in {"/", "%"} => b # 0,
           f \in Shift => b \in 0 .. 3 /\ CanRepresent(t, a * 2^b)
    PROVE  EvmOp(f, t, a, b) = Simulated(f, t, a, b, FALSE)
<1>1. CASE f \in Arithmetic
  <2>1. EvmOp(f, t, a, b) = Convert(PythonOp(f, a, b), t)
    BY <1>1, ArithmeticOnWords
  <2>. QED BY <1>1, <2>1 DEF Simulated, Constructed
<1>2. CASE f \in Comparison
  <2>1. EvmOp(f, t, a, b) = PythonOp(f, a, b)
    BY <1>2, ComparisonOnWords
  <2>. QED BY <1>2, <2>1 DEF Simulated, Arithmetic, Comparison
<1>3. CASE f \in Shift
  <2>1. EvmOp(f, t, a, b) = PythonOp(f, a, b)
    BY <1>3, ShiftOnWords
  <2>. QED BY <1>3, <2>1 DEF Simulated, Arithmetic, Shift
<1>. QED BY <1>1, <1>2, <1>3 DEF Operators

\* The type two operands are converted to, unless both are literals, is an integer type that
\* can represent their values.
IsValueOf(v, t) == v \in Int /\ IF t.k = "literal" THEN t.value = v ELSE CanRepresent(t, v)
OperandTypes == IntTypes \cup {Literal(v) : v \in Int}

\* It is the type of one of them that is no literal.
LEMMA CombinedRepresents ==
    ASSUME NEW t \in OperandTypes, NEW u \in OperandTypes, NEW a, IsValueOf(a, t), NEW b, IsValueOf(b, u),
           CombinedType(t, u, FALSE) \notin {Folded, Incompatible}
    PROVE  LET c == CombinedType(t, u, FALSE)
           IN  /\ c \in IntTypes /\ c \in {t, u} /\ (t.k # "literal" \/ u.k # "literal")
               /\ CanRepresent(c, a) /\ CanRepresent(c, b)
<1>. DEFINE c == CombinedType(t, u, FALSE)
<1>1. \A w \in IntTypes : w.k \in {"int", "uint"}
  BY SizeOfType
<1>2. \A w \in OperandTypes : w \in IntTypes \/ (w.k = "literal" /\ w = Literal(w.value) /\ w.value \in Int)
  BY DEF OperandTypes, Literal
<1>3. CASE t \in IntTypes /\ u \in IntTypes
  <2>1. t.k # "literal" /\ u.k # "literal"
    BY <1>1, <1>3
  <2>2. c = MoreGeneral(t, u)
    BY <1>1, <1>3 DEF CombinedType
  <2>3. c \in {t, u}
    BY <2>2 DEF MoreGeneral
  <2>4. a \in Int /\ CanRepresent(t, a) /\ b \in Int /\ CanRepresent(u, b)
    BY <2>1 DEF IsValueOf
  <2>. QED BY <1>3, <2>1, <2>3, <2>4, CombinedTypeIsSafe
<1>4. ASSUME NEW w \in IntTypes, NEW l \in OperandTypes, l.k = "literal", NEW v, IsValueOf(v, l)
      PROVE  /\ ~ImplicitlyConvertible(w, l)
             /\ ImplicitlyConvertible(l, w) => CanRepresent(w, v)
  <2>1. w.k \in {"int", "uint"} /\ l.value = v
    BY <1>1, <1>4 DEF IsValueOf
  <2>. QED BY <1>4, <2>1 DEF ImplicitlyConvertible, SameType, IsLiteral, IsAddress, Sized, Bool, Named
<1>5. CASE t \in IntTypes /\ u \notin IntTypes
  <2>1. u.k = "literal" /\ t.k \in {"int", "uint"}
    BY <1>1, <1>2, <1>5
  <2>2. c = MoreGeneral(t, u)
    BY <2>1 DEF CombinedType
  <2>3. c = t /\ ImplicitlyConvertible(u, t)
    BY <1>4, <1>5, <2>1, <2>2 DEF MoreGeneral
  <2>4. CanRepresent(t, a) /\ CanRepresent(t, b)
    BY <1>4, <1>5, <2>1, <2>3 DEF IsValueOf
  <2>. QED BY <1>5, <2>1, <2>3, <2>4
<1>6. CASE t \notin IntTypes /\ u \in IntTypes
  <2>1. t.k = "literal" /\ u.k \in {"int", "uint"}
    BY <1>1, <1>2, <1>6
  <2>2. c = MoreGeneral(t, u)
    BY <2>1 DEF CombinedType
  <2>3. c = u /\ ImplicitlyConvertible(t, u)
    BY <1>4, <1>6, <2>1, <2>2 DEF MoreGeneral
  <2>4. CanRepresent(u, a) /\ CanRepresent(u, b)
    BY <1>4, <1>6, <2>1, <2>3 DEF IsValueOf
  <2>. QED BY <1>6, <2>1, <2>3, <2>4
<1>7. CASE t \notin IntTypes /\ u \notin IntTypes
  <2>1. t.k = "literal" /\ u.k = "literal"
    BY <1>2, <1>7
  <2>. QED BY <2>1 DEF CombinedType
<1>. QED BY <1>3, <1>5, <1>6, <1>7

\* The sum depends on the values of the elements only.
LEMMA SumSame ==
    ASSUME NEW S, NEW val, NEW w, \A x \in S : val[x] = w[x]
    PROVE  SumOf(val, S) = SumOf(w, S)
<1>. DEFINE F(u, h) == [s \in SUBSET S |->
                           IF s = {} THEN 0
                           ELSE LET x == CHOOSE x \in s : TRUE IN u[x] + h[s \ {x}]]
<1>1. ASSUME NEW h PROVE F(val, h) = F(w, h)
  <2>1. ASSUME NEW s \in SUBSET S, s # {}
        PROVE  val[CHOOSE x \in s : TRUE] = w[CHOOSE x \in s : TRUE]
    <3>1. (CHOOSE x \in s : TRUE) \in S
      BY <2>1
    <3>. QED BY <3>1
  <2>. QED BY <2>1
<1>. HIDE DEF F
<1>2. (CHOOSE h : h = F(val, h)) = (CHOOSE h : h = F(w, h))
  BY <1>1
<1>3. /\ SumOf(val, S) = (CHOOSE h : h = F(val, h))[S]
      /\ SumOf(w, S) = (CHOOSE h : h = F(w, h))[S]
  BY DEF SumOf, MapThenSumSet, MapThenFoldSet, F
<1>. QED BY <1>2, <1>3

-----------------------------------------------------------------------------
(* The operands of an accepted expression                                  *)

Args == Expr.args
ReadBy(i) ==
    CASE Args[i].k = "call" -> CallReads(Args[i].of)
      [] Args[i].k = "value" -> {Args[i].value}
      [] OTHER -> {}
ModBy(i) == IF Args[i].k = "call" THEN CallMods(Args[i].of) ELSE {}

ReadAt(i) == {Location(v) : v \in ReadBy(i)}
ModAt(i) == {Location(v) : v \in ModBy(i)}

\* No operand modifies what another uses or modifies.
Apart == \A i, j \in DOMAIN Args : i # j => ModAt(i) \cap (ReadAt(j) \cup ModAt(j)) = {}

ValueOf(i, s) == OperandValue(Args[i], s)

\* What operand i stores, given the contents s.
Stored(i, s) == [l \in ModAt(i) |-> Convert(Used(Args[i].of, s) + Args[i].of, TypeAt(l))]

\* t is what is left of s when the operands in D have been evaluated.
Partly(t, s, D) ==
    /\ t = [l \in Locations |-> t[l]]
    /\ \A i \in D : \A l \in ModAt(i) : t[l] = Stored(i, s)[l]
    /\ \A l \in Locations : (\A i \in D : l \notin ModAt(i)) => t[l] = s[l]

Evaluable == program \in Programs /\ keys \in [Keys -> KeyValues]

\* The operands of an expression, by the assumptions on programs.
LEMMA ArgsAre ==
    ASSUME Evaluable
    PROVE  /\ Len(Args) \in Nat /\ DOMAIN Args = 1 .. Len(Args)
           /\ Expr.f = "args" \/ (Expr.f \in Operators /\ Len(Args) = 2)
           /\ Expr.private \in BOOLEAN
           /\ \A i \in DOMAIN Args :
                 /\ Args[i].k \in {"value", "literal", "call"}
                 /\ Args[i].k = "literal" => Args[i].literal \in Int
                 /\ Args[i].k = "value" =>
                       /\ Args[i].value.var \in DOMAIN VarType
                       /\ Location(Args[i].value) \in Locations
                       /\ Location(Args[i].value)[1] = Args[i].value.var
                 /\ Args[i].k = "call" =>
                       Args[i].of \in Fns /\ Args[i].of \in Int /\ program.fns[Args[i].of].returns \in IntTypes
<1>1. program \in Programs /\ keys \in [Keys -> KeyValues]
  BY DEF Evaluable
<1>2. /\ Len(Args) \in Nat /\ DOMAIN Args = 1 .. Len(Args)
      /\ Expr.f = "args" \/ (Expr.f \in Operators /\ Len(Args) = 2)
      /\ Expr.private \in BOOLEAN
  BY <1>1, OperandAssumption DEF Args, Expr
<1>3. ASSUME NEW i \in DOMAIN Args
      PROVE  /\ Args[i].k \in {"value", "literal", "call"}
             /\ Args[i].k = "literal" => Args[i].literal \in Int
  BY <1>1, OperandAssumption DEF Args, Expr
<1>4. ASSUME NEW i \in DOMAIN Args, Args[i].k = "value"
      PROVE  /\ Args[i].value.var \in DOMAIN VarType
             /\ Location(Args[i].value) \in Locations
             /\ Location(Args[i].value)[1] = Args[i].value.var
  <2>1. Args[i].value.var \in DOMAIN VarType /\ Args[i].value.key \in Keys \cup {NoKey}
    BY <1>1, <1>4, OperandAssumption DEF Args, Expr
  <2>2. (IF Args[i].value.key = NoKey THEN NoKey ELSE keys[Args[i].value.key]) \in KeyValues \cup {NoKey}
    BY <1>1, <2>1
  <2>. QED BY <2>1, <2>2 DEF Location, Locations
<1>5. ASSUME NEW i \in DOMAIN Args, Args[i].k = "call"
      PROVE  Args[i].of \in Fns /\ Args[i].of \in Int /\ program.fns[Args[i].of].returns \in IntTypes
  <2>1. Args[i].of \in DOMAIN program.fns
    BY <1>1, <1>5, ExpressionAssumption DEF Args, Expr
  <2>2. program.fns[Args[i].of].returns \in IntTypes
    BY <1>1, <2>1, OperandAssumption
  <2>3. Args[i].of \in Int
    BY <1>1, <2>1, Numbered DEF Fns
  <2>. QED BY <2>1, <2>2, <2>3 DEF Fns
<1>. QED BY <1>2, <1>3, <1>4, <1>5

\* An operand depends only on what it reads.
LEMMA ReadsSuffice ==
    ASSUME Evaluable, NEW i \in DOMAIN Args, NEW s, NEW t, \A l \in ReadAt(i) : t[l] = s[l]
    PROVE  /\ ValueOf(i, t) = ValueOf(i, s)
           /\ Args[i].k = "call" => Used(Args[i].of, t) = Used(Args[i].of, s)
<1>1. CASE Args[i].k = "call"
  <2>1. ReadAt(i) = {Location(v) : v \in CallReads(Args[i].of)}
    BY <1>1 DEF ReadAt, ReadBy
  <2>2. SumOf(t, {Location(v) : v \in CallReads(Args[i].of)})
          = SumOf(s, {Location(v) : v \in CallReads(Args[i].of)})
    <3>. HIDE DEF ReadAt
    <3>. QED BY <2>1, SumSame
  <2>3. Used(Args[i].of, t) = Used(Args[i].of, s)
    BY <2>2 DEF Used, SumOf
  <2>. QED BY <1>1, <2>3 DEF ValueOf, OperandValue
<1>2. CASE Args[i].k = "value"
  <2>1. Location(Args[i].value) \in ReadAt(i)
    BY <1>2 DEF ReadAt, ReadBy
  <2>. QED BY <1>2, <2>1 DEF ValueOf, OperandValue
<1>3. CASE Args[i].k = "literal"
  BY <1>3 DEF ValueOf, OperandValue
<1>. QED BY <1>1, <1>2, <1>3, ArgsAre

\* What an operand modifies has a place in the store.
LEMMA ModsLocated ==
    ASSUME Evaluable, NEW i \in DOMAIN Args
    PROVE  ModAt(i) \subseteq Locations /\ ReadAt(i) \subseteq Locations
<1>. program \in Programs /\ keys \in [Keys -> KeyValues]
  BY DEF Evaluable
<1>1. ASSUME NEW v, v.var \in DOMAIN VarType, v.key \in Keys \cup {NoKey}
      PROVE  Location(v) \in Locations
  <2>1. (IF v.key = NoKey THEN NoKey ELSE keys[v.key]) \in KeyValues \cup {NoKey}
    BY <1>1
  <2>. QED BY <1>1, <2>1 DEF Location, Locations
<1>2. ASSUME NEW h \in Fns, NEW v \in DirectlyModified(h)
      PROVE  v.var \in DOMAIN VarType /\ v.key \in Keys \cup {NoKey}
  <2>1. PICK j \in Body(h) : j.k = "assign" /\ v = j.value
    BY DEF DirectlyModified
  <2>2. program.fns[h].body = Body(h) /\ h \in DOMAIN program.fns
    BY DEF Body, Fns
  <2>. QED BY <2>1, <2>2, ExpressionAssumption
<1>3. ASSUME Args[i].k = "call", NEW v \in CallMods(Args[i].of)
      PROVE  Location(v) \in Locations
  <2>1. PICK h \in Runs(Args[i].of) : v \in DirectlyModified(h)
    BY DEF CallMods, OfState
  <2>2. Args[i].of \in Fns
    BY <1>3, ArgsAre
  <2>3. h \in Fns
    BY <2>1, <2>2, RunsClosed
  <2>. QED BY <1>1, <1>2, <2>1, <2>3
<1>4. ModAt(i) \subseteq Locations
  BY <1>3 DEF ModAt, ModBy
<1>5. ReadAt(i) \subseteq Locations
  <2>1. CASE Args[i].k = "call"
    BY <2>1, ArgsAre, CallReadsLocated DEF ReadAt, ReadBy
  <2>2. CASE Args[i].k = "value"
    BY <2>2, ArgsAre DEF ReadAt, ReadBy
  <2>3. CASE Args[i].k = "literal"
    BY <2>3 DEF ReadAt, ReadBy
  <2>. QED BY <2>1, <2>2, <2>3, ArgsAre
<1>. QED BY <1>4, <1>5

\* The next operand, whichever it is, has the value it has in s, and what it
\* modifies is added to what the others have modified.
LEMMA NextOperand ==
    ASSUME Evaluable, Apart, NEW s, InRange(s), NEW D \in SUBSET DOMAIN Args, NEW i \in DOMAIN Args \ D,
           NEW t, Partly(t, s, D)
    PROVE  /\ ValueOf(i, t) = ValueOf(i, s)
           /\ Partly(AfterOperand(Args[i], t), s, D \cup {i})
<1>. DEFINE u == AfterOperand(Args[i], t)
<1>0. \A j \in D : j \in DOMAIN Args /\ j # i
  OBVIOUS
<1>1. \A l \in ReadAt(i) : t[l] = s[l]
  <2>1. ASSUME NEW l \in ReadAt(i), NEW j \in D PROVE l \notin ModAt(j)
    BY <1>0 DEF Apart
  <2>2. ReadAt(i) \subseteq Locations
    BY ModsLocated
  <2>. QED BY <2>1, <2>2 DEF Partly
<1>2. ValueOf(i, t) = ValueOf(i, s)
  BY <1>1, ReadsSuffice
<1>3. CASE Args[i].k # "call"
  <2>1. u = t /\ ModAt(i) = {}
    BY <1>3 DEF AfterOperand, ModAt, ModBy
  <2>2. Partly(t, s, D \cup {i})
    BY <2>1 DEF Partly
  <2>. QED BY <1>2, <2>1, <2>2
<1>4. CASE Args[i].k = "call"
  <2>1. Used(Args[i].of, t) = Used(Args[i].of, s)
    BY <1>1, <1>4, ReadsSuffice
  <2>2. DOMAIN t = Locations
    BY DEF Partly
  <2>3. ModAt(i) = {Location(v) : v \in CallMods(Args[i].of)}
    BY <1>4 DEF ModAt, ModBy
  <2>4. u = [l \in Locations |-> IF l \in ModAt(i)
                                 THEN Convert(Used(Args[i].of, s) + Args[i].of, TypeAt(l)) ELSE t[l]]
    BY <1>4, <2>1, <2>2, <2>3 DEF AfterOperand
  <2>. HIDE DEF u
  <2>5. u = [l \in Locations |-> u[l]]
    BY <2>4
  <2>6. ASSUME NEW j \in D \cup {i}, NEW l \in ModAt(j) PROVE u[l] = Stored(j, s)[l]
    <3>1. l \in Locations
      BY <1>0, ModsLocated
    <3>2. CASE j = i
      BY <2>4, <2>6, <3>1, <3>2 DEF Stored
    <3>3. CASE j # i
      <4>1. l \notin ModAt(i)
        BY <1>0, <2>6, <3>3 DEF Apart
      <4>2. t[l] = Stored(j, s)[l]
        BY <2>6, <3>3 DEF Partly
      <4>. QED BY <2>4, <3>1, <4>1, <4>2
    <3>. QED BY <3>2, <3>3
  <2>7. ASSUME NEW l \in Locations, \A j \in D \cup {i} : l \notin ModAt(j) PROVE u[l] = s[l]
    <3>1. t[l] = s[l] /\ l \notin ModAt(i)
      BY <2>7 DEF Partly
    <3>. QED BY <2>4, <3>1
  <2>8. Partly(u, s, D \cup {i})
    BY <2>5, <2>6, <2>7 DEF Partly
  <2>. QED BY <1>2, <2>8 DEF u
<1>. QED BY <1>3, <1>4

\* What is left is determined by the operands that have been evaluated.
LEMMA PartlyUnique ==
    ASSUME NEW D, NEW s, NEW t, NEW u, Partly(t, s, D), Partly(u, s, D)
    PROVE  t = u
<1>1. ASSUME NEW l \in Locations PROVE t[l] = u[l]
  <2>1. CASE \E i \in D : l \in ModAt(i)
    BY <2>1 DEF Partly
  <2>2. CASE \A i \in D : l \notin ModAt(i)
    BY <2>2 DEF Partly
  <2>. QED BY <2>1, <2>2
<1>2. t = [l \in Locations |-> t[l]] /\ u = [l \in Locations |-> u[l]]
  BY DEF Partly
<1>. QED BY <1>1, <1>2

\* The value of an operand is one of its type.
LEMMA ValueTyped ==
    ASSUME Evaluable, NEW i \in DOMAIN Args, NEW s, InRange(s)
    PROVE  /\ OperandType(Args[i]) \in OperandTypes
           /\ IsValueOf(ValueOf(i, s), OperandType(Args[i]))
<1>0. \A t \in IntTypes : t.k # "literal" /\ t \in OperandTypes
  BY SizeOfType DEF OperandTypes
<1>1. CASE Args[i].k = "value"
  <2>. DEFINE l == Location(Args[i].value)
  <2>1. /\ l \in Locations /\ TypeAt(l) = VarType[Args[i].value.var]
        /\ VarType[Args[i].value.var] \in IntTypes
    BY <1>1, ArgsAre, ExpressionAssumption DEF TypeAt
  <2>2. ValueOf(i, s) = s[l] /\ OperandType(Args[i]) = TypeAt(l)
    BY <1>1, <2>1 DEF ValueOf, OperandValue, OperandType
  <2>3. s[l] \in Int /\ CanRepresent(TypeAt(l), s[l])
    BY <2>1 DEF InRange
  <2>. QED BY <1>0, <2>1, <2>2, <2>3 DEF IsValueOf
<1>2. CASE Args[i].k = "literal"
  <2>1. ValueOf(i, s) = Args[i].literal /\ OperandType(Args[i]) = Literal(Args[i].literal)
    BY <1>2 DEF ValueOf, OperandValue, OperandType
  <2>2. Args[i].literal \in Int
    BY <1>2, ArgsAre
  <2>. QED BY <2>1, <2>2 DEF IsValueOf, OperandTypes, Literal
<1>3. CASE Args[i].k = "call"
  <2>. DEFINE g == Args[i].of
              S == {Location(v) : v \in CallReads(g)}
  <2>1. g \in Fns /\ program.fns[g].returns \in IntTypes
    BY <1>3, ArgsAre
  <2>2. SumOf(s, S) \in Int
    <3>1. IsFiniteSet(S) /\ S \subseteq Locations
      BY <2>1, CallReadsLocated DEF Evaluable
    <3>2. \A l \in S : s[l] \in Int
      BY <3>1 DEF InRange
    <3>. HIDE DEF S
    <3>. QED BY <3>1, <3>2, SumIsInt
  <2>3. Used(g, s) \in Int
    BY <2>2 DEF Used, SumOf
  <2>4. /\ ValueOf(i, s) = Convert(Used(g, s) + 1, program.fns[g].returns)
        /\ OperandType(Args[i]) = program.fns[g].returns
    BY <1>3 DEF ValueOf, OperandValue, OperandType
  <2>. QED BY <1>0, <2>1, <2>3, <2>4, ConvertInRange DEF IsValueOf
<1>. QED BY <1>1, <1>2, <1>3, ArgsAre

\* The simulator evaluates one more operand.
WithOperand(r, i) ==
    [values |-> Append(r.values, OperandValue(Args[i], r.store)),
     store |-> AfterOperand(Args[i], r.store)]

\* The simulator evaluates the operands one after the other.
LEMMA LeftToRightFold ==
    ASSUME Evaluable, NEW s, InRange(s)
    PROVE  \E acc : /\ acc[0] = [values |-> <<>>, store |-> s] /\ LeftToRight(s) = acc[Len(Args)]
                    /\ \A i \in DOMAIN Args : acc[i] = WithOperand(acc[i - 1], i)
<1>. DEFINE n == Len(Args)
            S == 1 .. n
            D == SUBSET S
            Contents == {u \in [Locations -> Int] : InRange(u)}
            T == [values : Seq(Int), store : Contents]
            base == [values |-> <<>>, store |-> s]
            pick == [d \in D |-> Max(d)]
            step == [it \in S \X T |-> WithOperand(it[2], it[1])]
            Eqn(h) == h = [d \in SUBSET DOMAIN Args |->
                            IF d = {} THEN base
                            ELSE LET x == Max(d)
                                 IN  [values |-> Append(h[d \ {x}].values,
                                                        OperandValue(Args[x], h[d \ {x}].store)),
                                      store |-> AfterOperand(Args[x], h[d \ {x}].store)]]
            fold == CHOOSE h : Eqn(h)
<1>0. DOMAIN Args = S /\ n \in Nat
  BY ArgsAre
<1>1. \A u : InRange(u) => u \in Contents
  BY DEF InRange
<1>2. ASSUME NEW i \in S, NEW r \in T PROVE WithOperand(r, i) \in T
  <2>1. r.values \in Seq(Int) /\ InRange(r.store) /\ i \in DOMAIN Args
    BY <1>0
  <2>2. OperandValue(Args[i], r.store) \in Int
    BY <2>1, ValueTyped DEF ValueOf, IsValueOf
  <2>3. AfterOperand(Args[i], r.store) \in Contents
    <3>1. program \in Programs /\ keys \in [Keys -> KeyValues] /\ i \in DOMAIN Expr.args
      BY <2>1 DEF Evaluable, Args
    <3>2. InRange(AfterOperand(Expr.args[i], r.store))
      BY <2>1, <3>1, AfterOperandInRange
    <3>. HIDE DEF Contents
    <3>. QED BY <1>1, <3>2 DEF Args
  <2>4. Append(r.values, OperandValue(Args[i], r.store)) \in Seq(Int)
    BY <2>1, <2>2
  <2>. HIDE DEF Contents
  <2>. QED BY <2>3, <2>4 DEF WithOperand
<1>3. PICK g \in [D -> T] :
          \A d \in D : g[d] = IF d = {} THEN base ELSE step[<<pick[d], g[d \ {pick[d]}]>>]
  <2>1. Foldable(S, D, T, base, step, pick)
    <3>1. step \in [S \X T -> T]
      <4>. HIDE DEF S, T
      <4>. QED BY <1>2
    <3>2. ASSUME NEW d \in D, d # {} PROVE pick[d] \in d
      <4>1. Max(d) \in d
        BY <1>0, <3>2, MaxOf
      <4>. QED BY <4>1
    <3>3. IsFiniteSet(S)
      BY <1>0, FS_Interval
    <3>4. base \in T
      <4>. HIDE DEF Contents
      <4>. QED BY <1>1
    <3>. HIDE DEF pick, step, S, T, D, base
    <3>5. D = SUBSET S
      BY DEF D
    <3>. QED BY <3>1, <3>2, <3>3, <3>4, <3>5 DEF Foldable
  <2>. HIDE DEF pick, step, D, S, T, base
  <2>. QED BY <2>1, FoldSolution
<1>4. ASSUME NEW d \in D, d # {}
      PROVE  /\ pick[d] = Max(d)
             /\ step[<<pick[d], g[d \ {pick[d]}]>>] = WithOperand(g[d \ {Max(d)}], Max(d))
  <2>1. Max(d) \in S /\ d \ {Max(d)} \in D
    BY <1>0, <1>4, MaxOf
  <2>. HIDE DEF S, T, D
  <2>2. pick[d] = Max(d)
    OBVIOUS
  <2>3. g[d \ {Max(d)}] \in T
    BY <2>1
  <2>. HIDE DEF pick
  <2>. QED BY <2>1, <2>2, <2>3
<1>5. Eqn(g)
  <2>1. \A d \in SUBSET DOMAIN Args :
          g[d] = IF d = {} THEN base
                 ELSE LET x == Max(d)
                      IN  [values |-> Append(g[d \ {x}].values,
                                             OperandValue(Args[x], g[d \ {x}].store)),
                           store |-> AfterOperand(Args[x], g[d \ {x}].store)]
    <3>. HIDE DEF pick, step, S, T, base
    <3>. QED BY <1>0, <1>3, <1>4 DEF WithOperand
  <2>. HIDE DEF S, T, pick, step, base
  <2>. QED BY <1>0, <2>1
<1>6. Eqn(fold)
  <2>. HIDE DEF Eqn
  <2>. QED BY <1>5
<1>7. LeftToRight(s) = fold[DOMAIN Args]
  BY DEF LeftToRight, FoldLeft, MapThenFoldSet, Args
<1>. HIDE DEF fold, pick, step, T
<1>8. \A d \in D : fold[d] = IF d = {} THEN base ELSE WithOperand(fold[d \ {Max(d)}], Max(d))
  <2>. HIDE DEF S, base
  <2>. QED BY <1>0, <1>6 DEF WithOperand
<1>. DEFINE acc == [i \in 0 .. n |-> fold[1 .. i]]
<1>9. acc[0] = base
  <2>1. 1 .. 0 = {} /\ 0 \in 0 .. n
    BY <1>0
  <2>. QED BY <1>8, <2>1
<1>10. LeftToRight(s) = acc[n]
  BY <1>0, <1>7
<1>11. ASSUME NEW i \in DOMAIN Args PROVE acc[i] = WithOperand(acc[i - 1], i)
  <2>1. /\ i \in 1 .. n /\ i \in 0 .. n /\ i - 1 \in 0 .. n /\ n \in Nat
        /\ 1 .. i \in D /\ i \in 1 .. i
    BY <1>0
  <2>2. Max(1 .. i) = i
    <3>1. Max(1 .. i) \in 1 .. i /\ \A y \in 1 .. i : Max(1 .. i) >= y
      BY <2>1, MaxOf
    <3>. QED BY <2>1, <3>1
  <2>3. (1 .. i) \ {i} = 1 .. (i - 1)
    BY <2>1
  <2>4. fold[1 .. i] = WithOperand(fold[1 .. (i - 1)], i)
    <3>. HIDE DEF D, base
    <3>. QED BY <1>8, <2>1, <2>2, <2>3
  <2>. QED BY <2>1, <2>4
<1>. HIDE DEF acc
<1>. QED BY <1>9, <1>10, <1>11

\* The operands have the values they have in s, and each has stored what it stores.
LEMMA SimulationIs ==
    ASSUME Evaluable, Apart, NEW s, InRange(s)
    PROVE  /\ LeftToRight(s).values = [i \in DOMAIN Args |-> ValueOf(i, s)]
           /\ Partly(LeftToRight(s).store, s, DOMAIN Args)
<1>1. DOMAIN Args = 1 .. Len(Args) /\ Len(Args) \in Nat
  BY ArgsAre
<1>2. PICK acc : /\ acc[0] = [values |-> <<>>, store |-> s] /\ LeftToRight(s) = acc[Len(Args)]
                 /\ \A i \in DOMAIN Args : acc[i] = WithOperand(acc[i - 1], i)
  BY LeftToRightFold
<1>. DEFINE Sofar(n) ==
              /\ acc[n].values \in Seq(Int) /\ Len(acc[n].values) = n
              /\ \A i \in 1 .. n : acc[n].values[i] = ValueOf(i, s)
              /\ Partly(acc[n].store, s, 1 .. n)
            Bad == {n \in 0 .. Len(Args) : ~Sofar(n)}
<1>3. Sofar(0)
  <2>1. acc[0].values = <<>> /\ acc[0].store = s /\ 1 .. 0 = {}
    BY <1>2
  <2>2. Partly(s, s, {})
    BY DEF Partly, InRange
  <2>. QED BY <2>1, <2>2
<1>4. ASSUME NEW n \in 1 .. Len(Args), Sofar(n - 1) PROVE Sofar(n)
  <2>. DEFINE r == acc[n - 1]
  <2>1. n \in DOMAIN Args /\ n - 1 \in Nat /\ 1 .. (n - 1) \in SUBSET DOMAIN Args /\ n \notin 1 .. (n - 1)
        /\ 1 .. n = (1 .. (n - 1)) \cup {n}
    BY <1>1
  <2>2. Partly(r.store, s, 1 .. (n - 1)) /\ acc[n] = WithOperand(r, n)
    BY <1>2, <1>4, <2>1
  <2>. HIDE DEF r
  <2>3. /\ ValueOf(n, r.store) = ValueOf(n, s)
        /\ Partly(AfterOperand(Args[n], r.store), s, (1 .. (n - 1)) \cup {n})
    <3>. HIDE DEF Sofar
    <3>. QED BY <2>1, <2>2, NextOperand
  <2>4. ValueOf(n, r.store) = ValueOf(n, s) /\ Partly(AfterOperand(Args[n], r.store), s, 1 .. n)
    BY ONLY <2>1, <2>3, Zenon
  <2>5. acc[n].values = Append(r.values, ValueOf(n, s)) /\ acc[n].store = AfterOperand(Args[n], r.store)
    <3>1. acc[n] = [values |-> Append(r.values, ValueOf(n, r.store)),
                    store |-> AfterOperand(Args[n], r.store)]
      BY ONLY <2>2, Zenon DEF WithOperand, ValueOf
    <3>. QED BY ONLY <2>4, <3>1
  <2>6. ValueOf(n, s) \in Int
    BY <2>1, ValueTyped DEF IsValueOf
  <2>7. /\ r.values \in Seq(Int) /\ Len(r.values) = n - 1
        /\ \A i \in 1 .. (n - 1) : r.values[i] = ValueOf(i, s)
    BY <1>4 DEF r
  <2>8. /\ acc[n].values \in Seq(Int) /\ Len(acc[n].values) = n
        /\ \A i \in 1 .. n : acc[n].values[i] = ValueOf(i, s)
    <3>. DEFINE e == ValueOf(n, s)
                vs == r.values
    <3>1. vs \in Seq(Int) /\ Len(vs) = n - 1 /\ e \in Int
      BY <2>6, <2>7
    <3>. HIDE DEF e, vs
    <3>2. /\ Append(vs, e) \in Seq(Int) /\ Len(Append(vs, e)) = n
          /\ \A i \in 1 .. n : Append(vs, e)[i] = IF i = n THEN e ELSE vs[i]
      BY <3>1
    <3>3. \A i \in 1 .. n : i # n => i \in 1 .. (n - 1)
      OBVIOUS
    <3>. QED BY <2>5, <2>7, <3>2, <3>3 DEF e, vs
  <2>. QED BY <2>4, <2>5, <2>8
<1>. HIDE DEF Sofar
<1>5. Bad = {}
  <2>. SUFFICES ASSUME Bad # {} PROVE FALSE
    OBVIOUS
  <2>1. PICK n \in Bad : \A m \in Bad : n <= m
    <3>1. Bad \in SUBSET Nat
      BY <1>1
    <3>. HIDE DEF Bad
    <3>. QED BY <3>1, Least
  <2>2. n \in 0 .. Len(Args) /\ ~Sofar(n)
    OBVIOUS
  <2>3. n # 0
    BY <1>3, <2>2
  <2>4. n \in 1 .. Len(Args) /\ n - 1 \in Nat /\ n - 1 \in 0 .. Len(Args) /\ n - 1 < n
    BY <1>1, <2>2, <2>3
  <2>5. n - 1 \notin Bad
    BY <2>1, <2>4
  <2>. QED BY <1>4, <2>2, <2>4, <2>5
<1>6. Sofar(Len(Args))
  <2>1. Len(Args) \in 0 .. Len(Args)
    BY <1>1
  <2>. QED BY <1>5, <2>1
<1>7. /\ LeftToRight(s).values \in Seq(Int) /\ Len(LeftToRight(s).values) = Len(Args)
      /\ \A i \in 1 .. Len(Args) : LeftToRight(s).values[i] = ValueOf(i, s)
      /\ Partly(LeftToRight(s).store, s, 1 .. Len(Args))
  BY <1>2, <1>6 DEF Sofar
<1>8. LeftToRight(s).values = [i \in 1 .. Len(Args) |-> ValueOf(i, s)]
  <2>. DEFINE vs == LeftToRight(s).values
  <2>1. vs \in Seq(Int) /\ Len(vs) = Len(Args)
    BY <1>7
  <2>2. vs = [i \in 1 .. Len(Args) |-> vs[i]]
    <3>. HIDE DEF vs
    <3>. QED BY <2>1
  <2>. QED BY <1>7, <2>2
<1>. QED BY <1>1, <1>7, <1>8

-----------------------------------------------------------------------------
(* Accepted expressions                                                    *)

\* The evaluation order check, in terms of what the calls may really do.
Ordered ==
    /\ \A i \in 2 .. Len(Args) : ModBy(1) \cap ModBy(i) = {}
    /\ \A i, j \in DOMAIN Args : i # j => ModBy(i) \cap ReadBy(j) = {}

TypesOn == {"types", "inlineable", "compliance", "hybrid", "loops", "homs", "analysed",
            "entered", "simulated", "executed"}

ExprAccepted ==
    /\ phase \in TypesOn => Ordered
    /\ phase \in TypesOn \ {"types"} => WellTyped

\* The summaries of the functions say what the operands may do.
LEMMA OperandSets ==
    ASSUME program \in Programs, SummariesExact, Past("sets"), NEW i \in DOMAIN Args
    PROVE  OperandReads(Args[i]) = ReadBy(i) /\ OperandMods(Args[i]) = ModBy(i)
<1>1. CASE Args[i].k = "call"
  <2>. DEFINE g == Args[i].of
  <2>1. g \in Fns
    BY <1>1, ExpressionAssumption DEF Args, Expr, Fns
  <2>2. attr[g].reads = Summary(g).reads /\ attr[g].mods = Summary(g).mods
    BY <2>1 DEF SummariesExact
  <2>3. OfState(Summary(g).reads) = CallReads(g)
    BY DEF Summary, CallReads, OfState, Runs
  <2>4. OfState(Summary(g).mods) = CallMods(g)
    BY DEF Summary, CallMods, OfState, Runs
  <2>. QED BY <1>1, <2>2, <2>3, <2>4 DEF OperandReads, OperandMods, ReadBy, ModBy
<1>2. CASE Args[i].k # "call"
  BY <1>2 DEF OperandReads, OperandMods, ReadBy, ModBy
<1>. QED BY <1>1, <1>2

\* What is accepted depends on the program only.
LEMMA ProgramAccepted ==
    ASSUME program' = program
    PROVE  /\ Args' = Args /\ (Ordered' <=> Ordered) /\ (WellTyped' <=> WellTyped)
           /\ \A i : ReadBy(i)' = ReadBy(i) /\ ModBy(i)' = ModBy(i)
           /\ \A g : CallReads(g)' = CallReads(g) /\ CallMods(g)' = CallMods(g)
<1>1. Args' = Args /\ Expr' = Expr
  BY DEF Args, Expr
<1>2. \A g : CallReads(g)' = CallReads(g) /\ CallMods(g)' = CallMods(g)
  BY ProgramKept DEF CallReads, CallMods, OfState
<1>3. \A i : ReadBy(i)' = ReadBy(i) /\ ModBy(i)' = ModBy(i)
  BY <1>1, <1>2 DEF ReadBy, ModBy
<1>4. Ordered' <=> Ordered
  BY <1>1, <1>3 DEF Ordered
<1>5. WellTyped' <=> WellTyped
  BY <1>1 DEF WellTyped, ExprType, OperandType
<1>. QED BY <1>1, <1>2, <1>3, <1>4, <1>5

\* Later analyses and transactions work on an accepted expression.
LEMMA AcceptedStep ==
    ASSUME AnalysisTypeOK, SummariesExact, ExprAccepted, [ExprNext]_allVars
    PROVE  ExprAccepted'
<1>1. /\ program' = program /\ program \in Programs
      /\ phase' = phase \/ phase' = "rejected" \/ <<phase, phase'>> \in Follows
  BY Frame DEF AnalysisTypeOK
<1>2. (Ordered' <=> Ordered) /\ (WellTyped' <=> WellTyped) /\ TypesOn' = TypesOn
  BY <1>1, ProgramAccepted DEF TypesOn
<1>3. ASSUME phase' \in TypesOn PROVE Ordered
  <2>1. CASE phase \in TypesOn
    BY <2>1 DEF ExprAccepted
  <2>2. CASE phase \notin TypesOn
    <3>1. phase = "order" /\ phase' = "types"
      BY <1>1, <1>3, <2>2 DEF Follows, TypesOn
    <3>2. CheckEvalOrder
      BY <3>1
         DEF ExprNext, Analyse, Search, EndSearch, DetectDynamicBody, PropagateSets, CheckEvalOrder,
             DetectInlineable, CheckCompliance, DetectHybrid, CheckLoops, PropagateHoms, SetBackends,
             TypeCheck, Enter, Simulate, EvaluateOperand, Combine, allVars, analysisVars
    <3>3. EvalOrderDefined(Args)
      BY <3>1, <3>2 DEF CheckEvalOrder, Checked, Args, Expr
    <3>4. Past("sets")
      BY <3>1, PastPhases
    <3>5. \A i \in DOMAIN Args : OperandReads(Args[i]) = ReadBy(i) /\ OperandMods(Args[i]) = ModBy(i)
      BY <1>1, <3>4, OperandSets
    <3>6. DOMAIN Args = 1 .. Len(Args) /\ Len(Args) \in Nat
      BY <1>1, OperandAssumption DEF Args, Expr
    <3>7. \A i \in 2 .. Len(Args) : i \in DOMAIN Args /\ 1 \in DOMAIN Args
      BY <3>6
    <3>. QED BY <3>3, <3>5, <3>7 DEF EvalOrderDefined, Ordered
  <2>. QED BY <2>1, <2>2
<1>4. ASSUME phase' \in TypesOn \ {"types"} PROVE WellTyped
  <2>1. CASE phase \in TypesOn \ {"types"}
    BY <2>1 DEF ExprAccepted
  <2>2. CASE phase \notin TypesOn \ {"types"}
    <3>1. phase = "types" /\ phase' = "inlineable"
      BY <1>1, <1>4, <2>2 DEF Follows, TypesOn
    <3>2. TypeCheck
      BY <3>1
         DEF ExprNext, Analyse, Search, EndSearch, DetectDynamicBody, PropagateSets, CheckEvalOrder,
             DetectInlineable, CheckCompliance, DetectHybrid, CheckLoops, PropagateHoms, SetBackends,
             TypeCheck, Enter, Simulate, EvaluateOperand, Combine, allVars, analysisVars
    <3>. QED BY <3>1, <3>2 DEF TypeCheck, Checked
  <2>. QED BY <2>1, <2>2
<1>. QED BY <1>2, <1>3, <1>4 DEF ExprAccepted

\* What the check does not see aside, no operand touches what another uses.
LEMMA OperandsApart ==
    ASSUME program \in Programs, SummariesExact, Past("sets"), Ordered, ~OrderMissed
    PROVE  Apart
<1>. SUFFICES ASSUME NEW i \in DOMAIN Args, NEW j \in DOMAIN Args, i # j,
                     NEW l \in ModAt(i), l \in ReadAt(j) \cup ModAt(j)
              PROVE  FALSE
  BY DEF Apart
<1>1. PICK v \in ModBy(i) : l = Location(v)
  BY DEF ModAt
<1>2. PICK w \in ReadBy(j) \cup ModBy(j) : l = Location(w)
  BY DEF ReadAt, ModAt
<1>3. /\ OperandMods(Args[i]) = ModBy(i)
      /\ OperandMods(Args[j]) = ModBy(j) /\ OperandReads(Args[j]) = ReadBy(j)
  BY OperandSets
<1>4. v = w
  BY <1>1, <1>2, <1>3 DEF OrderMissed, Args
<1>5. w \in ModBy(i) \cap ModBy(j)
  BY <1>2, <1>4 DEF Ordered
<1>6. DOMAIN Args = 1 .. Len(Args) /\ Len(Args) \in Nat
  BY OperandAssumption DEF Args, Expr
<1>7. i \in 1 .. Len(Args) /\ j \in 1 .. Len(Args)
  BY <1>6
<1>8. CASE i = 1
  BY <1>5, <1>6, <1>7, <1>8 DEF Ordered
<1>9. CASE j = 1
  BY <1>5, <1>6, <1>7, <1>9 DEF Ordered
<1>10. CASE i > 1 /\ j > 1
  BY <1>3, <1>5, <1>10 DEF OrderMissed, Args
<1>. QED BY <1>6, <1>7, <1>8, <1>9, <1>10

-----------------------------------------------------------------------------
(* The values of an accepted expression                                    *)

Values(s) == [i \in DOMAIN Args |-> ValueOf(i, s)]

\* Chain or circuit compute from the operands what the simulator computes.
LEMMA ValuesAgree ==
    ASSUME Evaluable, WellTyped, NEW s, InRange(s), Expr.private => Expr.f \notin {"/", "%"},
           Defined(Values(s)), operands = Values(s), ~RangeMissed
    PROVE  ByChain(Values(s)) = BySimulator(Values(s))
<1>. DEFINE t == OperandType(Args[1])
            u == OperandType(Args[2])
            a == ValueOf(1, s)
            b == ValueOf(2, s)
            f == Expr.f
<1>1. CASE f = "args" \/ ArgType = Folded
  BY <1>1 DEF ByChain, BySimulator
<1>2. CASE f # "args" /\ ArgType # Folded
  <2>1. f \in Operators /\ DOMAIN Args = 1 .. 2 /\ Expr.private \in BOOLEAN
    BY <1>2, ArgsAre
  <2>2. 1 \in DOMAIN Args /\ 2 \in DOMAIN Args
    BY <2>1
  <2>3. Values(s)[1] = a /\ Values(s)[2] = b /\ DOMAIN Values(s) = DOMAIN Args
    BY <2>2 DEF Values
  <2>4. /\ t \in OperandTypes /\ u \in OperandTypes
        /\ IsValueOf(a, t) /\ IsValueOf(b, u)
    BY <2>2, ValueTyped
  <2>5. ArgType = CombinedType(t, u, FALSE) /\ ExprType = Typed(f, t, u)
    BY DEF ArgType, ExprType, Args
  <2>6. ArgType # Incompatible
    <3>1. Typed(f, t, u) # Incompatible
      BY <1>2, <2>5 DEF WellTyped
    <3>. HIDE DEF t, u, f
    <3>. QED BY <2>5, <3>1 DEF Typed
  <2>7. /\ ArgType \in IntTypes /\ ArgType \in {t, u} /\ (t.k # "literal" \/ u.k # "literal")
        /\ CanRepresent(ArgType, a) /\ CanRepresent(ArgType, b)
    <3>. HIDE DEF t, u, a, b
    <3>. QED BY <1>2, <2>4, <2>5, <2>6, CombinedRepresents
  <2>8. a \in Int /\ b \in Int
    BY <2>4 DEF IsValueOf
  <2>9. \A i \in DOMAIN operands : operands[i] # None
    <3>1. \A i \in DOMAIN Args : ValueOf(i, s) # None
      BY ValueTyped, OperandAssumption DEF IsValueOf
    <3>. QED BY <3>1 DEF Values
  <2>10. /\ f \in Shift => b \in 0 .. 3 /\ CanRepresent(ArgType, a * 2^b)
         /\ Expr.private /\ ArgType.size = MaxSize /\ f \in Comparison =>
               ~(a >= FieldPrime) /\ ~(b >= FieldPrime)
    BY <1>2, <2>3, <2>9 DEF RangeMissed
  <2>11. CASE ~Expr.private
    <3>1. f \in {"/", "%"} => b # 0
      BY <2>3 DEF Defined
    <3>2. EvmOp(f, ArgType, a, b) = Simulated(f, ArgType, a, b, FALSE)
      <4>. HIDE DEF f, a, b
      <4>. QED BY <2>1, <2>7, <2>8, <2>10, <3>1, ChainAgrees
    <3>3. Expr.private = FALSE
      BY <2>1, <2>11
    <3>4. ByChain(Values(s)) = EvmOp(f, ArgType, a, b)
      BY <1>2, <2>3, <2>11 DEF ByChain
    <3>5. BySimulator(Values(s)) = Simulated(f, ArgType, a, b, FALSE)
      BY <1>2, <2>3, <3>3 DEF BySimulator
    <3>. QED BY <3>2, <3>4, <3>5
  <2>12. CASE Expr.private
    <3>1. PrivateOperation(f, t, u)
      BY <1>2, <2>12 DEF WellTyped, Args
    <3>2. CanBePrivateType(ArgType)
      <4>. HIDE DEF t, u, f
      <4>. QED BY <2>7, <3>1 DEF PrivateOperation
    <3>3. f \in Shift => ArgType.size # MaxSize
      <4>. SUFFICES ASSUME f \in Shift PROVE ArgType.size # MaxSize
        OBVIOUS
      <4>. HIDE DEF t, u, f
      <4>1. IsLiteral(u) /\ Sized(t).size # MaxSize
        BY <3>1 DEF PrivateOperation
      <4>2. ArgType.k \in {"int", "uint"}
        BY <2>7, SizeOfType
      <4>3. ArgType = t
        BY <2>7, <4>1, <4>2 DEF IsLiteral
      <4>. QED BY <4>1, <4>2, <4>3 DEF Sized
    <3>4. ArgType.size = MaxSize /\ f \in Comparison => a < FieldPrime /\ b < FieldPrime
      BY <2>8, <2>10, <2>12, SizeAssumption
    <3>5. f \in Operators \ {"/", "%"}
      BY <2>1, <2>12
    <3>6. ByCircuit(f, ArgType, a, b) = SerializedBySimulator(Simulated(f, ArgType, a, b, TRUE), ArgType)
      <4>. HIDE DEF f, a, b
      <4>. QED BY <2>7, <2>8, <2>10, <3>2, <3>3, <3>4, <3>5, CircuitAgrees
    <3>7. Expr.private = TRUE
      BY <2>1, <2>12
    <3>8. ByChain(Values(s)) = ByCircuit(f, ArgType, a, b)
      BY <1>2, <2>3, <2>12 DEF ByChain
    <3>9. BySimulator(Values(s)) = SerializedBySimulator(Simulated(f, ArgType, a, b, TRUE), ArgType)
      BY <1>2, <2>3, <3>7 DEF BySimulator
    <3>. QED BY <3>6, <3>8, <3>9
  <2>. QED BY <2>11, <2>12
<1>. QED BY <1>1, <1>2

\* None of this changes while a transaction runs.
LEMMA ExpressionKept ==
    ASSUME program' = program, keys' = keys
    PROVE  /\ Args' = Args /\ (Apart' <=> Apart)
           /\ \A s : Values(s)' = Values(s) /\ (InRange(s)' <=> InRange(s))
           /\ \A i, s : ValueOf(i, s)' = ValueOf(i, s)
           /\ \A t, s, D : Partly(t, s, D)' <=> Partly(t, s, D)
           /\ \A v : /\ Defined(v)' <=> Defined(v)
                     /\ BySimulator(v)' = BySimulator(v) /\ ByChain(v)' = ByChain(v)
<1>1. Args' = Args /\ Expr' = Expr
  BY DEF Args, Expr
<1>2. \A v : Location(v)' = Location(v)
  BY DEF Location
<1>3. \A l : TypeAt(l)' = TypeAt(l)
  BY DEF TypeAt
<1>4. \A i : ReadAt(i)' = ReadAt(i) /\ ModAt(i)' = ModAt(i)
  BY <1>2, ProgramAccepted DEF ReadAt, ModAt
<1>5. Apart' <=> Apart
  BY <1>1, <1>4 DEF Apart
<1>6. \A g, s : Used(g, s)' = Used(g, s)
  <2>. DEFINE places(g) == {Location(v) : v \in CallReads(g)}
  <2>1. \A g : places(g)' = places(g)
    BY <1>2, ProgramAccepted
  <2>2. \A g, s : Used(g, s) = SumOf(s, places(g))
    BY DEF Used, SumOf
  <2>3. \A g, s : Used(g, s)' = SumOf(s, places(g)')
    <3>1. \A s, S : SumOf(s, S) = MapThenSumSet(LAMBDA x : s[x], S)
      BY DEF SumOf
    <3>2. \A g, s : Used(g, s)' = MapThenSumSet(LAMBDA x : s[x], places(g)')
      BY DEF Used, MapThenSumSet, MapThenFoldSet
    <3>. HIDE DEF places
    <3>. QED BY <3>1, <3>2
  <2>. HIDE DEF places
  <2>. QED BY <2>1, <2>2, <2>3
<1>7. \A i, s : ValueOf(i, s)' = ValueOf(i, s)
  BY <1>1, <1>2, <1>6 DEF ValueOf, OperandValue
<1>8. \A s : Values(s)' = Values(s)
  BY <1>1, <1>7 DEF Values
<1>9. \A s : InRange(s)' <=> InRange(s)
  BY <1>3 DEF InRange, Locations
<1>10. \A i, s : Stored(i, s)' = Stored(i, s)
  BY <1>1, <1>3, <1>4, <1>6 DEF Stored
<1>11. \A t, s, D : Partly(t, s, D)' <=> Partly(t, s, D)
  BY <1>4, <1>10 DEF Partly, Locations
<1>12. \A v : Defined(v)' <=> Defined(v)
  BY <1>1 DEF Defined
<1>13. ArgType' = ArgType
  BY <1>1 DEF ArgType, OperandType
<1>14. \A v : BySimulator(v)' = BySimulator(v) /\ ByChain(v)' = ByChain(v)
  BY <1>1, <1>13 DEF BySimulator, ByChain, ByCircuit
<1>. QED BY <1>1, <1>5, <1>7, <1>8, <1>9, <1>11, <1>12, <1>14

-----------------------------------------------------------------------------
(* Simulation and execution                                                *)

Evaluated == {i \in DOMAIN Args : operands[i] # None}

\* s is the store from which the expression has been simulated and, as far as
\* its operands have been evaluated, executed.
Began(s) ==
    /\ InRange(s)
    /\ simulated.value = IF Defined(Values(s)) THEN BySimulator(Values(s)) ELSE None
    /\ Partly(simulated.store, s, DOMAIN Args)
    /\ \A i \in Evaluated : operands[i] = ValueOf(i, s)
    /\ Partly(store, s, Evaluated)

ExecutionInv ==
    /\ Running => operands = [i \in DOMAIN Args |-> operands[i]]
    /\ phase = "entered" => Evaluated = {}
    /\ phase \in {"simulated", "executed"} /\ Apart => \E s : Began(s)
    /\ phase = "executed" =>
          /\ Evaluated = DOMAIN Args
          /\ result = IF Defined(operands) THEN ByChain(operands) ELSE None

\* Whichever operand comes next, and when all have been evaluated.
LEMMA ExecutionStep ==
    ASSUME AnalysisTypeOK, StoreInv, ExecutionInv, [ExprNext]_allVars
    PROVE  ExecutionInv'
<1>1. program' = program /\ program \in Programs /\ Args' = Args
  BY Frame DEF AnalysisTypeOK, Args, Expr
<1>2. ASSUME ~Running' PROVE ExecutionInv'
  BY <1>2 DEF ExecutionInv, Running
<1>3. ASSUME Running, UNCHANGED <<phase, keys, store, operands, simulated, result>>
      PROVE  ExecutionInv'
  <2>1. Evaluated' = Evaluated
    BY <1>1, <1>3 DEF Evaluated
  <2>2. \A s : Began(s) => Began(s)'
    BY <1>1, <1>3, <2>1, ExpressionKept DEF Began
  <2>3. /\ Apart' <=> Apart
        /\ Defined(operands)' <=> Defined(operands)
        /\ ByChain(operands)' = ByChain(operands)
    BY <1>1, <1>3, ExpressionKept
  <2>. QED BY <1>1, <1>3, <2>1, <2>2, <2>3 DEF ExecutionInv, Running
<1>4. ASSUME Enter PROVE ExecutionInv'
  <2>1. phase' = "entered" /\ operands' = [i \in DOMAIN Args |-> None]
    BY <1>4 DEF Enter, Args
  <2>2. Evaluated' = {}
    BY <1>1, <2>1 DEF Evaluated
  <2>. QED BY <1>1, <2>1, <2>2 DEF ExecutionInv
<1>5. ASSUME Simulate PROVE ExecutionInv'
  <2>1. /\ phase = "entered" /\ phase' = "simulated" /\ UNCHANGED <<keys, store, operands>>
        /\ LET run == LeftToRight(store)
           IN  simulated' = [value |-> IF Defined(run.values) THEN BySimulator(run.values) ELSE None,
                             store |-> run.store]
    BY <1>5 DEF Simulate
  <2>2. Evaluated' = Evaluated /\ Evaluated = {} /\ Running
    BY <1>1, <2>1 DEF Evaluated, ExecutionInv, Running
  <2>3. Evaluable /\ InRange(store)
    BY <1>1, <2>2 DEF Evaluable, StoreInv
  <2>4. ASSUME Apart PROVE Began(store)'
    <3>1. /\ LeftToRight(store).values = Values(store)
          /\ Partly(LeftToRight(store).store, store, DOMAIN Args)
      BY <2>3, <2>4, SimulationIs DEF Values
    <3>2. Partly(store, store, {})
      BY <2>3 DEF Partly, InRange
    <3>3. /\ simulated'.value = IF Defined(Values(store)) THEN BySimulator(Values(store)) ELSE None
          /\ Partly(simulated'.store, store, DOMAIN Args)
      BY <2>1, <3>1
    <3>. QED BY <1>1, <2>1, <2>2, <2>3, <3>2, <3>3, ExpressionKept DEF Began
  <2>5. Apart' <=> Apart
    BY <1>1, <2>1, ExpressionKept
  <2>. QED BY <1>1, <2>1, <2>2, <2>4, <2>5 DEF ExecutionInv
<1>6. ASSUME NEW i \in DOMAIN operands, EvaluateOperand(i) PROVE ExecutionInv'
  <2>1. /\ phase = "simulated" /\ operands[i] = None
        /\ operands' = [operands EXCEPT ![i] = ValueOf(i, store)]
        /\ store' = AfterOperand(Args[i], store)
        /\ UNCHANGED <<phase, keys, simulated, result>>
    BY <1>6 DEF EvaluateOperand, analysisVars, ValueOf, Args
  <2>2. /\ Running /\ Evaluable /\ InRange(store) /\ DOMAIN operands = DOMAIN Args
        /\ operands = [j \in DOMAIN Args |-> operands[j]]
    BY <1>1, <2>1 DEF Running, StoreInv, Evaluable, ExecutionInv, Args
  <2>3. ValueOf(i, store) # None
    BY <2>2, ValueTyped, OperandAssumption DEF IsValueOf
  <2>4. operands' = [j \in DOMAIN Args |-> operands'[j]] /\ operands'[i] = ValueOf(i, store)
        /\ \A j \in DOMAIN Args : j # i => operands'[j] = operands[j]
    BY <2>1, <2>2
  <2>5. Evaluated' = Evaluated \cup {i} /\ i \in DOMAIN Args \ Evaluated /\ Evaluated \in SUBSET DOMAIN Args
    BY <1>1, <2>1, <2>2, <2>3, <2>4 DEF Evaluated
  <2>6. ASSUME NEW s, Apart, Began(s) PROVE Began(s)'
    <3>1. InRange(s) /\ Partly(store, s, Evaluated)
      BY <2>6 DEF Began
    <3>2. ValueOf(i, store) = ValueOf(i, s) /\ Partly(AfterOperand(Args[i], store), s, Evaluated \cup {i})
      BY <2>2, <2>5, <2>6, <3>1, NextOperand
    <3>3. \A j \in Evaluated \cup {i} : operands'[j] = ValueOf(j, s)
      BY <2>4, <2>5, <2>6, <3>2 DEF Began
    <3>4. Partly(store', s, Evaluated \cup {i})
      BY <2>1, <3>2
    <3>. QED BY <1>1, <2>1, <2>5, <2>6, <3>1, <3>3, <3>4, ExpressionKept DEF Began
  <2>7. Apart' <=> Apart
    BY <1>1, <2>1, ExpressionKept
  <2>. QED BY <1>1, <2>1, <2>4, <2>6, <2>7 DEF ExecutionInv
<1>7. ASSUME Combine PROVE ExecutionInv'
  <2>1. /\ phase = "simulated" /\ phase' = "executed" /\ \A i \in DOMAIN operands : operands[i] # None
        /\ result' = IF Defined(operands) THEN ByChain(operands) ELSE None
        /\ UNCHANGED <<keys, store, operands, simulated>>
    BY <1>7 DEF Combine
  <2>2. Running /\ DOMAIN operands = DOMAIN Args /\ operands = [j \in DOMAIN Args |-> operands[j]]
    BY <2>1 DEF Running, StoreInv, ExecutionInv, Args
  <2>3. Evaluated' = Evaluated /\ Evaluated = DOMAIN Args
    BY <1>1, <2>1, <2>2 DEF Evaluated
  <2>4. \A s : Began(s) => Began(s)'
    BY <1>1, <2>1, <2>3, ExpressionKept DEF Began
  <2>5. /\ Apart' <=> Apart
        /\ \A v : (Defined(v)' <=> Defined(v)) /\ ByChain(v)' = ByChain(v)
    BY <1>1, <2>1, ExpressionKept
  <2>6. result' = IF Defined(operands)' THEN ByChain(operands)' ELSE None
    BY <2>1, <2>5
  <2>. QED BY <1>1, <2>1, <2>2, <2>3, <2>4, <2>5, <2>6 DEF ExecutionInv
<1>8. ASSUME Analyse \/ TypeCheck PROVE ~Running'
  <2>1. phase \notin {"rejected", "analysed", "entered", "simulated", "executed"}
    BY <1>8 DEF Analyse, Search, EndSearch, DetectDynamicBody, PropagateSets, CheckEvalOrder,
                DetectInlineable, CheckCompliance, DetectHybrid, CheckLoops, PropagateHoms,
                SetBackends, TypeCheck
  <2>. QED BY <2>1, Frame DEF Follows, Running
<1>9. CASE UNCHANGED allVars
  <2>1. UNCHANGED <<phase, keys, store, operands, simulated, result>>
    BY <1>9 DEF allVars, analysisVars, evalVars
  <2>2. ~Running => ~Running'
    BY <2>1 DEF Running
  <2>. QED BY <1>2, <1>3, <2>1, <2>2
<1>. QED BY <1>2, <1>4, <1>5, <1>6, <1>7, <1>8, <1>9 DEF ExprNext

\* SimulationAgrees: unless it divides private values, which the language does
\* not support (docs/language.rst), an accepted expression (EvalOrderUBChecker and
\* the type checker) has one value and one effect: in whatever order the chain
\* evaluates its operands and whatever overflows, chain and circuit compute what
\* the simulator computes from left to right, except in the cases that
\* OrderMissed and RangeMissed name.
THEOREM Simulation ==
    ASSUME \A p \in Programs : p.expr.private => p.expr.f \notin {"/", "%"}
    PROVE  Spec => []SimulationAgrees
<1>1. ExprInit => ExprAccepted /\ ExecutionInv
  BY DEF ExprInit, Init, ExprAccepted, TypesOn, ExecutionInv, Running
<1>2. AnalysisInv => AnalysisTypeOK /\ SummariesExact
  BY SummariesFromInv DEF AnalysisInv
<1>3. AnalysisTypeOK /\ SummariesExact /\ ExprAccepted /\ [ExprNext]_allVars => ExprAccepted'
  BY AcceptedStep
<1>4. AnalysisTypeOK /\ StoreInv /\ ExecutionInv /\ [ExprNext]_allVars => ExecutionInv'
  BY ExecutionStep
<1>5. ASSUME AnalysisTypeOK, SummariesExact, StoreInv, ExprAccepted, ExecutionInv
      PROVE  SimulationAgrees
  <2>. SUFFICES ASSUME phase = "executed", ~OrderMissed
                PROVE  store = simulated.store /\ (~RangeMissed => result = simulated.value)
    BY DEF SimulationAgrees
  <2>1. program \in Programs /\ Evaluable
    BY <1>5 DEF AnalysisTypeOK, StoreInv, Running, Evaluable
  <2>2. Past("sets") /\ Ordered /\ WellTyped
    BY <1>5, PastPhases DEF ExprAccepted, TypesOn
  <2>3. Apart
    BY <1>5, <2>1, <2>2, OperandsApart
  <2>4. PICK s : Began(s)
    BY <1>5, <2>3 DEF ExecutionInv
  <2>5. /\ Evaluated = DOMAIN Args /\ operands = [i \in DOMAIN Args |-> operands[i]]
        /\ result = IF Defined(operands) THEN ByChain(operands) ELSE None
    BY <1>5 DEF ExecutionInv, Running
  <2>6. store = simulated.store
    BY <2>4, <2>5, PartlyUnique DEF Began
  <2>7. operands = Values(s)
    BY <2>4, <2>5 DEF Began, Values
  <2>8. InRange(s) /\ simulated.value = IF Defined(Values(s)) THEN BySimulator(Values(s)) ELSE None
    BY <2>4 DEF Began
  <2>9. Expr.private => Expr.f \notin {"/", "%"}
    BY <2>1 DEF Expr
  <2>10. ASSUME ~RangeMissed PROVE result = simulated.value
    BY <2>1, <2>2, <2>5, <2>7, <2>8, <2>9, <2>10, ValuesAgree
  <2>. QED BY <2>6, <2>10
<1>. QED BY <1>1, <1>2, <1>3, <1>4, <1>5, StoreInvariant, Analyses, PTL DEF Spec
=============================================================================
