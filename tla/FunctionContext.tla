-------------------------- MODULE FunctionContext --------------------------
(***************************************************************************)
(* The bookkeeping of one ContractSimulator while it simulates a function  *)
(* call: _function_ctx and the ApiWrapper contexts it nests, entered once  *)
(* per function on the Python call stack, left by a return or by an        *)
(* exception.                                                              *)
(*                                                                         *)
(* The contexts decide whether a function runs for the user or for another *)
(* function, and where in the array of secret circuit inputs it puts its   *)
(* own ones.  The circuit expects them in the order in which it steps into *)
(* the functions, so both must agree whatever happened in earlier calls.   *)
(***************************************************************************)
EXTENDS Integers, Sequences, FiniteSets, SequencesExt

CONSTANTS
    Fns,        \* functions of the simulated contract
    Public,     \* functions the user may call (can_be_external)
    Verified,   \* functions that require verification
    Own,        \* Own[f]: number of secret inputs of f itself
    Body,       \* Body[f]: the functions f calls, in program order
    NoList,     \* all_priv_values is None
    Unset       \* the value of a secret input nobody has provided

ASSUME ProgramAssumption ==
    /\ Public \subseteq Fns /\ Verified \subseteq Fns
    /\ Own \in [Fns -> Nat]
    /\ Body \in [Fns -> Seq(Fns)]
    /\ \A f \in Fns \ Verified : Own[f] = 0 /\ \A i \in DOMAIN Body[f] : Body[f][i] \notin Verified

\* A call to a recursive function that requires verification is rejected
\* (NonInlineableCallDetector): functions can be ranked above those they call.
ASSUME NoRecursion ==
    /\ IsFiniteSet(Fns)
    /\ \E rank \in [Fns -> 1..Cardinality(Fns)] :
          \A f \in Fns : \A i \in DOMAIN Body[f] :
              Body[f][i] \in Verified => rank[Body[f][i]] < rank[f]

VARIABLES
    isExternal, \* api.is_external: "none", "yes" or "no"
    priv,       \* api.all_priv_values
    index,      \* api.current_all_index
    special,    \* msg, block and tx of the current call are known
    locals,     \* depth of the frame whose LocalsDict is current, 0 for None
    cached,     \* the StateDict holds values
    stack,      \* the functions under way
    raising,    \* the exception under way: "no", "reported" or "other"
    ran,        \* paths of the functions simulated in this call (history)
    proof,      \* the secret inputs the last proof was made from
    refused     \* a request for msg, block and tx has failed (history)

vars == <<isExternal, priv, index, special, locals, cached, stack, raising, ran,
          proof, refused>>

-----------------------------------------------------------------------------
(* The layout of the secret inputs                                         *)

\* The sums of the first 0, 1, ... elements of a sequence of numbers.
Sums(v) ==
    LET s[i \in 0..Len(v)] == IF i = 0 THEN 0 ELSE s[i - 1] + v[i] IN s

\* The sizes of the calls in f; only those that require verification have inputs.
CallSizes(f, size) ==
    [i \in DOMAIN Body[f] |-> IF Body[f][i] \in Verified THEN size[Body[f][i]] ELSE 0]

\* priv_in_size_trans: the inputs of f and of everything it calls.
Size[f \in Fns] == Own[f] + Sums(CallSizes(f, Size))[Len(Body[f])]

\* Mutation: the offset counts what callees need themselves only.
ShallowOffset(f, i) == Own[f] + Sums(CallSizes(f, Own))[i - 1]

\* sec_start_offset of the i-th call in f.
Offset(f, i) == Own[f] + Sums(CallSizes(f, Size))[i - 1]

\* The layouts of the called functions, in the order of the calls.
CallLayouts(f, layout) ==
    [i \in DOMAIN Body[f] |->
        IF Body[f][i] \in Verified
        THEN LET below == layout[Body[f][i]]
             IN  [k \in DOMAIN below |-> <<i>> \o below[k]]
        ELSE <<>>]

\* The order in which the circuit of f takes its secret inputs, each named by
\* the call path to the function it belongs to: on stepping into a function its
\* own inputs, then those of the functions it calls.
Layout[f \in Fns] ==
    [k \in 1..Own[f] |-> <<>>] \o FlattenSeq(CallLayouts(f, Layout))

-----------------------------------------------------------------------------

Top == stack[Len(stack)]

\* The path of calls from the user's function to the one on top.
Path == [d \in 1..(Len(stack) - 1) |-> stack[d].next]

Frame ==
    [fn: Fns, next: Nat, stage: {"body", "serialized", "sent"},
     ext: BOOLEAN, was: {"none", "yes", "no"}, prevLocals: Nat,
     offset: Nat, callCtx: BOOLEAN]

TypeOK ==
    /\ isExternal \in {"none", "yes", "no"}
    /\ priv = NoList \/ priv \in Seq({Unset} \cup Seq(Nat))
    /\ index \in Nat
    /\ special \in BOOLEAN
    /\ locals \in Nat
    /\ cached \in BOOLEAN
    /\ stack \in Seq(Frame)
    /\ raising \in {"no", "reported", "other"}
    /\ ran \subseteq Seq(Nat)
    /\ proof = NoList \/ proof \in [fn: Fns, vals: Seq({Unset} \cup Seq(Nat)), ran: SUBSET Seq(Nat)]
    /\ refused \in BOOLEAN

Init ==
    /\ isExternal = "none"
    /\ priv = NoList
    /\ index = 0
    /\ special = FALSE
    /\ locals = 0
    /\ cached = FALSE
    /\ stack = <<>>
    /\ raising = "no"
    /\ ran = {}
    /\ proof = NoList
    /\ refused = FALSE

-----------------------------------------------------------------------------
(* Entering functions                                                      *)

Push(f, callCtx, offset) ==
    /\ stack' = Append(stack,
           [fn |-> f, next |-> 1, stage |-> "body", ext |-> isExternal = "none",
            was |-> isExternal, prevLocals |-> locals, offset |-> offset,
            callCtx |-> callCtx])
    /\ locals' = Len(stack) + 1

\* The user calls f and no other call left its marks: a fresh context.  A
\* function that cannot be external asserts that it is not.
UserCall(f) ==
    /\ stack = <<>>
    /\ isExternal = "none"
    /\ Push(f, FALSE, 0)
    /\ isExternal' = "yes"
    /\ priv' = [k \in 1..(IF f \in Verified THEN Size[f] ELSE 0) |-> Unset]
    /\ index' = 0
    /\ special' = TRUE
    /\ cached' = FALSE
    /\ raising' = IF f \in Public THEN "no" ELSE "other"
    /\ ran' = {<<>>}
    /\ UNCHANGED <<proof, refused>>

\* update_special_variables raises: the try block that would undo the
\* assignments before it has not been entered yet.
SpecialVariablesFail(f) ==
    /\ stack = <<>>
    /\ isExternal = "none"
    /\ isExternal' = "yes"
    /\ priv' = [k \in 1..(IF f \in Verified THEN Size[f] ELSE 0) |-> Unset]
    /\ index' = 0
    /\ refused' = TRUE
    /\ UNCHANGED <<special, locals, cached, stack, raising, ran, proof>>

\* The user calls f on a simulator in which is_external is set already: it is
\* taken for an internal call, and get_special_variables finds none.
UserCallTakenAsInternal(f) ==
    /\ stack = <<>>
    /\ isExternal # "none"
    /\ Push(f, FALSE, 0)
    /\ isExternal' = "no"
    /\ raising' = "other"
    /\ UNCHANGED <<priv, index, special, cached, ran, proof, refused>>

InBody == stack # <<>> /\ raising = "no" /\ Top.stage = "body"
CallsLeft == Top.next <= Len(Body[Top.fn])

\* The next call in the body; call_fct moves the index for verified callees.
InternalCall ==
    /\ InBody /\ CallsLeft
    /\ LET g == Body[Top.fn][Top.next]
           offset == IF g \in Verified THEN Offset(Top.fn, Top.next) ELSE 0
       IN  /\ Push(g, g \in Verified, offset)
           /\ index' = index + offset
    /\ isExternal' = "no"
    /\ ran' = ran \cup {Path'}
    /\ UNCHANGED <<priv, special, cached, raising, proof, refused>>

\* The call is in a branch that is not taken.
SkipCall ==
    /\ InBody /\ CallsLeft
    /\ stack' = [stack EXCEPT ![Len(stack)].next = @ + 1]
    /\ UNCHANGED <<isExternal, priv, index, special, locals, cached, raising, ran,
                   proof, refused>>

\* The body reads or writes the state of the contract.
UseState ==
    /\ InBody
    /\ cached' = TRUE
    /\ UNCHANGED <<isExternal, priv, index, special, locals, stack, raising, ran,
                   proof, refused>>

-----------------------------------------------------------------------------
(* After the body                                                          *)

\* serialize_private_inputs puts the function's own inputs into its segment.
Serialize ==
    /\ InBody /\ ~CallsLeft
    /\ priv' = [k \in DOMAIN priv |->
                  IF k \in (index + 1)..(index + Own[Top.fn]) THEN Path ELSE priv[k]]
    /\ stack' = [stack EXCEPT ![Len(stack)].stage = "serialized"]
    /\ UNCHANGED <<isExternal, index, special, locals, cached, raising, ran, proof,
                   refused>>

\* The function the user called makes a proof, if it requires verification,
\* and sends the transaction.
ProveAndTransact ==
    /\ stack # <<>> /\ raising = "no"
    /\ Top.ext /\ Top.stage = "serialized"
    /\ proof' = IF Top.fn \in Verified THEN [fn |-> Top.fn, vals |-> priv, ran |-> ran]
                                      ELSE proof
    /\ stack' = [stack EXCEPT ![Len(stack)].stage = "sent"]
    /\ UNCHANGED <<isExternal, priv, index, special, locals, cached, raising, ran,
                   refused>>

\* A statement raises ValueError, BlockChainError or RequireException, which
\* _function_ctx reports to the user, or another exception.
Raise ==
    /\ stack # <<>> /\ raising = "no"
    /\ raising' \in {"reported", "other"}
    /\ UNCHANGED <<isExternal, priv, index, special, locals, cached, stack, ran,
                   proof, refused>>

\* Mutation: is_external is set to None on every exit.
RestoreAsIdle(frame) ==
    /\ isExternal' = "none"
    /\ locals' = frame.prevLocals
    /\ IF frame.ext
       THEN /\ priv' = NoList /\ special' = FALSE /\ cached' = FALSE
       ELSE UNCHANGED <<priv, special, cached>>

\* The finally clauses of the two contexts, on every way out of a function.
Restore(frame) ==
    /\ isExternal' = frame.was
    /\ locals' = frame.prevLocals
    /\ IF frame.ext
       THEN /\ priv' = NoList /\ special' = FALSE /\ cached' = FALSE
       ELSE UNCHANGED <<priv, special, cached>>

\* Mutation: the index moves back by the callee's size instead of its offset.
ReturnBySize ==
    /\ Len(stack) > 1 /\ raising = "no"
    /\ Top.stage = "serialized"
    /\ Restore(Top)
    /\ index' = index - Size[Top.fn]
    /\ stack' = [Front(stack) EXCEPT ![Len(stack) - 1].next = @ + 1]
    /\ UNCHANGED <<raising, ran, proof, refused>>

\* Control returns to the calling function; __call_ctx moves the index back.
Return ==
    /\ Len(stack) > 1 /\ raising = "no"
    /\ Top.stage = "serialized"
    /\ Restore(Top)
    /\ index' = index - Top.offset
    /\ stack' = [Front(stack) EXCEPT ![Len(stack) - 1].next = @ + 1]
    /\ UNCHANGED <<raising, ran, proof, refused>>

\* The call returns to the user.
ReturnToUser ==
    /\ Len(stack) = 1 /\ raising = "no"
    /\ Top.stage = "sent"
    /\ Restore(Top)
    /\ index' = 0
    /\ stack' = <<>>
    /\ ran' = {}
    /\ UNCHANGED <<raising, proof, refused>>

\* Mutation: without the finally clause the context of a failed call stays.
UnwindWithoutRestoring ==
    /\ raising # "no"
    /\ stack' = Front(stack)
    /\ raising' = IF Len(stack) = 1 THEN "no" ELSE raising
    /\ ran' = IF Len(stack) = 1 THEN {} ELSE ran
    /\ UNCHANGED <<isExternal, priv, index, special, locals, cached, proof, refused>>

\* The exception leaves the function on top.  __call_ctx does not move the
\* index back; the user's function, which ends the exception, resets it.
Unwind ==
    /\ raising # "no"
    /\ Restore(Top)
    /\ index' = IF Top.ext THEN 0 ELSE index
    /\ stack' = Front(stack)
    /\ raising' = IF Len(stack) = 1 THEN "no" ELSE raising
    /\ ran' = IF Len(stack) = 1 THEN {} ELSE ran
    /\ UNCHANGED <<proof, refused>>

-----------------------------------------------------------------------------

Next ==
    \/ \E f \in Fns :
          UserCall(f) \/ SpecialVariablesFail(f) \/ UserCallTakenAsInternal(f)
    \/ InternalCall \/ SkipCall \/ UseState
    \/ Serialize \/ ProveAndTransact \/ Raise
    \/ Return \/ ReturnToUser \/ Unwind

Spec == Init /\ [][Next]_vars

-----------------------------------------------------------------------------
(* Properties                                                              *)

\* Between two calls nothing of the last one is left in the simulator, however
\* deep in the call an exception was raised, unless msg, block and tx could
\* once not be requested: the next call starts from a clean simulator.
CleanWhenIdle ==
    (stack = <<>> /\ ~refused) =>
        /\ isExternal = "none"
        /\ priv = NoList
        /\ index = 0
        /\ ~special
        /\ locals = 0
        /\ ~cached

\* Every secret input a proof is made from is at the place at which the circuit
\* takes it, and was provided in this call by the function it belongs to, also
\* if that function is called twice; inputs of functions in branches not taken
\* stay unset.
ProofInputsInPlace ==
    proof # NoList =>
        LET expected == Layout[proof.fn]
        IN  proof.vals = [k \in DOMAIN expected |->
                             IF expected[k] \in proof.ran THEN expected[k] ELSE Unset]

\* api.is_external is "True whenever simulation is inside a function which was
\* directly (without transitivity) called by the user" (offchain.py:337).
DirectMeansExternal ==
    stack # <<>> => isExternal = IF Len(stack) = 1 THEN "yes" ELSE "no"

\* The same for simulators to which msg, block and tx were never refused.
DirectMeansExternalUnlessRefused == refused \/ DirectMeansExternal
=============================================================================
