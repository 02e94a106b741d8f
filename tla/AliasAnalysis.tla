--------------------------- MODULE AliasAnalysis ---------------------------
(***************************************************************************)
(* The alias analysis of a function body next to an execution of the body. *)
(*                                                                         *)
(* AfterAnalysis[s][P] is after_analysis of statement s for                *)
(* before_analysis P.  The state machine executes a program statement by   *)
(* statement on values of its labels and carries, for each statement still *)
(* to be executed, the before_analysis the compiler has attached to it.    *)
(*                                                                         *)
(* Statements are records with the field k:                                *)
(*   assign lhs rhs (sequences of equal length, longer than 1 for tuples), *)
(*   decl var rhs, require cond, call (a call with side effects),          *)
(*   if cond then else, while cond body, dowhile cond body,                *)
(*   for names init cond update body, block names body, break, continue,   *)
(*   return, list first rest (the statements of a block) and none (the end *)
(*   of a list, or a part that is left out).                               *)
(* A right hand side is a label, Fresh (another expression) or Call (one   *)
(* with side effects).  A condition is a record with the field op: eq or   *)
(* ne (of labels l and r), not, and, or (of conditions l and r), opaque    *)
(* (any other) or call (one with side effects).                            *)
(***************************************************************************)
EXTENDS PartitionState, Naturals, Sequences

CONSTANTS
    Programs,       \* function bodies
    Nodes,          \* their statements and conditions, and all in them
    MaxDepth,       \* how deep statements and conditions are nested at most
    StateVars,      \* state variables of the contract
    Params,         \* parameters
    Locals,         \* names of blocks and for statements
    Me, All,        \* the labels me and all
    Addrs,          \* the values of labels other than All
    Everybody,      \* the value of All
    Fresh, Call     \* right hand sides that are no labels

ASSUME LabelAssumption ==
    /\ Me \in Immutable /\ All \in Immutable /\ Immutable \subseteq StateVars \cup {Me, All}
    /\ Everybody \notin Addrs /\ MaxDepth \in Nat

VARIABLES
    prog,       \* the function body
    env,        \* env[x]: the value of label x
    todo        \* what is left to execute

vars == <<prog, env, todo>>

Statements == {n \in Nodes : "k" \in DOMAIN n}
Conditions == {n \in Nodes : "op" \in DOMAIN n}

Vars == StateVars \cup Params \cup Locals
Labels == Vars \cup {Me, All}
Mutable == StateVars \ Immutable
States == SUBSET (SUBSET Labels)
Envs == [Labels -> Addrs \cup {Everybody}]

\* The labels every statement of a function can use.
Global == StateVars \cup Params \cup {Me, All}

-----------------------------------------------------------------------------
(* Well-formed programs.  Each statement has a scope: the names that have  *)
(* been declared (visible), those of the innermost block that have not     *)
(* (pending), those of outer blocks that have not (hidden), whether it is  *)
(* in a loop, and how that loop may be left (exits, see Judged below).     *)

Tracked(sc) == sc.visible \cup sc.pending \cup sc.hidden
Inner(sc) == [sc EXCEPT !.pending = {}, !.hidden = sc.hidden \cup sc.pending]
Opened(sc, names) == [Inner(sc) EXCEPT !.pending = names]
Looped(sc, exits) == [Inner(sc) EXCEPT !.loop = TRUE, !.exits = exits]
Declaring(sc, s) ==
    IF s.k = "decl" THEN [sc EXCEPT !.visible = sc.visible \cup {s.var},
                                    !.pending = sc.pending \ {s.var}]
    ELSE sc

Scopes == [visible : SUBSET Labels, pending : SUBSET Labels, hidden : SUBSET Labels,
           loop : BOOLEAN, exits : SUBSET {"break", "continue"}]
ScopeOK(sc) ==
    /\ sc \in Scopes /\ Global \subseteq sc.visible
    /\ sc.visible \cap sc.pending = {} /\ (sc.visible \cup sc.pending) \cap sc.hidden = {}

\* t is a part of s, and sc is its scope.
Under(t, s, sc) == t \in Statements /\ t.depth < s.depth /\ t.scope = sc

\* A branch or the body of a loop.
Branch(t, s, sc) == Under(t, s, sc) /\ t.k \notin {"decl", "list"}

Guards(c, sc) == c \in Conditions /\ c.labels \subseteq sc.visible

\* The negated condition says nothing about labels.
Uninformative(c) == c.op \notin {"ne", "or", "not"}

ExitsOf(s) ==
    IF s.k # "while" THEN {}
    ELSE IF Uninformative(s.cond) THEN {"break", "continue"} ELSE {"continue"}

WellFormed(s) ==
    LET sc == s.scope
        inFor == Declaring(Opened(sc, s.names), s.init)
    IN
    \/ s.k \in {"none", "call", "return"}
    \/ s.k \in {"break", "continue"} /\ sc.loop
    \/ /\ s.k = "assign"
       /\ s.lhs \in Seq(sc.visible \ Immutable) /\ s.rhs \in Seq(sc.visible \cup {Fresh, Call})
       /\ Len(s.lhs) = Len(s.rhs)
    \/ s.k = "decl" /\ s.var \in sc.pending /\ s.rhs \in sc.visible \cup {Fresh, Call}
    \/ s.k = "require" /\ Guards(s.cond, sc)
    \/ /\ s.k = "list" /\ s.first.k # "list" /\ s.rest.k \in {"list", "none"}
       /\ Under(s.first, s, IF s.first.k = "decl" THEN sc ELSE Inner(sc))
       /\ Under(s.rest, s, Declaring(sc, s.first))
    \/ /\ s.k = "block" /\ s.body.k \in {"list", "none"}
       /\ s.names \cap Tracked(sc) = {} /\ Under(s.body, s, Opened(sc, s.names))
    \/ /\ s.k = "if" /\ Guards(s.cond, sc)
       /\ Branch(s.then, s, Inner(sc)) /\ Branch(s.else, s, Inner(sc))
    \/ /\ s.k \in {"while", "dowhile"} /\ Guards(s.cond, sc)
       /\ Branch(s.body, s, Looped(sc, ExitsOf(s)))
    \/ /\ s.k = "for" /\ s.names \cap Tracked(sc) = {} /\ Guards(s.cond, inFor)
       /\ s.init.k \in {"decl", "assign", "call"} /\ Under(s.init, s, Opened(sc, s.names))
       /\ s.update.k \in {"none", "assign", "call"} /\ Under(s.update, s, Inner(inFor))
       /\ Branch(s.body, s, Looped(inFor, ExitsOf(s)))

WellFormedCondition(c) ==
    \/ c.op \in {"opaque", "call"}
    \/ c.op \in {"eq", "ne"} /\ {c.l, c.r} \subseteq c.labels \cup {Fresh}
    \/ /\ c.op \in {"not", "and", "or"}
       /\ \A d \in {c.l} \cup (IF c.op = "not" THEN {} ELSE {c.r}) :
             d \in Conditions /\ d.depth < c.depth /\ d.labels \subseteq c.labels

\* The functions that the parser, the type checker and the compiler of Solidity
\* accept, except those with a for statement without initialisation. Constructors,
\* which may assign final variables, are not among the programs.
ASSUME ProgramAssumption ==
    /\ \A c \in Conditions :
          c.depth \in 0..MaxDepth /\ c.labels \subseteq Labels /\ WellFormedCondition(c)
    /\ \A s \in Statements : s.depth \in 0..MaxDepth /\ ScopeOK(s.scope) /\ WellFormed(s)
    /\ \A p \in Programs :
          p \in Statements /\ p.k = "block" /\ p.scope.visible = Global /\ ~p.scope.loop
          /\ p.scope.pending \cup p.scope.hidden = {}

-----------------------------------------------------------------------------
(* side_effects.has_side_effects: assignments and calls                    *)

CondEffects[c \in Conditions] ==
    \/ c.op = "call"
    \/ c.op = "not" /\ CondEffects[c.l]
    \/ c.op \in {"and", "or"} /\ (CondEffects[c.l] \/ CondEffects[c.r])

Effects[s \in Statements] ==
    \/ s.k \in {"assign", "call"}
    \/ s.k = "decl" /\ s.rhs = Call
    \/ s.k \in {"if", "require", "while", "dowhile", "for"} /\ CondEffects[s.cond]
    \/ s.k \in {"block", "while", "dowhile", "for"} /\ Effects[s.body]
    \/ s.k = "list" /\ (Effects[s.first] \/ Effects[s.rest])
    \/ s.k = "if" /\ (Effects[s.then] \/ Effects[s.else])
    \/ s.k = "for" /\ (Effects[s.init] \/ Effects[s.update])

-----------------------------------------------------------------------------
(* The analysis                                                            *)

Untracked(P, r) == r \in {Fresh, Call} \/ ~Has(P, r)

\* GuardConditionAnalyzer: neg is true below an odd number of negations.
\* guarded: what the parts of a condition say.
GuardedBy(guarded, c, neg, P) ==
    CASE c.op = "not" -> guarded[c.l][~neg][P]
      [] c.op = (IF neg THEN "or" ELSE "and") -> guarded[c.r][neg][guarded[c.l][neg][P]]
      [] c.op = (IF neg THEN "ne" ELSE "eq") ->
            IF c.l = Fresh THEN P
            ELSE IF Untracked(P, c.r) THEN MoveToSeparate(P, c.l)
            ELSE Merge(P, c.l, c.r)
      [] OTHER -> P

Guarded[c \in Conditions] ==
    [neg \in BOOLEAN |-> [P \in States |-> GuardedBy(Guarded, c, neg, P)]]

Separated(effect, P) == IF effect THEN SeparateAll(P) ELSE P

Assume(c, P) == IF CondEffects[c] THEN SeparateAll(P) ELSE Guarded[c][FALSE][P]
Refute(c, P) == IF CondEffects[c] THEN SeparateAll(P) ELSE Guarded[c][TRUE][P]

\* recursive_assign: the targets one after the other.
Moves(lhs, rhs, P) ==
    LET moved[i \in 0..Len(lhs)] ==
            IF i = 0 THEN P
            ELSE IF Untracked(moved[i - 1], rhs[i]) THEN MoveToSeparate(moved[i - 1], lhs[i])
            ELSE MoveTo(moved[i - 1], lhs[i], rhs[i])
    IN  moved
Moved(lhs, rhs, P) == Moves(lhs, rhs, P)[Len(lhs)]

\* ast.before_analysis of the parts of s, given the state P before s.  after[t]
\* is after_analysis of a part t.

\* Mutation: assignments in the body of a loop are not taken into account.
LoopHeadIgnoringBody(s, P) == Separated(CondEffects[s.cond], P)

LoopHead(s, P) == Separated(CondEffects[s.cond] \/ Effects[s.body], P)

InsertAll(P, names) == P \cup {{x} : x \in names}
RemoveAll(P, names) == {p \ names : p \in P} \ {{}}

AfterInit(after, s, P) == after[s.init][InsertAll(P, s.names)]

ForHead(after, s, P) ==
    IF CondEffects[s.cond] \/ Effects[s.body] \/ Effects[s.update]
    THEN SeparateAll(InsertAll(P, s.names)) ELSE AfterInit(after, s, P)

BeforeCond(after, s, P) == IF s.k = "for" THEN ForHead(after, s, P) ELSE LoopHead(s, P)

BeforeBody(after, s, P) ==
    CASE s.k = "block" -> InsertAll(P, s.names)
      [] s.k = "dowhile" -> LoopHead(s, P)
      [] OTHER -> Assume(s.cond, BeforeCond(after, s, P))

AfterBody(after, s, P) == after[s.body][BeforeBody(after, s, P)]

AfterDecl(s, P) ==
    IF s.rhs \in {Fresh, Call} THEN Separated(s.rhs = Call, P) ELSE Merge(P, s.var, s.rhs)

AfterRequire(c, P) ==
    IF c.op = "eq" /\ {c.l, c.r} \cap {Fresh, Call} = {} THEN Merge(P, c.l, c.r) ELSE P

AfterIf(after, s, P) ==
    Join(after[s.then][Assume(s.cond, P)],
         IF s.else.k = "none" THEN P ELSE after[s.else][Refute(s.cond, P)])

AfterWhile(after, s, P) ==
    Join(Refute(s.cond, LoopHead(s, P)), Refute(s.cond, AfterBody(after, s, P)))

AfterUpdate(after, s, P) == after[s.update][AfterBody(after, s, P)]
AfterFor(after, s, P) ==
    RemoveAll(Join(Refute(s.cond, AfterInit(after, s, P)),
                   Refute(s.cond, AfterUpdate(after, s, P))), s.names)

AfterBy(after, s, P) ==
    CASE s.k = "assign" ->
            Moved(s.lhs, s.rhs, Separated(\E i \in DOMAIN s.rhs : s.rhs[i] = Call, P))
      [] s.k = "decl" -> AfterDecl(s, P)
      [] s.k = "require" -> AfterRequire(s.cond, Separated(CondEffects[s.cond], P))
      [] s.k = "call" -> SeparateAll(P)
      [] s.k = "list" -> after[s.rest][after[s.first][P]]
      [] s.k = "block" -> RemoveAll(AfterBody(after, s, P), s.names)
      [] s.k = "if" -> AfterIf(after, s, P)
      [] s.k = "while" -> AfterWhile(after, s, P)
      [] s.k = "dowhile" -> Refute(s.cond, AfterBody(after, s, P))
      [] s.k = "for" -> AfterFor(after, s, P)
      [] OTHER -> P

AfterAnalysis[s \in Statements] == [P \in States |-> AfterBy(AfterAnalysis, s, P)]

\* The state before the body of the function: nothing is known.
P0 == {{x} : x \in Global}

-----------------------------------------------------------------------------
(* Execution                                                               *)

\* A side effect may change every state variable that is not final.
AfterCall(e) ==
    {[x \in Labels |-> IF x \in Mutable THEN g[x] ELSE e[x]] : g \in [Mutable -> Addrs]}

Valued(b, e) == [val |-> b, env |-> e]
Outcomes == [val : BOOLEAN, env : Envs]

\* How condition c may turn out in e, with short circuits; results: how its
\* parts may.
ResultsBy(results, c, e) ==
    LET after(b) == UNION {IF r.val = b THEN results[c.r][r.env] ELSE {r} :
                              r \in results[c.l][e]}
        equal == IF Fresh \in {c.l, c.r} THEN BOOLEAN ELSE {e[c.l] = e[c.r]}
    IN  CASE c.op = "eq" -> {Valued(b, e) : b \in equal}
          [] c.op = "ne" -> {Valued(~b, e) : b \in equal}
          [] c.op = "not" -> {Valued(~r.val, r.env) : r \in results[c.l][e]}
          [] c.op = "and" -> after(TRUE)
          [] c.op = "or" -> after(FALSE)
          [] c.op = "opaque" -> {Valued(b, e) : b \in BOOLEAN}
          [] c.op = "call" -> {Valued(b, f) : b \in BOOLEAN, f \in AfterCall(e)}

Results[c \in Conditions] == [e \in Envs |-> ResultsBy(Results, c, e)]

\* A task is a statement s with its before_analysis and the place in it that is
\* reached: its start, its condition, what follows the body, or its end.
Task(s, P, at) == [s |-> s, before |-> P, at |-> at]
Start(s, P) == Task(s, P, "start")

\* What the compiler takes to be equal at a task.
Known(t) ==
    CASE t.at = "start" -> t.before
      [] t.at = "end" -> AfterAnalysis[t.s][t.before]
      [] OTHER -> IF t.s.k = "while" \/ (t.at = "cond" /\ t.s.k = "for")
                  THEN BeforeCond(AfterAnalysis, t.s, t.before)
                  ELSE AfterBody(AfterAnalysis, t.s, t.before)

Init ==
    /\ prog \in Programs
    /\ env \in Envs
    /\ \A x \in Labels : env[x] = Everybody <=> x = All
    /\ todo = <<Start(prog, P0)>>

At(k, at) == todo # <<>> /\ Head(todo).s.k = k /\ Head(todo).at = at
Cur == Head(todo).s
Before == Head(todo).before
Here(at) == Task(Cur, Before, at)
Body == Start(Cur.body, BeforeBody(AfterAnalysis, Cur, Before))

\* The values come from e; a tuple is assigned at once.
Assigned(e, lhs, rhs) ==
    {[x \in Labels |->
         IF \E i \in DOMAIN lhs : lhs[i] = x
         THEN LET i == CHOOSE i \in DOMAIN lhs : lhs[i] = x
              IN  IF rhs[i] \in {Fresh, Call} THEN v[i] ELSE e[rhs[i]]
         ELSE e[x]] : v \in [DOMAIN lhs -> Addrs]}

Store(lhs, rhs) ==
    /\ \E e \in IF \E i \in DOMAIN rhs : rhs[i] = Call THEN AfterCall(env) ELSE {env} :
          env' \in Assigned(e, lhs, rhs)
    /\ todo' = Tail(todo)
    /\ UNCHANGED prog

AssignmentStatement == At("assign", "start") /\ Store(Cur.lhs, Cur.rhs)
VariableDeclarationStatement == At("decl", "start") /\ Store(<<Cur.var>>, <<Cur.rhs>>)

ExpressionStatement ==
    /\ At("call", "start")
    /\ env' \in AfterCall(env)
    /\ todo' = Tail(todo)
    /\ UNCHANGED prog

\* A condition that does not hold ends the execution.
RequireStatement ==
    /\ At("require", "start")
    /\ \E r \in Results[Cur.cond][env] :
          /\ env' = r.env
          /\ todo' = IF r.val THEN Tail(todo) ELSE <<>>
    /\ UNCHANGED prog

StatementList ==
    /\ At("list", "start")
    /\ todo' = <<Start(Cur.first, Before),
                 Start(Cur.rest, AfterAnalysis[Cur.first][Before])>> \o Tail(todo)
    /\ UNCHANGED <<prog, env>>

NoStatement ==
    /\ At("none", "start")
    /\ todo' = Tail(todo)
    /\ UNCHANGED <<prog, env>>

Block ==
    /\ At("block", "start")
    /\ todo' = <<Body, Here("end")>> \o Tail(todo)
    /\ UNCHANGED <<prog, env>>

IfStatement ==
    /\ At("if", "start")
    /\ \E r \in Results[Cur.cond][env] :
          /\ env' = r.env
          /\ todo' = (IF r.val THEN <<Start(Cur.then, Assume(Cur.cond, Before))>>
                      ELSE IF Cur.else.k = "none" THEN <<>>
                      ELSE <<Start(Cur.else, Refute(Cur.cond, Before))>>)
                     \o <<Here("end")>> \o Tail(todo)
    /\ UNCHANGED prog

EnterWhile ==
    /\ At("while", "start")
    /\ todo' = <<Here("cond"), Here("end")>> \o Tail(todo)
    /\ UNCHANGED <<prog, env>>

EnterDoWhile ==
    /\ At("dowhile", "start")
    /\ todo' = <<Body, Here("next"), Here("end")>> \o Tail(todo)
    /\ UNCHANGED <<prog, env>>

EnterFor ==
    /\ At("for", "start")
    /\ todo' = <<Start(Cur.init, InsertAll(Before, Cur.names)), Here("cond"), Here("end")>>
               \o Tail(todo)
    /\ UNCHANGED <<prog, env>>

Loops == {"while", "dowhile", "for"}

LoopCondition ==
    /\ \E k \in Loops : At(k, "cond")
    /\ \E r \in Results[Cur.cond][env] :
          /\ env' = r.env
          /\ todo' = IF r.val THEN <<Body, Here("next")>> \o Tail(todo) ELSE Tail(todo)
    /\ UNCHANGED prog

\* The body has been executed.
LoopNext ==
    /\ \E k \in Loops : At(k, "next")
    /\ todo' = (IF Cur.k = "for" THEN <<Start(Cur.update, Known(Head(todo)))>> ELSE <<>>)
               \o <<Here("cond")>> \o Tail(todo)
    /\ UNCHANGED <<prog, env>>

End ==
    /\ todo # <<>> /\ Head(todo).at = "end"
    /\ todo' = Tail(todo)
    /\ UNCHANGED <<prog, env>>

\* Leave statements up to the next task at place p of a loop.
IsPlace(t, p) == t.s.k \in Loops /\ t.at = p
SkipTo(p) ==
    LET i == CHOOSE i \in DOMAIN todo :
                IsPlace(todo[i], p) /\ \A j \in 1..(i - 1) : ~IsPlace(todo[j], p)
    IN  SubSeq(todo, i, Len(todo))

BreakStatement ==
    /\ At("break", "start")
    /\ todo' = SkipTo("end")
    /\ UNCHANGED <<prog, env>>

ContinueStatement ==
    /\ At("continue", "start")
    /\ todo' = SkipTo("next")
    /\ UNCHANGED <<prog, env>>

ReturnStatement ==
    /\ At("return", "start")
    /\ todo' = <<>>
    /\ UNCHANGED <<prog, env>>

Next ==
    \/ AssignmentStatement \/ VariableDeclarationStatement \/ ExpressionStatement
    \/ RequireStatement \/ StatementList \/ NoStatement \/ Block \/ IfStatement
    \/ EnterWhile \/ EnterDoWhile \/ EnterFor \/ LoopCondition \/ LoopNext \/ End
    \/ BreakStatement \/ ContinueStatement \/ ReturnStatement

Spec == Init /\ [][Next]_vars

-----------------------------------------------------------------------------
(* Properties                                                              *)

\* What the compiler knows at every statement covers the labels in scope, each
\* in one part: no merge or join loses one, or the next one raises KeyError.
TypeOK ==
    todo # <<>> =>
        LET P == Known(Head(todo))
        IN  IsPartitionState(P) /\ Global \subseteq Elements(P) /\ Elements(P) \subseteq Labels

\* Two labels the compiler takes to be equal at a statement are equal whenever
\* that statement is reached, whatever branches, iterations and calls came
\* before: a value encrypted for one of the owners can be read by the other.
AliasesHold == todo # <<>> => Agrees(Known(Head(todo)), env)

\* The programs for which AliasesHold: those without the statements the
\* analysis misjudges.  These are tuples of which one target is the source of
\* a later one (alias_analysis.py:270), an if without else whose condition has
\* side effects (alias_analysis.py:78), break and continue where the state
\* after the loop does not account for them (alias_analysis.py:97,117,142).
Judged(s) ==
    /\ s.k = "assign" => \A i, j \in DOMAIN s.lhs :
                             i < j => s.lhs[i] # s.rhs[j] /\ s.lhs[i] # s.lhs[j]
    /\ s.k = "if" /\ s.else.k = "none" => ~CondEffects[s.cond]
    /\ s.k \in {"break", "continue"} => s.k \in s.scope.exits

\* "After the loop, the condition is false" (alias_analysis.py:86).
ConditionFalseAfterLoop ==
    (At("while", "end") /\ Cur.cond.op \in {"eq", "ne"}) =>
        \E r \in Results[Cur.cond][env] : ~r.val
=============================================================================
