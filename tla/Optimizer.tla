------------------------------- MODULE Optimizer -------------------------------
(***************************************************************************)
(* The optimisation passes: UnaryPlusRemoval, constant_propagation and     *)
(* dead_code_elimination, run in any order over the AST of a function that *)
(* semantic analysis has accepted.  One action per turn of a pass's loop   *)
(* over the statements, so a half optimised function is a state too.       *)
(*                                                                         *)
(* constant_propagation remembers values by the ADDRESS of the node they   *)
(* belong to, and frees that node.  When a function is destroyed the next  *)
(* one may be given the same memory, and the pass object may be the one    *)
(* that saw the first.  Literals answer for themselves and are never       *)
(* looked up: they have no address here.  One that is freed was elsewhere, *)
(* and where that was is told when another function may be put there.      *)
(***************************************************************************)
EXTENDS Evaluation

CONSTANTS Functions,       \* the functions optimised first
          LaterFunctions,  \* the functions that replace them
          MaxPasses,       \* bound on the passes that are run
          Elsewhere        \* stands for the address of a freed literal

VARIABLES function,   \* the AST in its present form
          original,   \* history: the AST as semantic analysis built it
          phase,      \* idle, the pass that runs, or killed
          next,       \* the statement the pass looks at
          known,      \* constant_variables
          mapping,    \* expression_mapping
          passes,     \* how many passes have been begun
          last,       \* history: the last pass that ended
          reassigned, \* history: a known variable took a value not known
          misled      \* history: a value is remembered for a live address

vars == <<function, original, phase, next, known, mapping, passes, last,
          reassigned, misled>>

Passes == {"UnaryPlusRemoval", "constant_propagation", "dead_code_elimination"}

(* All nodes of an expression. *)
Nodes[x \in Expressions] ==
    {x} \cup UNION {Nodes[y] : y \in Operands(x)}

(* The nodes whose value the pass looks up by address. *)
Addressed(x) == {y \in Nodes[x] : y.kind # "Literal"}
LookedUp(f) == UNION {Addressed(f.statements[i].value) : i \in DOMAIN f.statements}

(* Live nodes lie apart, the operands of an operator and the expressions   *)
(* of two statements in particular.                                        *)
Apart(xs, ys) == \A x \in xs, y \in ys : x.at # y.at

DistinctAddresses(x) ==
    \A y \in Nodes[x] :
        /\ y.kind # "Literal" => \A z \in Operands(y) : Apart({y}, Addressed(z))
        /\ y.kind = "Binary" => Apart(Addressed(y.left), Addressed(y.right))

(* What semantic analysis accepts, as far as the passes rely on it: there  *)
(* is a return statement, and every node has a place of its own.           *)
Accepted(f) ==
    /\ f \in FunctionNodes
    /\ \E i \in DOMAIN f.statements : f.statements[i].type = "ReturnStatement"
    /\ \A i \in DOMAIN f.statements : DistinctAddresses(f.statements[i].value)
    /\ \A i, j \in DOMAIN f.statements :
          i # j => Apart(Addressed(f.statements[i].value), Addressed(f.statements[j].value))

ASSUME OptimizerAssumption ==
    /\ MaxPasses \in Nat
    /\ Elsewhere \notin Addresses
    /\ \A f \in Functions \cup LaterFunctions : Accepted(f)

-----------------------------------------------------------------------------
(* UnaryPlusRemoval: the operand first, then the sign itself.  Mutant: the *)
(* operand of a removed sign is not the one that was visited.              *)
Unsigned_Unvisited(x, input) ==
    IF x.operation = "PLUS" THEN x.input ELSE [x EXCEPT !.input = input]
Unsigned(x, input) ==
    IF x.operation = "PLUS" THEN input ELSE [x EXCEPT !.input = input]

RemovePlus[x \in Expressions] ==
    CASE x.kind = "Unary"  -> Unsigned(x, RemovePlus[x.input])
      [] x.kind = "Binary" -> [x EXCEPT !.left = RemovePlus[x.left],
                                        !.right = RemovePlus[x.right]]
      [] OTHER             -> x

-----------------------------------------------------------------------------
(* constant_propagation.  Every step maps a node x and the mapping m to    *)
(* the node that takes its place, the mapping after it, and whether the    *)
(* evaluation killed the process.                                          *)
Mappings == SUBSET [at : Addresses \cup {Elsewhere}, value : Ints]
Step(x, m, killed) == [node |-> x, mapping |-> m, killed |-> killed]

(* constant_variables before the first statement.  Mutant: without the     *)
(* switch every symbol takes its table entry's value, 0 for a variable.    *)
InitiallyKnown_All(f) == [h \in Handles |-> f.symbols[h].value]
InitiallyKnown(f) ==
    [h \in Handles |->
        IF f.symbols[h].type = "CONSTANT" THEN f.symbols[h].value ELSE NoValue]

NothingKnown == [h \in Handles |-> NoValue]

(* get_value: a literal's own value, or what is remembered for x. *)
Entries(x, m) == {entry \in m : entry.at = x.at}
GetValue(x, m) == IF x.kind = "Literal" THEN x.value
                  ELSE IF Entries(x, m) # {} THEN (CHOOSE e \in Entries(x, m) : TRUE).value
                  ELSE NoValue

(* Every operand has a value; mutant: || in place of &&. *)
HasValues_Any(xs, m) == \E x \in xs : GetValue(x, m) # NoValue
HasValues(xs, m) == \A x \in xs : GetValue(x, m) # NoValue

(* expression_mapping.emplace: an entry that exists stays.  Literals may   *)
(* have lain at different places, each with its own entry.                 *)
Emplace(x, value, m) ==
    IF x.kind = "Literal" THEN m \cup {[at |-> Elsewhere, value |-> value]}
    ELSE IF Entries(x, m) # {} THEN m
    ELSE m \cup {[at |-> x.at, value |-> value]}

(* The executionContext of the pass: no argument is known, all are 0. *)
PassContext == Context(function, <<>>)

(* replace_expression.  Mutant: the value is noted before it is tested. *)
Replaced_NotedFirst(x, m) ==
    LET value == Evaluate[x][PassContext]
    IN IF value \in Failures THEN Step(x, Emplace(x, 0, m), value = Trap)
       ELSE Step(Literal(value), Emplace(x, value, m), FALSE)
Replaced(x, m) ==
    LET value == Evaluate[x][PassContext]
    IN IF value \in Failures THEN Step(x, m, value = Trap)
       ELSE Step(Literal(value), Emplace(x, value, m), FALSE)

(* The end of optimize() for a node whose operands, xs, are done. *)
Folded(x, xs, m, killed) ==
    LET step == IF HasValues(xs, m) THEN Replaced(x, m) ELSE Step(x, m, FALSE)
    IN  Step(step.node, step.mapping, step.killed \/ killed)

Steps == [node : Expressions, mapping : Mappings, killed : BOOLEAN]

Propagated[x \in Expressions] ==
    [m \in Mappings |->
        CASE x.kind = "Literal" -> Step(x, m, FALSE)
          [] x.kind = "Identifier" ->
                IF known[x.symbol] = NoValue THEN Step(x, m, FALSE)
                ELSE Step(Literal(known[x.symbol]), Emplace(x, known[x.symbol], m), FALSE)
          [] x.kind = "Unary" ->
                LET After[input \in Steps] ==
                        Folded([x EXCEPT !.input = input.node], {input.node},
                               input.mapping, input.killed)
                IN  After[Propagated[x.input][m]]
          [] OTHER ->
                LET AfterLeft[left \in Steps] ==
                        LET AfterRight[right \in Steps] ==
                                Folded([x EXCEPT !.left = left.node, !.right = right.node],
                                       {left.node, right.node}, right.mapping,
                                       left.killed \/ right.killed)
                        IN  AfterRight[Propagated[x.right][left.mapping]]
                IN  AfterLeft[Propagated[x.left][m]]]

(* A statement's expression: once propagated, a value replaces it. *)
PropagatedStatement(x, m) ==
    LET After[step \in Steps] ==
            Folded(step.node, {step.node}, step.mapping, step.killed)
    IN  After[Propagated[x][m]]

-----------------------------------------------------------------------------
Statements == function.statements

Load(f) ==
    /\ function' = f
    /\ original' = f
    /\ last' = "none"
    /\ reassigned' = FALSE
    /\ misled' = FALSE

Init ==
    /\ function \in Functions
    /\ original = function
    /\ phase = "idle"
    /\ next = 1
    /\ known = NothingKnown
    /\ mapping = {}
    /\ passes = 0
    /\ last = "none"
    /\ reassigned = FALSE
    /\ misled = FALSE

(* Entries of literals turn out to be of one node's address, if it has     *)
(* none yet.  Bound: of one node.                                          *)
Located(f) ==
    {mapping \cup {[at |-> y.at, value |-> entry.value]} :
        y \in {x \in LookedUp(f) : Entries(x, mapping) = {}},
        entry \in {e \in mapping : e.at = Elsewhere}}

(* Another function takes the place of one that constant_propagation has   *)
(* seen; its nodes may lie where the freed ones were.                      *)
NewFunction ==
    /\ phase = "idle"
    /\ last = "constant_propagation"
    /\ \E f \in LaterFunctions : Load(f) /\ mapping' \in Located(f) \cup {mapping}
    /\ UNCHANGED <<phase, next, known, passes>>

(* optimize_ast with a new pass object, or with the one used before. *)
Begin(pass) ==
    /\ phase = "idle"
    /\ passes < MaxPasses
    /\ phase' = pass
    /\ next' = 1
    /\ passes' = passes + 1
    /\ UNCHANGED <<function, original, last, reassigned>>

BeginConstantPropagation ==
    /\ Begin("constant_propagation")
    /\ known' = InitiallyKnown(function)
    /\ \E remembered \in {mapping, {}} :
          /\ mapping' = remembered
          /\ misled' = (misled \/ ~Apart(LookedUp(function), remembered))

BeginOther ==
    /\ Begin("UnaryPlusRemoval") \/ Begin("dead_code_elimination")
    /\ UNCHANGED <<known, mapping, misled>>

InLoop(pass) == phase = pass /\ next <= Len(Statements)

RemoveUnaryPlus ==
    /\ InLoop("UnaryPlusRemoval")
    /\ function' = [function EXCEPT !.statements[next].value = RemovePlus[@]]
    /\ next' = next + 1
    /\ UNCHANGED <<original, phase, known, mapping, passes, last, reassigned, misled>>

(* An assignment of a value makes the target known.  If an entry misled    *)
(* the pass the expression may be no literal after all, and what is read   *)
(* as its value is anything.                                               *)
PropagateConstants ==
    /\ InLoop("constant_propagation")
    /\ \E step \in {PropagatedStatement(Statements[next].value, mapping)} :
       LET statement == Statements[next]
           found     == HasValues({step.node}, step.mapping)
           assigns   == statement.type = "Assignment"
       IN /\ function' = [function EXCEPT !.statements[next].value = step.node]
          /\ mapping' = step.mapping
          /\ phase' = IF step.killed THEN "killed" ELSE phase
          /\ next' = IF step.killed THEN next ELSE next + 1
          /\ reassigned' = (reassigned \/ (assigns /\ ~found
                                           /\ known[statement.target] # NoValue))
          /\ IF assigns /\ found
             THEN \E value \in Ints :
                     /\ step.node.kind = "Literal" => value = step.node.value
                     /\ known' = [known EXCEPT ![statement.target] = value]
             ELSE UNCHANGED known
    /\ UNCHANGED <<original, passes, last, misled>>

(* dead_code_elimination: the first loop stops behind the first return.    *)
(* Mutant: the counter is advanced by the loop's header once more.         *)
FindReturn_Twice ==
    /\ InLoop("dead_code_elimination")
    /\ LET returns == Statements[next].type = "ReturnStatement"
       IN  /\ next' = IF returns THEN next + 2 ELSE next + 1
           /\ phase' = IF returns THEN "removal" ELSE phase
    /\ UNCHANGED <<function, original, known, mapping, passes, last, reassigned, misled>>

FindReturn ==
    /\ InLoop("dead_code_elimination")
    /\ next' = next + 1
    /\ phase' = IF Statements[next].type = "ReturnStatement" THEN "removal" ELSE phase
    /\ UNCHANGED <<function, original, known, mapping, passes, last, reassigned, misled>>

(* removeStatement(size()) is statements.erase(end()), undefined for a     *)
(* vector; the library of the build moves nothing and destroys the last    *)
(* element.  Mutant: it leaves the vector as it is.                        *)
RemoveStatement_Nothing(statements) == statements
RemoveStatement(statements) == SubSeq(statements, 1, Len(statements) - 1)

RemoveDeadStatement ==
    /\ InLoop("removal")
    /\ function' = [function EXCEPT !.statements = RemoveStatement(@)]
    /\ UNCHANGED <<original, phase, next, known, mapping, passes, last, reassigned, misled>>

(* The next constant_propagation fills constant_variables anew: what it    *)
(* holds in between is dropped here.                                       *)
EndPass ==
    /\ phase \in Passes \cup {"removal"}
    /\ next > Len(Statements)
    /\ phase' = "idle"
    /\ last' = IF phase = "removal" THEN "dead_code_elimination" ELSE phase
    /\ next' = 1
    /\ known' = NothingKnown
    /\ UNCHANGED <<function, original, mapping, passes, reassigned, misled>>

PassStep == RemoveUnaryPlus \/ PropagateConstants \/ FindReturn
            \/ RemoveDeadStatement \/ EndPass

Next == NewFunction \/ BeginConstantPropagation \/ BeginOther \/ PassStep

(* The thread that optimises keeps running; nothing makes it begin a pass. *)
Spec == Init /\ [][Next]_vars /\ WF_vars(PassStep)

-----------------------------------------------------------------------------
TypeOK ==
    /\ phase \in Passes \cup {"idle", "removal", "killed"}
    /\ next \in 1 .. Len(original.statements) + 1
    /\ passes \in 0 .. MaxPasses
    /\ last \in Passes \cup {"none"}
    /\ {reassigned, misled} \subseteq BOOLEAN
    /\ known \in [Handles -> Ints \cup {NoValue}]
    /\ mapping \in Mappings
    /\ {function, original} \subseteq FunctionNodes

(* Whatever passes have run, and half way through one, a call returns what *)
(* the function returned as it was written: the same value, no value, or   *)
(* the same crash.                                                         *)
SameMeaning ==
    phase # "killed" => \A arguments \in Arguments(original) :
        Run(function, arguments).result = Run(original, arguments).result

(* Passes keep the meaning of a function in which no known variable takes  *)
(* a value that is not known (constant_propagation.cpp:75-79 keeps the old *)
(* value then), and of which no live node lies at a remembered address     *)
(* (constant_propagation.cpp:38,102).                                      *)
PreservesMeaning == ~reassigned /\ ~misled => SameMeaning

(* The optimiser itself is killed by a division only where no call gets a  *)
(* result either: it is killed too, or fails there before it comes to that *)
(* division, or evaluation does not come to the statement at all.  The     *)
(* zeros in the pass's context are never divided                           *)
(* (constant_propagation.cpp:92-95).                                       *)
KilledOnlyByDeadlyCode ==
    phase = "killed" /\ ~reassigned /\ ~misled =>
        \A arguments \in Arguments(original) :
            LET run == Run(original, arguments)
            IN \/ run.reached < next
               \/ run.reached = next /\ run.result \in Failures

(* No value is remembered for a node that is still part of the function:   *)
(* an entry is made for a node as it is freed (constant_propagation.cpp:   *)
(* 38,102).  A pass object that starts without misleading entries keeps so.*)
RemembersOnlyFreed ==
    ~misled /\ (\/ phase = "constant_propagation"
                \/ phase = "idle" /\ last = "constant_propagation") =>
        Apart(LookedUp(function), mapping)

(* A pass leaves nothing of its kind to do: no unary plus; no operator     *)
(* over literals that has a value; nothing behind the first return         *)
(* (TestOptimization.cpp compares the results for three programs).         *)
NothingLeft ==
    phase = "idle" /\ ~misled =>
        CASE last = "UnaryPlusRemoval" ->
                \A x \in LookedUp(function) : x.kind = "Unary" => x.operation # "PLUS"
          [] last = "constant_propagation" ->
                \A x \in LookedUp(function) :
                    Operands(x) # {} /\ (\A y \in Operands(x) : y.kind = "Literal")
                        => Evaluate[x][PassContext] = NoValue
          [] last = "dead_code_elimination" ->
                \A i \in DOMAIN Statements :
                    Statements[i].type = "ReturnStatement" <=> i = Len(Statements)
          [] OTHER -> TRUE

(* Every pass ends, or the process does: in particular the loop that       *)
(* removes statements, whose bound is what it shrinks                      *)
(* (dead_code_elimination.cpp:16-18).                                      *)
EveryPassEnds == phase \in Passes \cup {"removal"} ~> phase \in {"idle", "killed"}
===============================================================================
