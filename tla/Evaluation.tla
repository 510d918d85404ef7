------------------------------ MODULE Evaluation ------------------------------
(***************************************************************************)
(* Evaluation of a FunctionNode in an ExecutionContext, with the machine's *)
(* integers: two's complement numbers between -MaxInt - 1 and MaxInt.      *)
(* Signed overflow is undefined; what the build does is modelled: results  *)
(* wrap, and dividing the least integer by -1 kills the process.           *)
(*                                                                         *)
(* Nodes are the ones of module AST, as they lie in memory: all but the    *)
(* literals have an address, which only the optimiser looks at.            *)
(***************************************************************************)
EXTENDS AST, Integers

CONSTANTS MaxInt,     \* the greatest integer, 2^63 - 1 in the code
          NoValue,    \* std::nullopt
          Trap,       \* the process is killed
          Handles,    \* the handles of a symbol table
          Addresses,  \* where nodes may lie
          MaxHeight   \* bound on the height of an expression

MinInt == -MaxInt - 1
Ints == MinInt .. MaxInt

Failures == {NoValue, Trap}

ASSUME EvaluationAssumption ==
    /\ MaxInt \in Nat
    /\ MaxHeight \in Nat
    /\ NoValue # Trap
    /\ NoValue \notin Ints
    /\ Trap \notin Ints

-----------------------------------------------------------------------------
(* Expressions. *)

Signs == {"PLUS", "MINUS"}
Operators == {"PLUS", "MINUS", "MULTIPLY", "DIVIDE"}

Literals == [kind : {"Literal"}, value : Ints]
Identifiers == [kind : {"Identifier"}, symbol : Handles, at : Addresses]
Unaries(inputs) ==
    [kind : {"Unary"}, operation : Signs, input : inputs, at : Addresses]
Binaries(operands) ==
    [kind : {"Binary"}, operation : Operators, left : operands, right : operands,
     at : Addresses]

(* The expressions up to a height. *)
Trees[n \in Nat] ==
    IF n = 0 THEN Literals \cup Identifiers
    ELSE Literals \cup Identifiers \cup Unaries(Trees[n - 1]) \cup Binaries(Trees[n - 1])

Expressions == Trees[MaxHeight]

Operands(x) == CASE x.kind = "Unary"  -> {x.input}
                 [] x.kind = "Binary" -> {x.left, x.right}
                 [] OTHER             -> {}

StatementNodes == [type : {"Assignment"}, target : Handles, value : Expressions]
                  \cup [type : {"ReturnStatement"}, target : {0}, value : Expressions]

SymbolTables == [Handles -> [type : {"PARAMETER", "VARIABLE", "CONSTANT"}, value : Ints]]

FunctionNodes == [symbols : SymbolTables, statements : Seq(StatementNodes)]

-----------------------------------------------------------------------------
(* The result in two's complement. *)
Wrap(i) == ((i - MinInt) % (2 * (MaxInt + 1))) + MinInt

Abs(i) == IF i < 0 THEN -i ELSE i

(* C++ rounds a quotient towards zero. *)
Quotient(l, r) ==
    LET q == Abs(l) \div Abs(r) IN IF (l < 0) = (r < 0) THEN q ELSE -q

Divide(l, r) == IF r = 0 THEN NoValue
                ELSE IF l = MinInt /\ r = -1 THEN Trap
                ELSE Quotient(l, r)

(* l and r have values here. *)
Apply(l, operation, r) ==
    CASE operation = "PLUS"     -> Wrap(l + r)
      [] operation = "MINUS"    -> Wrap(l - r)
      [] operation = "MULTIPLY" -> Wrap(l * r)
      [] operation = "DIVIDE"   -> Divide(l, r)

(* The value of an operator, given those of its operands.  The right one   *)
(* is not evaluated if the left one has none.                              *)
UnaryValue(operation, value) ==
    IF value \in Failures THEN value
    ELSE IF operation = "MINUS" THEN Wrap(-value) ELSE value

BinaryValue(l, operation, r) ==
    IF l \in Failures THEN l
    ELSE IF r \in Failures THEN r ELSE Apply(l, operation, r)

Contexts == [Handles -> Ints]

Evaluate[x \in Expressions] ==
    [context \in Contexts |->
        CASE x.kind = "Literal"    -> x.value
          [] x.kind = "Identifier" -> context[x.symbol]
          [] x.kind = "Unary"      ->
                UnaryValue(x.operation, Evaluate[x.input][context])
          [] OTHER                 ->
                BinaryValue(Evaluate[x.left][context], x.operation,
                            Evaluate[x.right][context])]

-----------------------------------------------------------------------------
(* ExecutionContext(symbolTable, parameters): the handles of parameters    *)
(* come first.                                                             *)
Context(function, arguments) ==
    [h \in Handles |->
        IF h \in DOMAIN arguments THEN arguments[h]
        ELSE IF function.symbols[h].type = "CONSTANT" THEN function.symbols[h].value
        ELSE 0]

Parameters(function) ==
    {h \in Handles : function.symbols[h].type = "PARAMETER"}

Arguments(function) == [Parameters(function) -> Ints]

(* FunctionNode::evaluate.  Its state: the context, the statement that was *)
(* evaluated last, and whether that one has ended it with this result.     *)
Started(context) ==
    [context |-> context, reached |-> 0, ended |-> FALSE, result |-> NoValue]

Executed(run, i, statement) ==
    LET value == Evaluate[statement.value][run.context]
    IN  IF run.ended THEN run
        ELSE IF value \in Failures \/ statement.type = "ReturnStatement"
        THEN [context |-> run.context, reached |-> i, ended |-> TRUE, result |-> value]
        ELSE [context |-> [run.context EXCEPT ![statement.target] = value],
              reached |-> i, ended |-> FALSE, result |-> NoValue]

(* Its states, one behind each statement. *)
Execution(statements, context) ==
    LET run[i \in 0 .. Len(statements)] ==
            IF i = 0 THEN Started(context) ELSE Executed(run[i - 1], i, statements[i])
    IN  run

Run(function, arguments) ==
    Execution(function.statements, Context(function, arguments))[Len(function.statements)]
===============================================================================
