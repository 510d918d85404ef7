------------------------------- MODULE Execution -------------------------------
(***************************************************************************)
(* A function that semantic analysis (module ASTCreator) has accepted is   *)
(* called: an ExecutionContext is built from its symbol table and the      *)
(* arguments, and FunctionNode::evaluate runs the statements in it.  The   *)
(* function may be called any number of times; each call has a context of  *)
(* its own, and neither the table nor the statements change any more.      *)
(*                                                                         *)
(* The value of an expression is chosen freely from Values, or it has none *)
(* (a division by zero): the properties here are about which symbols are   *)
(* read and written, whatever the arithmetic.                              *)
(***************************************************************************)
EXTENDS ASTCreator

CONSTANT NoValue   \* std::nullopt

ASSUME ExecutionAssumption == NoValue \notin Values

VARIABLES status,      \* idle, evaluating, or how the evaluation went wrong
          context,     \* ExecutionContext::symbols
          result,      \* ExecutionContext::result
          next,        \* the statement evaluated next
          arguments,   \* history: what the caller passed
          written      \* history: the handles assigned in this call

call == <<status, context, result, next, arguments, written>>
vars == <<analysis, call>>

Init ==
    /\ AnalysisInit
    /\ status = "idle"
    /\ context = <<>>
    /\ result = NoValue
    /\ next = 1
    /\ arguments = <<>>
    /\ written = {}

Analyze == AnalysisNext /\ UNCHANGED call

(* constants_begin() .. constants_end(); and its mutant: the parameters do *)
(* not count.                                                              *)
ConstantSlots_NoParameters ==
    number_of["VARIABLE"] + 1 .. number_of["VARIABLE"] + number_of["CONSTANT"]
ConstantSlots ==
    LET begin == number_of["PARAMETER"] + number_of["VARIABLE"]
    IN  begin + 1 .. begin + number_of["CONSTANT"]

(* The number of arguments a caller passes.  The constructor call_impl     *)
(* selects does not compare it with the parameters; more arguments than    *)
(* symbols are left out: the copy would run past the end of the vector.    *)
Arities == 0 .. Len(symbols)

(* Mutant of ContextOf: space is reserved, but the vector not resized. *)
ContextOf_NotResized(args) == args

(* ExecutionContext(symbolTable, parameters): resize to zeros, copy the    *)
(* arguments to the front, then store the constants.                       *)
ContextOf(args) ==
    [i \in 1 .. Len(symbols) |->
        IF i \in ConstantSlots THEN symbols[i].constant_value
        ELSE IF i <= Len(args) THEN args[i] ELSE 0]

(* Function::call_impl. *)
CallFunction ==
    /\ outcome = "FunctionNode"
    /\ status = "idle"
    /\ status' = "evaluating"
    /\ \E n \in Arities : \E args \in [1 .. n -> Values] :
          /\ arguments' = args
          /\ context' = ContextOf(args)
    /\ result' = NoValue
    /\ next' = 1
    /\ written' = {}
    /\ UNCHANGED analysis

(* One turn of the loop of FunctionNode::evaluate.  An expression without  *)
(* a value ends the call without a result, an assignment stores the value  *)
(* and goes on, a return stores the result and ends the call.              *)
EvaluateStatement ==
    /\ status = "evaluating"
    /\ next <= Len(statements)
    /\ ~statements[next].null
    /\ \E value \in Values \cup {NoValue} :
         LET statement == statements[next]
             assigns == value # NoValue /\ statement.type = "Assignment"
         IN /\ status' = IF assigns THEN "evaluating" ELSE "idle"
            /\ next' = IF assigns THEN next + 1 ELSE next
            /\ context' = IF assigns
                          THEN [context EXCEPT ![statement.target] = value]
                          ELSE context
            /\ written' = IF assigns THEN written \cup {statement.target}
                                     ELSE written
            /\ result' = IF assigns THEN result ELSE value
    /\ UNCHANGED <<analysis, arguments>>

(* value->evaluate(context) on a null value, or the loop ends and the code *)
(* after it, marked unreachable, returns.                                  *)
EvaluationStops ==
    /\ status = "evaluating"
    /\ next <= Len(statements) => statements[next].null
    /\ status' = IF next <= Len(statements) THEN "null dereference"
                                            ELSE "unreachable"
    /\ UNCHANGED <<analysis, context, result, next, arguments, written>>

Next == Analyze \/ CallFunction \/ EvaluateStatement \/ EvaluationStops

Spec == Init /\ [][Next]_vars

-----------------------------------------------------------------------------
TypeOK ==
    /\ AnalysisTypeOK
    /\ status \in {"idle", "evaluating", "null dereference", "unreachable"}
    /\ context \in Seq(Values)
    /\ status # "idle" => Len(context) = Len(symbols)
    /\ result \in Values \cup {NoValue}
    /\ next \in 1 .. MaxStatements + 1
    /\ arguments \in Seq(Values)
    /\ written \subseteq 1 .. Len(symbols)

Running == status = "evaluating"

(* A constant holds its declared value throughout every call: it sits in   *)
(* the slot the constructor fills, and no accepted statement assigns it    *)
(* (ASTCreator.cpp:124, ExecutionContext.cpp:28-31).                       *)
ConstantsKeepValue ==
    Running => \A i \in 1 .. Len(symbols) :
                  symbols[i].type = "CONSTANT" => context[i] = symbols[i].constant_value

(* With an argument for each parameter, a parameter holds its own until    *)
(* the function assigns it, and a variable holds zero: the loop over the   *)
(* constants disturbs neither, and no argument is left over for a slot     *)
(* behind the parameters (ExecutionContext.cpp:24-31).                     *)
ArgumentsDelivered ==
    Running /\ Len(arguments) = number_of["PARAMETER"] =>
        \A i \in 1 .. Len(symbols) \ written :
            /\ symbols[i].type = "PARAMETER" => context[i] = arguments[i]
            /\ symbols[i].type = "VARIABLE" => context[i] = 0

(* What a statement reads was written before it in this call, or is a      *)
(* parameter or a constant, or is the statement's own target: the straight *)
(* line of statements makes the analysis' one flag per symbol enough.      *)
ReadsAreInitialized ==
    Running /\ next <= Len(statements) =>
        \A i \in statements[next].uses \ (written \cup {statements[next].target}) :
            symbols[i].type # "VARIABLE"

(* Evaluation ends in a return statement or without a value, never behind  *)
(* the last statement: the code after the loop is unreachable (AST.cpp:25).*)
NeverUnreachable == status # "unreachable"

(* A variable that is referenced has been initialised: what the message    *)
(* "has not been initialized but is referenced" (ASTCreator.cpp:197-198)   *)
(* and the test UninitializedVariable say is checked.                      *)
NoUninitializedRead ==
    Running /\ next <= Len(statements) =>
        \A i \in statements[next].uses \ written : symbols[i].type # "VARIABLE"

(* A function that analysis accepted has no hole: an undeclared identifier *)
(* is rejected wherever it stands (test UndeclaredIdentifier).             *)
NoNullExpression == status # "null dereference"

(* A function is evaluated with an argument for each of its parameters:    *)
(* what the assertion in ExecutionContext.hpp:22 and the test              *)
(* InvalidNumberOfParameters demand of an ExecutionContext.                *)
ArgumentsMatchParameters ==
    Running => Len(arguments) = number_of["PARAMETER"]
===============================================================================
