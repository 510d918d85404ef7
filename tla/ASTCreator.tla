------------------------------ MODULE ASTCreator ------------------------------
(***************************************************************************)
(* Semantic analysis: ASTCreator::analyze_function and the symbol_table it *)
(* fills.  One action per declaration and per statement of the parse tree, *)
(* in the order in which the code walks them.  The parse tree is not built *)
(* beforehand: each action picks the next child a parse tree may have, so  *)
(* the behaviours cover every program within the bounds.                   *)
(*                                                                         *)
(* An expression is the set of the names it mentions.  That is all the     *)
(* analysis looks at: it fails on an undeclared or uninitialised name and  *)
(* otherwise builds a tree whose leaves are the names' symbol handles.     *)
(* Handles are the positions in the symbol table, counted from 1.          *)
(***************************************************************************)
EXTENDS Naturals, Sequences

CONSTANTS Names,          \* identifiers a program may use
          Values,         \* the int64_t values that occur
          MaxStatements   \* bound on the statements of one function

ASSUME ASTCreatorAssumption ==
    /\ 0 \in Values
    /\ MaxStatements \in Nat

VARIABLES section,               \* the part of the parse tree being analysed
          symbols,               \* the symbol table
          number_of,             \* number_of_parameters, _variables, _constants
          identifier_mapping,    \* name -> handle
          statements,            \* the statement nodes built so far
          has_return_statement,
          outcome                \* analysing, nullptr, or a FunctionNode

analysis == <<section, symbols, number_of, identifier_mapping, statements,
              has_return_statement, outcome>>

SymbolTypes == {"PARAMETER", "VARIABLE", "CONSTANT"}
Sections == {"PARAMETER", "VARIABLE", "CONSTANT", "statements"}

Undeclared == 0   \* identifier_mapping.end()
NoTarget == 0     \* a return statement assigns nothing

AnalysisInit ==
    /\ section = "PARAMETER"
    /\ symbols = <<>>
    /\ number_of = [type \in SymbolTypes |-> 0]
    /\ identifier_mapping = [n \in Names |-> Undeclared]
    /\ statements = <<>>
    /\ has_return_statement = FALSE
    /\ outcome = "analysing"

-----------------------------------------------------------------------------
(* Declarations. *)

(* Mutant of InsertedSymbol: every symbol counts as initialised. *)
InsertedSymbol_Initialized(n, type, value) ==
    [name |-> n, type |-> type, initialized |-> TRUE, constant_value |-> value]

(* symbol_table::insert: only a variable starts uninitialised. *)
InsertedSymbol(n, type, value) ==
    [name |-> n, type |-> type, initialized |-> type # "VARIABLE",
     constant_value |-> value]

(* register_symbol; analyze_declarations gives up on a redeclaration. *)
RegisterSymbol(n, type, value) ==
    IF identifier_mapping[n] # Undeclared
    THEN /\ outcome' = "nullptr"
         /\ UNCHANGED <<symbols, number_of, identifier_mapping>>
    ELSE /\ symbols' = Append(symbols, InsertedSymbol(n, type, value))
         /\ number_of' = [number_of EXCEPT ![type] = @ + 1]
         /\ identifier_mapping' = [identifier_mapping EXCEPT ![n] = Len(symbols')]
         /\ UNCHANGED outcome

(* The next identifier of a PARAM, VAR or CONST list.  Only a constant     *)
(* comes with a value; the table stores 0 for the others.                  *)
Declare ==
    /\ outcome = "analysing"
    /\ section # "statements"
    /\ \E n \in Names, v \in Values :
          /\ section # "CONSTANT" => v = 0
          /\ RegisterSymbol(n, section, v)
    /\ UNCHANGED <<section, statements, has_return_statement>>

(* Mutant of Order: constants are declared before variables. *)
Order_Swapped == <<"PARAMETER", "CONSTANT", "VARIABLE", "statements">>
Order == <<"PARAMETER", "VARIABLE", "CONSTANT", "statements">>

(* The list ends, or the function has no such list. *)
NextSection ==
    /\ outcome = "analysing"
    /\ section # "statements"
    /\ \E i \in 1 .. 3 : section = Order[i] /\ section' = Order[i + 1]
    /\ UNCHANGED <<symbols, number_of, identifier_mapping, statements,
                   has_return_statement, outcome>>

-----------------------------------------------------------------------------
(* Statements. *)

(* analyze_expression succeeds on a set of names in symbol table st. *)
Analyzable(names, st) ==
    \A n \in names : /\ identifier_mapping[n] # Undeclared
                     /\ st[identifier_mapping[n]].initialized

Handles(names) == {identifier_mapping[n] : n \in names}

(* A statement node; null marks a null expression pointer inside it. *)
Statement(type, target, names, st) ==
    [type |-> type, target |-> target, null |-> ~Analyzable(names, st),
     uses |-> IF Analyzable(names, st) THEN Handles(names) ELSE {}]

MoreStatements ==
    /\ outcome = "analysing"
    /\ section = "statements"
    /\ Len(statements) < MaxStatements

(* analyze_return_statement refuses a null expression. *)
AnalyzeReturn ==
    /\ MoreStatements
    /\ has_return_statement' = TRUE
    /\ \E names \in SUBSET Names :
          IF Analyzable(names, symbols)
          THEN /\ statements' = Append(statements,
                      Statement("ReturnStatement", NoTarget, names, symbols))
               /\ UNCHANGED outcome
          ELSE /\ outcome' = "nullptr"
               /\ UNCHANGED statements
    /\ UNCHANGED <<section, symbols, number_of, identifier_mapping>>

(* Mutant of IsConstant: the test of the target's type is dropped. *)
IsConstant_Untested(handle) == FALSE
IsConstant(handle) == symbols[handle].type = "CONSTANT"

(* analyze_assignment_node: the target counts as initialised before the    *)
(* expression is analysed, and a null expression is not looked at.         *)
AnalyzeAssignment ==
    /\ MoreStatements
    /\ \E n \in Names, names \in SUBSET Names :
          LET target == identifier_mapping[n] IN
          IF target = Undeclared
          THEN /\ outcome' = "nullptr"
               /\ UNCHANGED <<symbols, statements>>
          ELSE /\ symbols' = [symbols EXCEPT ![target].initialized = TRUE]
               /\ IF IsConstant(target)
                  THEN /\ outcome' = "nullptr"
                       /\ UNCHANGED statements
                  ELSE /\ statements' = Append(statements,
                             Statement("Assignment", target, names, symbols'))
                       /\ UNCHANGED outcome
    /\ UNCHANGED <<section, number_of, identifier_mapping, has_return_statement>>

(* Mutant of ReturnMissing: any list of statements is accepted. *)
ReturnMissing_Untested == FALSE
ReturnMissing == ~has_return_statement

(* The statement list, never empty by the grammar, ends. *)
FinishFunction ==
    /\ outcome = "analysing"
    /\ section = "statements"
    /\ statements # <<>>
    /\ outcome' = IF ReturnMissing THEN "nullptr" ELSE "FunctionNode"
    /\ UNCHANGED <<section, symbols, number_of, identifier_mapping, statements,
                   has_return_statement>>

AnalysisNext == \/ Declare \/ NextSection
                \/ AnalyzeReturn \/ AnalyzeAssignment \/ FinishFunction

-----------------------------------------------------------------------------
Symbol == [name : Names, type : SymbolTypes, initialized : BOOLEAN,
           constant_value : Values]

StatementNode == [type : {"ReturnStatement", "Assignment"}, target : Nat,
                  null : BOOLEAN, uses : SUBSET Nat]

AnalysisTypeOK ==
    /\ section \in Sections
    /\ symbols \in Seq(Symbol)
    /\ number_of \in [SymbolTypes -> Nat]
    /\ identifier_mapping \in [Names -> 0 .. Len(symbols)]
    /\ statements \in Seq(StatementNode)
    /\ has_return_statement \in BOOLEAN
    /\ outcome \in {"analysing", "nullptr", "FunctionNode"}

(* "Ordered: First all Params, then all Variables and then all constants"  *)
(* (symbol_table.hpp:30), as the three counters say: what constants_begin  *)
(* and the copy of the arguments into the ExecutionContext rely on.        *)
SymbolsOrdered ==
    LET parameters == number_of["PARAMETER"]
        variables  == number_of["VARIABLE"]
    IN /\ Len(symbols) = parameters + variables + number_of["CONSTANT"]
       /\ \A i \in 1 .. Len(symbols) :
             symbols[i].type = IF i <= parameters THEN "PARAMETER"
                               ELSE IF i <= parameters + variables THEN "VARIABLE"
                               ELSE "CONSTANT"
===============================================================================
