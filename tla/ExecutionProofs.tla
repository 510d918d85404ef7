---------------------------- MODULE ExecutionProofs ----------------------------
(***************************************************************************)
(* Theorems about the functions semantic analysis accepts and about their  *)
(* evaluation, for every set of names and values and any number of         *)
(* statements.                                                             *)
(*                                                                         *)
(* The properties of a call follow from what analysis established: Inv     *)
(* says which symbol each section may have added, what every statement may *)
(* mention, and where a call stands among the statements.                  *)
(***************************************************************************)
EXTENDS Execution, SequenceTheorems, TLAPS

(* Sections are analysed in order, statements last. *)
SectionInv ==
    /\ section = "PARAMETER" => number_of["VARIABLE"] = 0
    /\ section \in {"PARAMETER", "VARIABLE"} => number_of["CONSTANT"] = 0
    /\ section # "statements" => statements = <<>>
    /\ Len(statements) <= MaxStatements

Assigns(k, i) ==
    statements[k].type = "Assignment" /\ statements[k].target = i

(* What analysis lets into a statement: symbols of the table, no constant  *)
(* as a target, and no variable that no statement up to it assigns.        *)
StatementInv(k) ==
    /\ statements[k].uses \subseteq 1 .. Len(symbols)
    /\ statements[k].type = "Assignment" =>
          /\ statements[k].target \in 1 .. Len(symbols)
          /\ symbols[statements[k].target].type # "CONSTANT"
    /\ \A i \in statements[k].uses :
          symbols[i].type = "VARIABLE" => \E j \in 1 .. k : Assigns(j, i)

(* An initialised variable is one that some statement assigns. *)
InitializedInv ==
    \A i \in 1 .. Len(symbols) :
        symbols[i].type = "VARIABLE" /\ symbols[i].initialized =>
            \E j \in 1 .. Len(statements) : Assigns(j, i)

ReturnInv ==
    /\ outcome = "FunctionNode" => has_return_statement
    /\ has_return_statement /\ outcome # "nullptr" =>
          \E k \in 1 .. Len(statements) : statements[k].type = "ReturnStatement"

AnalysisInv ==
    /\ AnalysisTypeOK
    /\ SectionInv
    /\ SymbolsOrdered
    /\ \A k \in 1 .. Len(statements) : StatementInv(k)
    /\ InitializedInv
    /\ ReturnInv

(* A running call has executed the assignments before next, and nothing    *)
(* else.                                                                   *)
CallInv ==
    /\ status # "idle" => outcome = "FunctionNode"
    /\ outcome # "FunctionNode" => written = {}
    /\ Running =>
          /\ next \in 1 .. Len(statements) + 1
          /\ \A k \in 1 .. next - 1 :
                statements[k].type = "Assignment" /\ statements[k].target \in written

Inv == /\ AnalysisInv /\ TypeOK /\ CallInv /\ ConstantsKeepValue /\ NeverUnreachable
       /\ ArgumentsDelivered

-----------------------------------------------------------------------------
(* Facts about the symbol table's two updates. *)

(* insert adds one symbol behind the others. *)
LEMMA InsertFact ==
  ASSUME NEW table \in Seq(Symbol), NEW s \in Symbol
  PROVE  /\ Append(table, s) \in Seq(Symbol)
         /\ Len(Append(table, s)) = Len(table) + 1
         /\ \A i \in 1 .. Len(table) : Append(table, s)[i] = table[i]
         /\ Append(table, s)[Len(table) + 1] = s
  OBVIOUS

Initialize(table, h) == [table EXCEPT ![h].initialized = TRUE]

(* set_initialized changes one flag and nothing else. *)
LEMMA InitializeFact ==
  ASSUME NEW table \in Seq(Symbol), NEW h \in 1 .. Len(table)
  PROVE  LET new == Initialize(table, h) IN
         /\ new \in Seq(Symbol)
         /\ Len(new) = Len(table)
         /\ \A i \in 1 .. Len(table) :
               /\ new[i].type = table[i].type
               /\ new[i].constant_value = table[i].constant_value
               /\ i # h => new[i] = table[i]
<1>0. PICK new : new = Initialize(table, h)
  OBVIOUS
<1>1. table[h] \in Symbol
  OBVIOUS
<1>2. [table[h] EXCEPT !.initialized = TRUE] \in Symbol
  BY <1>1 DEF Symbol
<1>3. new = [table EXCEPT ![h] = [table[h] EXCEPT !.initialized = TRUE]]
  BY <1>0, Zenon DEF Initialize
<1>4. PICK s \in Symbol : s = [table[h] EXCEPT !.initialized = TRUE]
  BY <1>2
<1>5. new = [table EXCEPT ![h] = s]
  BY <1>3, <1>4
<1>6. /\ [table EXCEPT ![h] = s] \in Seq(Symbol)
      /\ Len([table EXCEPT ![h] = s]) = Len(table)
      /\ \A j \in 1 .. Len(table) :
            [table EXCEPT ![h] = s][j] = IF j = h THEN s ELSE table[j]
  BY ExceptSeq
<1>7. s.type = table[h].type /\ s.constant_value = table[h].constant_value
  BY <1>1, <1>4 DEF Symbol
<1>8. new \in Seq(Symbol) /\ Len(new) = Len(table)
  BY <1>5, <1>6, Zenon
<1>9. \A j \in 1 .. Len(table) : new[j] = IF j = h THEN s ELSE table[j]
  BY <1>5, <1>6, Zenon
<1> HIDE <1>3, <1>4, <1>5
<1> QED BY <1>0, <1>7, <1>8, <1>9

-----------------------------------------------------------------------------
(* Analysis, one lemma per action. *)

LEMMA AnalysisInitially == AnalysisInit => AnalysisInv
<1> SUFFICES ASSUME AnalysisInit PROVE AnalysisInv
  OBVIOUS
<1> USE ASTCreatorAssumption DEF AnalysisInit
<1>1. AnalysisTypeOK
  <2>1. Len(symbols) = 0 /\ symbols \in Seq(Symbol) /\ statements \in Seq(StatementNode)
    OBVIOUS
  <2>2. identifier_mapping \in [Names -> 0 .. Len(symbols)]
    BY <2>1 DEF Undeclared
  <2>3. number_of \in [SymbolTypes -> Nat]
    OBVIOUS
  <2> QED BY <2>1, <2>2, <2>3 DEF AnalysisTypeOK, Sections
<1>2. SectionInv /\ SymbolsOrdered
  BY DEF SectionInv, SymbolsOrdered, SymbolTypes
<1>3. \A k \in 1 .. Len(statements) : StatementInv(k)
  OBVIOUS
<1>4. InitializedInv /\ ReturnInv
  BY DEF InitializedInv, ReturnInv
<1> QED BY <1>1, <1>2, <1>3, <1>4 DEF AnalysisInv

(* A declaration adds a symbol of the section's type behind the others,    *)
(* while there are no statements yet.                                      *)
LEMMA DeclareStep == AnalysisInv /\ Declare => AnalysisInv'
<1> SUFFICES ASSUME AnalysisInv, Declare PROVE AnalysisInv'
  OBVIOUS
<1> USE DEF AnalysisInv
<1>1. PICK n \in Names, v \in Values :
         (section # "CONSTANT" => v = 0) /\ RegisterSymbol(n, section, v)
  BY DEF Declare
<1>2. /\ outcome = "analysing" /\ section \in SymbolTypes /\ statements = <<>>
      /\ UNCHANGED <<section, statements, has_return_statement>>
  BY DEF Declare, AnalysisTypeOK, SectionInv, Sections, SymbolTypes
<1>3. CASE identifier_mapping[n] # Undeclared
  <2>1. outcome' = "nullptr" /\ UNCHANGED <<symbols, number_of, identifier_mapping>>
    BY <1>1, <1>3 DEF RegisterSymbol
  <2> QED
    BY <1>2, <2>1
       DEF AnalysisTypeOK, SectionInv, SymbolsOrdered, StatementInv, Assigns,
           InitializedInv, ReturnInv
<1>4. CASE identifier_mapping[n] = Undeclared
  <2> DEFINE s == InsertedSymbol(n, section, v)
  <2>1. /\ symbols' = Append(symbols, s)
        /\ number_of' = [number_of EXCEPT ![section] = @ + 1]
        /\ identifier_mapping' = [identifier_mapping EXCEPT ![n] = Len(symbols')]
        /\ outcome' = outcome
    BY <1>1, <1>4 DEF RegisterSymbol
  <2>2. s \in Symbol /\ s.type = section /\ s.initialized = (section # "VARIABLE")
    BY <1>2 DEF InsertedSymbol, Symbol
  <2> HIDE DEF s
  <2>3. /\ symbols' \in Seq(Symbol) /\ Len(symbols') = Len(symbols) + 1
        /\ \A i \in 1 .. Len(symbols) : symbols'[i] = symbols[i]
        /\ symbols'[Len(symbols) + 1] = s
    BY <2>1, <2>2, InsertFact DEF AnalysisTypeOK
  <2>4. AnalysisTypeOK'
    BY <1>2, <2>1, <2>3 DEF AnalysisTypeOK
  <2>5. SectionInv'
    BY <1>2, <2>1 DEF SectionInv, AnalysisTypeOK, SymbolTypes
  <2>6. SymbolsOrdered'
    BY <1>2, <2>1, <2>2, <2>3
       DEF SymbolsOrdered, SectionInv, AnalysisTypeOK, SymbolTypes
  <2>7. (\A k \in 1 .. Len(statements) : StatementInv(k))'
    BY <1>2
  <2>8. InitializedInv'
    <3>1. Len(statements) = 0 /\ statements' = statements
      BY <1>2
    <3>2. \A i \in 1 .. Len(symbols) :
             ~(symbols[i].type = "VARIABLE" /\ symbols[i].initialized)
      BY <3>1 DEF InitializedInv
    <3>3. ~(s.type = "VARIABLE" /\ s.initialized)
      BY <2>2
    <3>4. ASSUME NEW i \in 1 .. Len(symbols')
          PROVE  ~(symbols'[i].type = "VARIABLE" /\ symbols'[i].initialized)
      <4>1. Len(symbols) \in Nat
        BY DEF AnalysisTypeOK
      <4>2. CASE i \in 1 .. Len(symbols)
        <5>1. symbols'[i] = symbols[i]
          BY <2>3, <4>2
        <5> QED BY <3>2, <4>2, <5>1, Zenon
      <4>3. CASE i = Len(symbols) + 1
        <5>1. symbols'[i] = s
          BY <2>3, <4>3
        <5> QED BY <3>3, <5>1, Zenon
      <4> QED BY <2>3, <4>1, <4>2, <4>3
    <3> QED BY <3>4 DEF InitializedInv
  <2>9. ReturnInv'
    BY <1>2, <2>1 DEF ReturnInv
  <2> QED BY <2>4, <2>5, <2>6, <2>7, <2>8, <2>9
<1> QED BY <1>3, <1>4

LEMMA NextSectionStep == AnalysisInv /\ NextSection => AnalysisInv'
<1> SUFFICES ASSUME AnalysisInv, NextSection PROVE AnalysisInv'
  OBVIOUS
<1> USE DEF AnalysisInv, NextSection
<1>1. \/ section = "PARAMETER" /\ section' = "VARIABLE"
      \/ section = "VARIABLE" /\ section' = "CONSTANT"
      \/ section = "CONSTANT" /\ section' = "statements"
  BY DEF Order
<1>2. AnalysisTypeOK' BY <1>1 DEF AnalysisTypeOK, Sections
<1>3. SectionInv' BY <1>1 DEF SectionInv
<1> QED
  BY <1>2, <1>3
     DEF SymbolsOrdered, StatementInv, Assigns, InitializedInv, ReturnInv

LEMMA FinishFunctionStep == AnalysisInv /\ FinishFunction => AnalysisInv'
<1> SUFFICES ASSUME AnalysisInv, FinishFunction PROVE AnalysisInv'
  OBVIOUS
<1> USE DEF AnalysisInv, FinishFunction, ReturnMissing
<1>1. AnalysisTypeOK' BY DEF AnalysisTypeOK
<1>2. SectionInv' BY DEF SectionInv
<1>3. SymbolsOrdered' BY DEF SymbolsOrdered
<1>4. (\A k \in 1 .. Len(statements) : StatementInv(k))'
  BY DEF StatementInv, Assigns
<1>5. InitializedInv' BY DEF InitializedInv, Assigns
<1>6. ReturnInv' BY DEF ReturnInv, AnalysisTypeOK
<1> QED BY <1>1, <1>2, <1>3, <1>4, <1>5, <1>6

(* A statement node is put behind the others. *)
LEMMA AddStatementFact ==
  ASSUME NEW list \in Seq(StatementNode), NEW s \in StatementNode
  PROVE  /\ Append(list, s) \in Seq(StatementNode)
         /\ Len(Append(list, s)) = Len(list) + 1
         /\ \A k \in 1 .. Len(list) : Append(list, s)[k] = list[k]
         /\ Append(list, s)[Len(list) + 1] = s
  OBVIOUS

(* Statements that were there keep their property when a statement is      *)
(* added and symbols change in their flag only.                            *)
LEMMA StatementKept ==
  ASSUME AnalysisInv, NEW k \in 1 .. Len(statements), statements'[k] = statements[k],
         \A j \in 1 .. k : statements'[j] = statements[j],
         Len(symbols') = Len(symbols),
         \A i \in 1 .. Len(symbols) : symbols'[i].type = symbols[i].type
  PROVE  StatementInv(k)'
<1> USE DEF AnalysisInv
<1>1. StatementInv(k)
  OBVIOUS
<1>2. ASSUME NEW i \in statements'[k].uses, symbols'[i].type = "VARIABLE"
      PROVE  \E j \in 1 .. k : Assigns(j, i)'
  <2>1. i \in 1 .. Len(symbols) /\ symbols[i].type = "VARIABLE"
    BY <1>1, <1>2 DEF StatementInv
  <2>2. PICK j \in 1 .. k : Assigns(j, i)
    BY <1>1, <1>2, <2>1 DEF StatementInv
  <2> QED BY <2>2 DEF Assigns
<1>3. statements'[k].uses \subseteq 1 .. Len(symbols')
  BY <1>1 DEF StatementInv
<1>4. ASSUME statements'[k].type = "Assignment"
      PROVE  /\ statements'[k].target \in 1 .. Len(symbols')
             /\ symbols'[statements'[k].target].type # "CONSTANT"
  BY <1>1, <1>4 DEF StatementInv
<1> QED BY <1>2, <1>3, <1>4 DEF StatementInv

(* The handles an analysable expression mentions are of initialised        *)
(* symbols, so every variable among them is assigned by some statement.    *)
LEMMA UsesAreAssigned ==
  ASSUME AnalysisInv, NEW names \in SUBSET Names, Analyzable(names, symbols)
  PROVE  /\ Handles(names) \subseteq 1 .. Len(symbols)
         /\ \A i \in Handles(names) :
               symbols[i].type = "VARIABLE" =>
                   \E j \in 1 .. Len(statements) : Assigns(j, i)
<1> USE DEF AnalysisInv
<1>1. ASSUME NEW i \in Handles(names)
      PROVE  i \in 1 .. Len(symbols) /\ symbols[i].initialized
  BY <1>1 DEF Handles, Analyzable, AnalysisTypeOK, Undeclared
<1> QED BY <1>1 DEF InitializedInv

LEMMA AnalyzeReturnStep == AnalysisInv /\ AnalyzeReturn => AnalysisInv'
<1> SUFFICES ASSUME AnalysisInv, AnalyzeReturn PROVE AnalysisInv'
  OBVIOUS
<1> USE DEF AnalysisInv, MoreStatements
<1>1. PICK names \in SUBSET Names :
        IF Analyzable(names, symbols)
        THEN /\ statements' = Append(statements,
                      Statement("ReturnStatement", NoTarget, names, symbols))
             /\ UNCHANGED outcome
        ELSE outcome' = "nullptr" /\ UNCHANGED statements
  BY DEF AnalyzeReturn
<1>2. /\ outcome = "analysing" /\ section = "statements"
      /\ Len(statements) < MaxStatements /\ has_return_statement' = TRUE
      /\ UNCHANGED <<section, symbols, number_of, identifier_mapping>>
  BY DEF AnalyzeReturn
<1>3. CASE ~Analyzable(names, symbols)
  BY <1>1, <1>2, <1>3
     DEF AnalysisTypeOK, SectionInv, SymbolsOrdered, StatementInv, Assigns,
         InitializedInv, ReturnInv
<1>4. CASE Analyzable(names, symbols)
  <2> DEFINE s == Statement("ReturnStatement", NoTarget, names, symbols)
  <2>1. Handles(names) \in SUBSET Nat
    BY DEF Handles, AnalysisTypeOK
  <2>2. /\ s \in StatementNode /\ s.type = "ReturnStatement"
        /\ s.uses = Handles(names)
    BY <1>4, <2>1 DEF Statement, StatementNode, NoTarget
  <2>3. statements' = Append(statements, s) /\ outcome' = outcome
    BY <1>1, <1>4
  <2> HIDE DEF s
  <2>4. /\ statements' \in Seq(StatementNode)
        /\ Len(statements') = Len(statements) + 1
        /\ \A k \in 1 .. Len(statements) : statements'[k] = statements[k]
        /\ statements'[Len(statements) + 1] = s
    BY <2>2, <2>3, AddStatementFact DEF AnalysisTypeOK
  <2>5. Len(statements) \in Nat
    BY DEF AnalysisTypeOK
  <2>6. AnalysisTypeOK'
    BY <1>2, <2>3, <2>4 DEF AnalysisTypeOK
  <2>7. SectionInv' /\ SymbolsOrdered'
    BY <1>2, <2>4, <2>5, ASTCreatorAssumption DEF SectionInv, SymbolsOrdered
  <2>8. ASSUME NEW k \in 1 .. Len(statements') PROVE StatementInv(k)'
    <3>1. CASE k \in 1 .. Len(statements)
      BY <1>2, <2>4, <2>5, <3>1, StatementKept
    <3>2. CASE k = Len(statements) + 1
      <4>1. statements'[k].uses = Handles(names) /\ statements'[k].type # "Assignment"
        BY <2>2, <2>4, <3>2
      <4>2. ASSUME NEW i \in Handles(names), symbols[i].type = "VARIABLE"
            PROVE  \E j \in 1 .. k : Assigns(j, i)'
        <5>1. PICK j \in 1 .. Len(statements) : Assigns(j, i)
          BY <1>4, <4>2, UsesAreAssigned
        <5> QED BY <2>4, <2>5, <3>2, <5>1 DEF Assigns
      <4>3. Handles(names) \subseteq 1 .. Len(symbols)
        BY <1>4, UsesAreAssigned
      <4> QED BY <1>2, <4>1, <4>2, <4>3 DEF StatementInv
    <3> QED BY <2>4, <2>5, <3>1, <3>2
  <2>9. InitializedInv'
    BY <1>2, <2>4, <2>5 DEF InitializedInv, Assigns
  <2>10. ReturnInv'
    BY <1>2, <2>2, <2>3, <2>4, <2>5 DEF ReturnInv
  <2> QED BY <2>6, <2>7, <2>8, <2>9, <2>10
<1> QED BY <1>3, <1>4

(* The target's flag is set first: it is the only new initialised symbol,  *)
(* and the statement that is added assigns it.                             *)
LEMMA AnalyzeAssignmentStep == AnalysisInv /\ AnalyzeAssignment => AnalysisInv'
<1> SUFFICES ASSUME AnalysisInv, AnalyzeAssignment PROVE AnalysisInv'
  OBVIOUS
<1> USE DEF AnalysisInv, MoreStatements
<1>1. PICK n \in Names, names \in SUBSET Names :
        IF identifier_mapping[n] = Undeclared
        THEN outcome' = "nullptr" /\ UNCHANGED <<symbols, statements>>
        ELSE /\ symbols' = [symbols EXCEPT ![identifier_mapping[n]].initialized = TRUE]
             /\ IF IsConstant(identifier_mapping[n])
                THEN outcome' = "nullptr" /\ UNCHANGED statements
                ELSE /\ statements' = Append(statements,
                            Statement("Assignment", identifier_mapping[n], names,
                                      symbols'))
                     /\ UNCHANGED outcome
  BY DEF AnalyzeAssignment
<1>2. /\ outcome = "analysing" /\ section = "statements"
      /\ Len(statements) < MaxStatements
      /\ UNCHANGED <<section, number_of, identifier_mapping, has_return_statement>>
  BY DEF AnalyzeAssignment
<1>3. CASE identifier_mapping[n] = Undeclared
  BY <1>1, <1>2, <1>3
     DEF AnalysisTypeOK, SectionInv, SymbolsOrdered, StatementInv, Assigns,
         InitializedInv, ReturnInv
<1>4. CASE identifier_mapping[n] # Undeclared
  <2>0. PICK target \in 1 .. Len(symbols) : target = identifier_mapping[n]
    BY <1>4 DEF AnalysisTypeOK, Undeclared
  <2>1. target \in 1 .. Len(symbols) /\ symbols \in Seq(Symbol)
    BY DEF AnalysisTypeOK
  <2>2. symbols' = Initialize(symbols, target)
    BY <1>1, <1>4, <2>0 DEF Initialize
  <2>3. /\ symbols' \in Seq(Symbol) /\ Len(symbols') = Len(symbols)
        /\ \A i \in 1 .. Len(symbols) :
              /\ symbols'[i].type = symbols[i].type
              /\ i # target => symbols'[i] = symbols[i]
    BY <2>1, <2>2, InitializeFact
  <2>4. SymbolsOrdered'
    BY <1>2, <2>3 DEF SymbolsOrdered
  <2>5. identifier_mapping' \in [Names -> 0 .. Len(symbols')]
    BY <1>2, <2>3 DEF AnalysisTypeOK
  <2>6. Len(statements) \in Nat /\ Len(symbols) \in Nat
    BY DEF AnalysisTypeOK
  <2>7. CASE IsConstant(target)
    <3>1. outcome' = "nullptr" /\ statements' = statements
      BY <1>1, <1>4, <2>0, <2>7
    <3>2. AnalysisTypeOK' /\ SectionInv' /\ ReturnInv'
      BY <1>2, <2>3, <2>5, <3>1 DEF AnalysisTypeOK, SectionInv, ReturnInv
    <3>3. (\A k \in 1 .. Len(statements) : StatementInv(k))'
      BY <2>3, <3>1, StatementKept
    <3>4. symbols'[target].type # "VARIABLE"
      BY <2>1, <2>3, <2>7 DEF IsConstant
    <3>5. InitializedInv'
      BY <2>3, <3>1, <3>4 DEF InitializedInv, Assigns
    <3> QED BY <2>4, <3>2, <3>3, <3>5
  <2>8. CASE ~IsConstant(target)
    <3> DEFINE s == Statement("Assignment", target, names, symbols')
    <3>1. statements' = Append(statements, s) /\ outcome' = outcome
      BY <1>1, <1>4, <2>0, <2>8
    <3>2. Handles(names) \in SUBSET Nat
      BY DEF Handles, AnalysisTypeOK
    <3>3. /\ s \in StatementNode /\ s.type = "Assignment" /\ s.target = target
          /\ s.uses = IF Analyzable(names, symbols') THEN Handles(names) ELSE {}
      BY <2>1, <3>2 DEF Statement, StatementNode
    <3> HIDE DEF s
    <3>4. /\ statements' \in Seq(StatementNode)
          /\ Len(statements') = Len(statements) + 1
          /\ \A k \in 1 .. Len(statements) : statements'[k] = statements[k]
          /\ statements'[Len(statements) + 1] = s
      BY <3>1, <3>3, AddStatementFact DEF AnalysisTypeOK
    <3>5. AnalysisTypeOK' /\ SectionInv'
      BY <1>2, <2>3, <2>5, <2>6, <3>1, <3>4, ASTCreatorAssumption
         DEF AnalysisTypeOK, SectionInv
    <3>6. \E j \in 1 .. Len(statements') : Assigns(j, target)'
      BY <2>6, <3>3, <3>4 DEF Assigns
    <3>7. InitializedInv'
      <4>1. ASSUME NEW i \in 1 .. Len(symbols), i # target,
                   symbols[i].type = "VARIABLE", symbols[i].initialized
            PROVE  \E j \in 1 .. Len(statements') : Assigns(j, i)'
        <5>1. PICK j \in 1 .. Len(statements) : Assigns(j, i)
          BY <4>1 DEF InitializedInv
        <5> QED BY <2>6, <3>4, <5>1 DEF Assigns
      <4> QED BY <2>3, <2>6, <3>4, <3>6, <4>1 DEF InitializedInv
    <3>8. ASSUME NEW k \in 1 .. Len(statements') PROVE StatementInv(k)'
      <4>1. CASE k \in 1 .. Len(statements)
        BY <2>3, <2>6, <3>4, <4>1, StatementKept
      <4>2. CASE k = Len(statements) + 1
        <5>1. /\ statements'[k] = s /\ k = Len(statements')
          BY <3>4, <4>2
        <5>2. symbols'[target].type # "CONSTANT" /\ target \in 1 .. Len(symbols')
          BY <2>1, <2>3, <2>8 DEF IsConstant
        <5>3. ASSUME NEW i \in s.uses
              PROVE  /\ i \in 1 .. Len(symbols')
                     /\ symbols'[i].type = "VARIABLE" =>
                           \E j \in 1 .. k : Assigns(j, i)'
          <6>1. i \in 1 .. Len(symbols') /\ symbols'[i].initialized
            BY <2>3, <3>3, <5>3 DEF Handles, Analyzable, AnalysisTypeOK, Undeclared
          <6> QED BY <3>7, <5>1, <6>1 DEF InitializedInv
        <5> QED BY <3>3, <5>1, <5>2, <5>3 DEF StatementInv
      <4> QED BY <2>6, <3>4, <4>1, <4>2
    <3>9. ReturnInv'
      <4>1. ASSUME has_return_statement, outcome # "nullptr"
            PROVE  \E k \in 1 .. Len(statements') : statements'[k].type = "ReturnStatement"
        <5>1. PICK k \in 1 .. Len(statements) : statements[k].type = "ReturnStatement"
          BY <4>1 DEF ReturnInv
        <5> QED BY <2>6, <3>4, <5>1
      <4> QED BY <1>2, <3>1, <4>1 DEF ReturnInv
    <3> QED BY <2>4, <3>5, <3>7, <3>8, <3>9
  <2> QED BY <2>7, <2>8
<1> QED BY <1>3, <1>4

LEMMA AnalysisStep == AnalysisInv /\ AnalysisNext => AnalysisInv'
  BY DeclareStep, NextSectionStep, AnalyzeReturnStep, AnalyzeAssignmentStep,
     FinishFunctionStep DEF AnalysisNext

-----------------------------------------------------------------------------
(* Calls. *)

(* A new context has a slot per symbol: the constants' hold their values,  *)
(* and with an argument for each parameter those of the parameters hold    *)
(* the arguments and those of the variables zero.                          *)
LEMMA ContextFact ==
  ASSUME AnalysisInv, NEW m \in 0 .. Len(symbols), NEW args \in [1 .. m -> Values]
  PROVE  /\ ContextOf(args) \in Seq(Values)
         /\ Len(ContextOf(args)) = Len(symbols)
         /\ Len(args) = m /\ args \in Seq(Values)
         /\ \A i \in 1 .. Len(symbols) :
               /\ symbols[i].type = "CONSTANT" =>
                     ContextOf(args)[i] = symbols[i].constant_value
               /\ m = number_of["PARAMETER"] =>
                     /\ symbols[i].type = "PARAMETER" => ContextOf(args)[i] = args[i]
                     /\ symbols[i].type = "VARIABLE" => ContextOf(args)[i] = 0
<1> USE DEF AnalysisInv
<1>1. /\ Len(symbols) \in Nat /\ symbols \in Seq(Symbol)
      /\ \A t \in SymbolTypes : number_of[t] \in Nat
  BY DEF AnalysisTypeOK
<1>2. Len(args) = m /\ args \in Seq(Values)
  BY <1>1
<1>3. ASSUME NEW i \in 1 .. Len(symbols) PROVE symbols[i].constant_value \in Values
  <2>1. symbols[i] \in Symbol
    BY <1>1
  <2> QED BY <2>1 DEF Symbol
<1>4. \A i \in 1 .. Len(symbols) :
         i \in ConstantSlots <=> symbols[i].type = "CONSTANT"
  BY <1>1 DEF ConstantSlots, SymbolsOrdered, SymbolTypes
<1>5. ContextOf(args) \in [1 .. Len(symbols) -> Values]
  BY <1>1, <1>2, <1>3, ASTCreatorAssumption DEF ContextOf
<1>6. ContextOf(args) \in Seq(Values) /\ Len(ContextOf(args)) = Len(symbols)
  BY <1>1, <1>5
<1>7. \A i \in 1 .. Len(symbols) :
         ContextOf(args)[i] = IF i \in ConstantSlots THEN symbols[i].constant_value
                              ELSE IF i <= Len(args) THEN args[i] ELSE 0
  BY DEF ContextOf
<1>8. \A i \in 1 .. Len(symbols) :
         /\ symbols[i].type = "PARAMETER" => i <= number_of["PARAMETER"]
         /\ symbols[i].type = "VARIABLE" => ~(i <= number_of["PARAMETER"])
  BY DEF SymbolsOrdered
<1>9. ASSUME NEW i \in 1 .. Len(symbols), m = number_of["PARAMETER"]
      PROVE  /\ symbols[i].type = "PARAMETER" => ContextOf(args)[i] = args[i]
             /\ symbols[i].type = "VARIABLE" => ContextOf(args)[i] = 0
  BY <1>2, <1>4, <1>7, <1>8, <1>9
<1> QED BY <1>2, <1>4, <1>6, <1>7, <1>9

LEMMA Initially == Init => Inv
<1> SUFFICES ASSUME Init PROVE Inv
  OBVIOUS
<1>1. AnalysisInv
  BY AnalysisInitially DEF Init
<1>2. TypeOK
  BY <1>1, ASTCreatorAssumption DEF Init, TypeOK, AnalysisInv
<1> QED
  BY <1>1, <1>2
     DEF Init, Inv, CallInv, Running, ConstantsKeepValue, NeverUnreachable,
         ArgumentsDelivered, AnalysisInit

(* While analysis runs there is no call. *)
LEMMA AnalyzeStep == Inv /\ Analyze => Inv'
<1> SUFFICES ASSUME Inv, Analyze PROVE Inv'
  OBVIOUS
<1>1. AnalysisInv'
  BY AnalysisStep DEF Inv, Analyze
<1>2. outcome = "analysing"
  BY DEF Analyze, AnalysisNext, Declare, NextSection, MoreStatements, AnalyzeReturn,
         AnalyzeAssignment, FinishFunction
<1>3. status = "idle" /\ written = {} /\ UNCHANGED call
  BY <1>2 DEF Inv, CallInv, Analyze
<1>4. TypeOK'
  BY <1>1, <1>3 DEF Inv, TypeOK, AnalysisInv, call
<1> QED
  BY <1>1, <1>3, <1>4
     DEF Inv, CallInv, Running, ConstantsKeepValue, NeverUnreachable,
         ArgumentsDelivered, call

(* Whatever leaves analysis alone leaves its invariant alone. *)
LEMMA AnalysisUnchanged == AnalysisInv /\ UNCHANGED analysis => AnalysisInv'
<1> SUFFICES ASSUME AnalysisInv, UNCHANGED analysis PROVE AnalysisInv'
  OBVIOUS
<1> USE DEF AnalysisInv, analysis
<1>1. AnalysisTypeOK' BY DEF AnalysisTypeOK
<1>2. SectionInv' BY DEF SectionInv
<1>3. SymbolsOrdered' BY DEF SymbolsOrdered
<1>4. (\A k \in 1 .. Len(statements) : StatementInv(k))'
  BY DEF StatementInv, Assigns
<1>5. InitializedInv' BY DEF InitializedInv, Assigns
<1>6. ReturnInv' BY DEF ReturnInv
<1> QED BY <1>1, <1>2, <1>3, <1>4, <1>5, <1>6

LEMMA CallFunctionStep == Inv /\ CallFunction => Inv'
<1> SUFFICES ASSUME Inv, CallFunction PROVE Inv'
  OBVIOUS
<1>1. AnalysisInv /\ AnalysisInv'
  BY AnalysisUnchanged DEF Inv, CallFunction
<1>2. PICK m \in Arities : \E args \in [1 .. m -> Values] :
         arguments' = args /\ context' = ContextOf(args)
  BY DEF CallFunction
<1>3. PICK args \in [1 .. m -> Values] :
         arguments' = args /\ context' = ContextOf(args)
  BY <1>2
<1>4. /\ outcome = "FunctionNode" /\ status' = "evaluating" /\ result' = NoValue
      /\ next' = 1 /\ written' = {} /\ UNCHANGED analysis
  BY DEF CallFunction
<1>5. m \in 0 .. Len(symbols)
  BY DEF Arities
<1>6. /\ context' \in Seq(Values) /\ Len(context') = Len(symbols)
      /\ Len(arguments') = m /\ arguments' \in Seq(Values)
      /\ \A i \in 1 .. Len(symbols) :
            /\ symbols[i].type = "CONSTANT" => context'[i] = symbols[i].constant_value
            /\ m = number_of["PARAMETER"] =>
                  /\ symbols[i].type = "PARAMETER" => context'[i] = arguments'[i]
                  /\ symbols[i].type = "VARIABLE" => context'[i] = 0
  BY <1>1, <1>3, <1>5, ContextFact
<1>7. TypeOK'
  BY <1>1, <1>4, <1>6, ASTCreatorAssumption DEF TypeOK, AnalysisInv, analysis
<1>8. Len(statements) \in Nat
  BY <1>1 DEF AnalysisInv, AnalysisTypeOK
<1>9. CallInv'
  BY <1>4, <1>5, <1>6, <1>8 DEF CallInv, Running, analysis
<1>10. ConstantsKeepValue' /\ NeverUnreachable'
  BY <1>4, <1>6 DEF ConstantsKeepValue, NeverUnreachable, analysis
<1>11. ArgumentsDelivered'
  BY <1>4, <1>6 DEF ArgumentsDelivered, analysis
<1> QED BY <1>1, <1>7, <1>9, <1>10, <1>11 DEF Inv

(* One statement of a call: only an assignment goes on, and it writes its  *)
(* target, which is no constant.                                           *)
LEMMA EvaluateStatementStep == Inv /\ EvaluateStatement => Inv'
<1> SUFFICES ASSUME Inv, EvaluateStatement PROVE Inv'
  OBVIOUS
<1>1. AnalysisInv /\ AnalysisInv' /\ AnalysisTypeOK /\ AnalysisTypeOK'
  BY AnalysisUnchanged DEF Inv, EvaluateStatement, AnalysisInv
<1>2. /\ Running /\ outcome = "FunctionNode" /\ next \in 1 .. Len(statements)
      /\ UNCHANGED analysis /\ UNCHANGED arguments
      /\ Len(context) = Len(symbols)
  BY <1>1 DEF EvaluateStatement, Inv, CallInv, TypeOK, Running, AnalysisTypeOK
<1>3. PICK value \in Values \cup {NoValue} :
         LET statement == statements[next]
             assigns == value # NoValue /\ statement.type = "Assignment"
         IN /\ status' = IF assigns THEN "evaluating" ELSE "idle"
            /\ next' = IF assigns THEN next + 1 ELSE next
            /\ context' = IF assigns
                          THEN [context EXCEPT ![statement.target] = value]
                          ELSE context
            /\ written' = IF assigns THEN written \cup {statement.target}
                                     ELSE written
            /\ result' = IF assigns THEN result ELSE value
  BY DEF EvaluateStatement
<1>4. CASE ~(value # NoValue /\ statements[next].type = "Assignment")
  <2>1. /\ status' = "idle" /\ result' = value
        /\ UNCHANGED <<next, context, written>>
    BY <1>3, <1>4
  <2>2. TypeOK'
    BY <1>1, <1>2, <2>1 DEF TypeOK, Inv, analysis
  <2> QED
    BY <1>1, <1>2, <2>1, <2>2
       DEF Inv, CallInv, Running, ConstantsKeepValue, NeverUnreachable,
           ArgumentsDelivered, analysis
<1>5. CASE value # NoValue /\ statements[next].type = "Assignment"
  <2>1. PICK target : target = statements[next].target
    OBVIOUS
  <2>2. /\ status' = "evaluating" /\ next' = next + 1 /\ result' = result
        /\ context' = [context EXCEPT ![target] = value]
        /\ written' = written \cup {target}
    BY <1>3, <1>5, <2>1
  <2>3. target \in 1 .. Len(symbols) /\ symbols[target].type # "CONSTANT"
    BY <1>1, <1>2, <1>5, <2>1 DEF AnalysisInv, StatementInv
  <2>4. value \in Values /\ context \in Seq(Values)
    BY <1>5 DEF Inv, TypeOK
  <2>5. /\ context' \in Seq(Values) /\ Len(context') = Len(context)
        /\ \A i \in 1 .. Len(context) :
              context'[i] = IF i = target THEN value ELSE context[i]
    BY <1>2, <2>2, <2>3, <2>4, ExceptSeq
  <2>6. Len(statements) \in Nat /\ Len(statements) <= MaxStatements
    BY <1>1 DEF AnalysisInv, SectionInv, AnalysisTypeOK
  <2>7. TypeOK'
    <3>1. written' \subseteq 1 .. Len(symbols')
      BY <1>2, <2>2, <2>3 DEF TypeOK, Inv, analysis
    <3>2. next' \in 1 .. MaxStatements + 1
      BY <1>2, <2>2, <2>6, ASTCreatorAssumption
    <3>3. Len(context') = Len(symbols')
      BY <1>2, <2>5 DEF analysis
    <3>4. result' \in Values \cup {NoValue} /\ arguments' \in Seq(Values)
      BY <1>2, <2>2 DEF TypeOK, Inv
    <3> QED BY <1>1, <2>2, <2>5, <3>1, <3>2, <3>3, <3>4 DEF TypeOK
  <2>8. CallInv'
    BY <1>2, <1>5, <2>1, <2>2, <2>6 DEF CallInv, Inv, Running, analysis
  <2>9. ConstantsKeepValue' /\ NeverUnreachable'
    BY <1>2, <2>2, <2>3, <2>5
       DEF ConstantsKeepValue, NeverUnreachable, Inv, Running, analysis
  <2>10. ArgumentsDelivered'
    BY <1>2, <2>2, <2>5 DEF ArgumentsDelivered, Inv, Running, analysis
  <2> QED BY <1>1, <2>7, <2>8, <2>9, <2>10 DEF Inv
<1> QED BY <1>4, <1>5

(* The loop does not run out of statements: one of them is a return, and   *)
(* those before next are assignments.                                      *)
LEMMA EvaluationStopsStep == Inv /\ EvaluationStops => Inv'
<1> SUFFICES ASSUME Inv, EvaluationStops PROVE Inv'
  OBVIOUS
<1>1. AnalysisInv /\ AnalysisInv' /\ AnalysisTypeOK /\ AnalysisTypeOK'
  BY AnalysisUnchanged DEF Inv, EvaluationStops, AnalysisInv
<1>2. /\ Running /\ outcome = "FunctionNode" /\ next \in 1 .. Len(statements) + 1
  BY DEF EvaluationStops, Inv, CallInv, Running
<1>3. PICK k \in 1 .. Len(statements) : statements[k].type = "ReturnStatement"
  BY <1>1, <1>2 DEF AnalysisInv, ReturnInv
<1>4. ~(k \in 1 .. next - 1)
  BY <1>2, <1>3 DEF Inv, CallInv
<1>5. next <= Len(statements)
  BY <1>1, <1>2, <1>4 DEF AnalysisTypeOK
<1>6. /\ status' = "null dereference"
      /\ UNCHANGED <<analysis, context, result, next, arguments, written>>
  BY <1>5 DEF EvaluationStops
<1>7. TypeOK'
  BY <1>1, <1>2, <1>6 DEF TypeOK, Inv, analysis, Running
<1> QED
  BY <1>1, <1>2, <1>6, <1>7
     DEF Inv, CallInv, Running, ConstantsKeepValue, NeverUnreachable,
         ArgumentsDelivered, analysis

LEMMA Stutter == Inv /\ UNCHANGED vars => Inv'
<1> SUFFICES ASSUME Inv, UNCHANGED vars PROVE Inv'
  OBVIOUS
<1>1. AnalysisInv'
  BY AnalysisUnchanged DEF Inv, vars
<1>2. TypeOK'
  BY <1>1 DEF Inv, TypeOK, AnalysisInv, vars, call, analysis
<1> QED
  BY <1>1, <1>2
     DEF Inv, CallInv, Running, ConstantsKeepValue, NeverUnreachable,
         ArgumentsDelivered, vars, call, analysis

(* Inv is an inductive invariant of Execution. *)
THEOREM Invariance == Spec => []Inv
<1>1. Init => Inv
  BY Initially
<1>2. Inv /\ [Next]_vars => Inv'
  BY AnalyzeStep, CallFunctionStep, EvaluateStatementStep, EvaluationStopsStep,
     Stutter DEF Next
<1> QED BY <1>1, <1>2, PTL DEF Spec

-----------------------------------------------------------------------------
(* The properties. *)

(* Every variable of the analysis and of a call keeps its type; a context  *)
(* has a slot for each symbol.                                             *)
THEOREM TypeCorrect == Spec => []TypeOK
<1>1. Inv => TypeOK
  BY DEF Inv
<1> QED BY <1>1, Invariance, PTL

(* The symbol table holds parameters, then variables, then constants, as   *)
(* many of each as its counters say.                                       *)
THEOREM TableIsOrdered == Spec => []SymbolsOrdered
<1>1. Inv => SymbolsOrdered
  BY DEF Inv, AnalysisInv
<1> QED BY <1>1, Invariance, PTL

(* No call changes a constant, also one with the wrong number of arguments.*)
THEOREM ConstantsAreConstant == Spec => []ConstantsKeepValue
<1>1. Inv => ConstantsKeepValue
  BY DEF Inv
<1> QED BY <1>1, Invariance, PTL

(* In a call with an argument for each parameter, a parameter that has not *)
(* been assigned holds the caller's argument, and a variable zero.         *)
THEOREM ArgumentsArrive == Spec => []ArgumentsDelivered
<1>1. Inv => ArgumentsDelivered
  BY DEF Inv
<1> QED BY <1>1, Invariance, PTL

(* An accepted function's call ends in a return statement or without a     *)
(* value, never behind its last statement.                                 *)
THEOREM CallsReturn == Spec => []NeverUnreachable
<1>1. Inv => NeverUnreachable
  BY DEF Inv
<1> QED BY <1>1, Invariance, PTL

(* A statement reads no variable that neither a statement before it in     *)
(* this call nor the statement itself assigns.                             *)
THEOREM ReadsFollowWrites == Spec => []ReadsAreInitialized
<1>1. Inv => ReadsAreInitialized
  <2> SUFFICES ASSUME Inv, Running, next <= Len(statements),
                      NEW i \in statements[next].uses,
                      i \notin written, i # statements[next].target
               PROVE  symbols[i].type # "VARIABLE"
    BY DEF ReadsAreInitialized
  <2>1. Len(statements) \in Nat
    BY DEF Inv, AnalysisInv, AnalysisTypeOK
  <2>2. next \in 1 .. Len(statements) /\ StatementInv(next)
    BY <2>1 DEF Inv, AnalysisInv, CallInv
  <2>3. ASSUME symbols[i].type = "VARIABLE" PROVE FALSE
    <3>1. PICK j \in 1 .. next : Assigns(j, i)
      BY <2>2, <2>3 DEF StatementInv
    <3>2. CASE j = next
      BY <3>1, <3>2 DEF Assigns
    <3>3. CASE j \in 1 .. next - 1
      BY <3>1, <3>3 DEF Assigns, Inv, CallInv
    <3> QED BY <2>2, <3>2, <3>3
  <2> QED BY <2>3
<1> QED BY <1>1, Invariance, PTL
===============================================================================
