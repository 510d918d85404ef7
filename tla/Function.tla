------------------------------- MODULE Function -------------------------------
(***************************************************************************)
(* class Function: one registered PL function, compiled lazily by whichever *)
(* thread calls it first and evaluated by every caller afterwards.         *)
(*                                                                         *)
(* operator() tests ast and compilation_failed WITHOUT the mutex and enters *)
(* compile() when both are unset; compile() takes compilation_mutex, tests *)
(* ast again (but not compilation_failed) and runs lexer, parser and       *)
(* ASTCreator.  Every read and write of a shared member is a step of its   *)
(* own, so the model has every interleaving of the callers.                *)
(*                                                                         *)
(* The unlocked read of ast is a data race.  Its outcome on the machine is *)
(* modelled: the pointer may become visible to another thread before the   *)
(* nodes it points to do, unless stores become visible in program order    *)
(* (TotalStoreOrder) or the reader synchronises through the mutex.         *)
(***************************************************************************)
EXTENDS Naturals, FiniteSets

CONSTANTS Threads,          \* the threads that hold a function_handle
          Args,             \* the argument tuples they pass
          Results,          \* what one evaluation can produce
          Evaluate,         \* Evaluate[a]: what the AST computes for a
          Nullopt,          \* an ExecutionContext without a result
          Exception,        \* the call left through std::runtime_error
          Undefined,        \* the outcome of evaluating unpublished nodes
          NoArg,            \* no call is in progress
          NoResult,         \* the call in progress has no answer yet
          NoThread,         \* compilation_mutex is free
          Debug,            \* TRUE: built without NDEBUG
          TotalStoreOrder   \* TRUE: other threads see stores in order

ASSUME FunctionAssumption ==
    /\ Nullopt \in Results
    /\ Evaluate \in [Args -> Results]
    /\ Exception \notin Results
    /\ NoArg \notin Args
    /\ NoResult \notin Results \cup {Exception, Undefined}
    /\ Undefined \notin Results \cup {Exception}
    /\ NoThread \notin Threads
    /\ Debug \in BOOLEAN
    /\ TotalStoreOrder \in BOOLEAN

VARIABLES
    source_code,         \* how the source text fares in the compiler
    ast,                 \* 0: nullptr, else the number of the compilation
                         \* that built the AST ast points to
    compilation_failed,
    compilation_passed,  \* member of a debug build, history variable otherwise
    compilation_mutex,   \* the thread that holds it, or NoThread
    nodes_visible,       \* the threads that see the nodes behind ast
    pc,                  \* where each thread is in operator() and compile()
    arg,                 \* the argument of each thread's call
    node,                \* the AST a thread is evaluating, 0 when none
    result               \* the ExecutionContext operator() hands back

shared == <<source_code, ast, compilation_failed, compilation_passed,
            compilation_mutex, nodes_visible>>
locals == <<arg, node, result>>
vars == <<shared, pc, locals>>

Sources == {"valid", "syntax_error", "semantic_error"}

(* Program points at which the thread holds compilation_mutex. *)
Compiling == {"compile", "parse", "create_ast", "set_failed", "check_passes",
              "unlock", "unwind"}

ProgramPoints == Compiling \cup {"idle", "read_ast", "read_failed", "lock",
                                 "test_failed", "call_impl", "evaluate",
                                 "return"}

Init ==
    /\ source_code \in Sources
    /\ ast = 0
    /\ compilation_failed = FALSE
    /\ compilation_passed = 0
    /\ compilation_mutex = NoThread
    /\ nodes_visible = {}
    /\ pc = [t \in Threads |-> "idle"]
    /\ arg = [t \in Threads |-> NoArg]
    /\ node = [t \in Threads |-> 0]
    /\ result = [t \in Threads |-> NoResult]

Goto(t, from, to) == pc[t] = from /\ pc' = [pc EXCEPT ![t] = to]

-----------------------------------------------------------------------------
(* operator(): the double-checked test, the call of compile(), the answer. *)

(* Mutant of Call: operator() does not forward its arguments. *)
Call_NoForward(t) ==
    /\ Goto(t, "idle", "read_ast")
    /\ UNCHANGED <<shared, locals>>

Call(t) ==
    /\ Goto(t, "idle", "read_ast")
    /\ \E a \in Args : arg' = [arg EXCEPT ![t] = a]
    /\ UNCHANGED <<shared, node, result>>

(* Mutant of ReadAst: a compiled function is looked up under the mutex. *)
ReadAst_Locks(t) ==
    /\ Goto(t, "read_ast", IF ast = 0 THEN "read_failed" ELSE "lock")
    /\ UNCHANGED <<shared, locals>>

ReadAst(t) ==
    /\ Goto(t, "read_ast", IF ast = 0 THEN "read_failed" ELSE "test_failed")
    /\ UNCHANGED <<shared, locals>>

(* Mutant of ReadFailed: the test reads "if (!ast)" only. *)
ReadFailed_AstOnly(t) ==
    /\ Goto(t, "read_failed", "lock")
    /\ UNCHANGED <<shared, locals>>

ReadFailed(t) ==
    /\ Goto(t, "read_failed",
            IF compilation_failed THEN "test_failed" ELSE "lock")
    /\ UNCHANGED <<shared, locals>>

(* The test after compile() has returned, or was not needed; and its mutant: *)
(* the test is dropped.                                                    *)
CallFails_Never == FALSE
CallFails == compilation_failed

TestFailed(t) ==
    /\ Goto(t, "test_failed", IF CallFails THEN "return" ELSE "call_impl")
    /\ result' = IF CallFails
                 THEN [result EXCEPT ![t] = Nullopt] ELSE result
    /\ UNCHANGED <<shared, arg, node>>

(* call_impl dereferences ast for the symbol table and the evaluation. *)
CallImpl(t) ==
    /\ Goto(t, "call_impl", "evaluate")
    /\ node' = [node EXCEPT ![t] = ast]
    /\ UNCHANGED <<shared, arg, result>>

EvaluateAst(t) ==
    /\ Goto(t, "evaluate", "return")
    /\ result' = [result EXCEPT ![t] =
                     IF node[t] # 0 /\ t \in nodes_visible
                     THEN Evaluate[arg[t]] ELSE Undefined]
    /\ node' = [node EXCEPT ![t] = 0]
    /\ UNCHANGED <<shared, arg>>

Return(t) ==
    /\ Goto(t, "return", "idle")
    /\ arg' = [arg EXCEPT ![t] = NoArg]
    /\ result' = [result EXCEPT ![t] = NoResult]
    /\ UNCHANGED <<shared, node>>

-----------------------------------------------------------------------------
(* compile(). *)

(* The mutex excludes; its mutant: no lock is taken. *)
MutexFree_Ignored == TRUE
MutexFree == compilation_mutex = NoThread

(* Acquiring the mutex makes what its last owner wrote visible. *)
Lock(t) ==
    /\ Goto(t, "lock", "compile")
    /\ MutexFree
    /\ compilation_mutex' = t
    /\ nodes_visible' = IF ast = 0 THEN nodes_visible
                                   ELSE nodes_visible \cup {t}
    /\ UNCHANGED <<source_code, ast, compilation_failed, compilation_passed,
                   locals>>

(* The second test, under the mutex: ast only.  Mutant: it is dropped. *)
AlreadyCompiled_Untested == FALSE
AlreadyCompiled == ast # 0

(* Mutant of Compile: each compilation starts by clearing the failure. *)
Compile_ClearsFailure(t) ==
    /\ Goto(t, "compile", IF AlreadyCompiled THEN "unlock" ELSE "parse")
    /\ compilation_passed' = IF AlreadyCompiled THEN compilation_passed
                                                ELSE compilation_passed + 1
    /\ compilation_failed' = FALSE
    /\ UNCHANGED <<source_code, ast, compilation_mutex, nodes_visible, locals>>

Compile(t) ==
    /\ Goto(t, "compile", IF AlreadyCompiled THEN "unlock" ELSE "parse")
    /\ compilation_passed' = IF AlreadyCompiled THEN compilation_passed
                                                ELSE compilation_passed + 1
    /\ UNCHANGED <<source_code, ast, compilation_failed, compilation_mutex,
                   nodes_visible, locals>>

Parse(t) ==
    /\ Goto(t, "parse",
            IF source_code = "syntax_error" THEN "unlock" ELSE "create_ast")
    /\ compilation_failed' = (compilation_failed \/ source_code = "syntax_error")
    /\ UNCHANGED <<source_code, ast, compilation_passed, compilation_mutex,
                   nodes_visible, locals>>

(* ast = ASTCreator::CreateAST(...): nullptr for a semantic error. *)
CreateAst(t) ==
    /\ Goto(t, "create_ast", "set_failed")
    /\ ast' = IF source_code = "valid" THEN compilation_passed ELSE 0
    /\ nodes_visible' = CASE source_code # "valid" -> {}
                          [] TotalStoreOrder       -> Threads
                          [] OTHER                 -> {t}
    /\ UNCHANGED <<source_code, compilation_failed, compilation_passed,
                   compilation_mutex, locals>>

(* Mutant of SetFailed: "if (!ast) compilation_failed = true" is missing. *)
SetFailed_Missing(t) ==
    /\ Goto(t, "set_failed", "check_passes")
    /\ UNCHANGED <<shared, locals>>

SetFailed(t) ==
    /\ Goto(t, "set_failed", "check_passes")
    /\ compilation_failed' = (compilation_failed \/ ast = 0)
    /\ UNCHANGED <<source_code, ast, compilation_passed, compilation_mutex,
                   nodes_visible, locals>>

(* #ifndef NDEBUG: a second compilation is an error. *)
CheckPasses(t) ==
    /\ Goto(t, "check_passes",
            IF Debug /\ compilation_passed > 1 THEN "unwind" ELSE "unlock")
    /\ UNCHANGED <<shared, locals>>

(* Mutant of Unlock: an early return that keeps the mutex. *)
Unlock_Forgotten(t) ==
    /\ Goto(t, "unlock", "test_failed")
    /\ UNCHANGED <<shared, locals>>

Unlock(t) ==
    /\ Goto(t, "unlock", "test_failed")
    /\ compilation_mutex' = NoThread
    /\ UNCHANGED <<source_code, ast, compilation_failed, compilation_passed,
                   nodes_visible, locals>>

(* The exception releases the lock and leaves through operator(). *)
Unwind(t) ==
    /\ Goto(t, "unwind", "return")
    /\ compilation_mutex' = NoThread
    /\ result' = [result EXCEPT ![t] = Exception]
    /\ UNCHANGED <<source_code, ast, compilation_failed, compilation_passed,
                   nodes_visible, arg, node>>

-----------------------------------------------------------------------------
(* The machine makes the nodes visible to one more thread. *)
Propagate(t) ==
    /\ ast # 0
    /\ t \notin nodes_visible
    /\ nodes_visible' = nodes_visible \cup {t}
    /\ UNCHANGED <<source_code, ast, compilation_failed, compilation_passed,
                   compilation_mutex, pc, locals>>

Operator(t) == \/ ReadAst(t) \/ ReadFailed(t) \/ TestFailed(t)
               \/ CallImpl(t) \/ EvaluateAst(t) \/ Return(t)

CompileStep(t) == \/ Lock(t) \/ Compile(t) \/ Parse(t) \/ CreateAst(t)
                  \/ SetFailed(t) \/ CheckPasses(t) \/ Unlock(t) \/ Unwind(t)

Next == \E t \in Threads :
            Call(t) \/ Operator(t) \/ CompileStep(t) \/ Propagate(t)

(* A thread inside a call keeps running (the operating system schedules    *)
(* it); nothing forces a thread to call.  The mutex is not assumed fair:   *)
(* weak fairness of Lock(t) only lets a thread in when the mutex stays free.*)
Fairness == \A t \in Threads : WF_vars(Operator(t) \/ CompileStep(t))

Spec == Init /\ [][Next]_vars /\ Fairness

-----------------------------------------------------------------------------
TypeOK ==
    /\ source_code \in Sources
    /\ compilation_passed \in Nat
    /\ ast \in 0 .. compilation_passed
    /\ compilation_failed \in BOOLEAN
    /\ compilation_mutex \in Threads \cup {NoThread}
    /\ nodes_visible \subseteq Threads
    /\ pc \in [Threads -> ProgramPoints]
    /\ arg \in [Threads -> Args \cup {NoArg}]
    /\ node \in [Threads -> Nat]
    /\ result \in [Threads -> Results \cup {Exception, Undefined, NoResult}]
    /\ \A t \in Threads : pc[t] # "idle" => arg[t] \in Args

(* call_impl dereferences ast without testing it: every path to it, fast    *)
(* or through compile(), must have left a non-null ast (Pljit.hpp:41-46).   *)
NoNullDereference ==
    \A t \in Threads : pc[t] = "call_impl" => ast # 0

(* The AST a thread is evaluating is still the one ast owns: no other      *)
(* thread's compile() has replaced, and so freed, it (Pljit.cpp:13,32).    *)
NoUseAfterFree ==
    \A t \in Threads : pc[t] = "evaluate" => node[t] = ast

(* A valid function is compiled at most once however many threads race for *)
(* the first call: what compilation_passed is there to check (Pljit.cpp:37).*)
CompiledOnce ==
    source_code = "valid" => compilation_passed <= 1

(* An invalid function is compiled at most once per thread: only a thread  *)
(* that read compilation_failed before it was set can compile again.       *)
RecompilesBounded ==
    compilation_passed <= Cardinality(Threads)

(* The outcome of a compilation is final: once a caller could see an AST   *)
(* or a failure, no later compilation changes it (Pljit.cpp:28-34).        *)
OutcomeIsFinal ==
    [][ast # 0 \/ compilation_failed
         => UNCHANGED <<ast, compilation_failed>>]_vars

(* The debug check of Pljit.cpp:36-40 states that a function is never      *)
(* compiled several times.                                                 *)
NeverCompiledTwice ==
    \A t \in Threads : result[t] # Exception

(* The abstract service, and how its state is read off this one. *)
Service == INSTANCE FunctionService
    WITH status <- [t \in Threads |->
                      CASE pc[t] = "idle"   -> "idle"
                        [] pc[t] = "return" -> "answered"
                        [] OTHER            -> "called"]

(* A call is answered with what the source means for its own argument:     *)
(* neither a failed compilation nor another thread's call shows through    *)
(* (the results test/TestInterface.cpp expects of 1024 threads).           *)
AnswersCorrect ==
    \A t \in Threads : pc[t] = "return" => result[t] \in Service!Answers(arg[t])

(* Function implements the service its callers rely on: each step of it is *)
(* a call, an answer the source allows, a return, or invisible.            *)
ImplementsService == Service!Safety

(* Every call that starts returns, whatever the other callers do and       *)
(* although the mutex need not be fair (Pljit.hpp:38-47).                  *)
EveryCallReturns ==
    \A t \in Threads : pc[t] # "idle" ~> pc[t] = "idle"

(* After finitely many compilations no caller takes the mutex again, which *)
(* is what keeps a waiting thread from starving behind an unfair mutex.    *)
EventuallyLockFree ==
    <>[](\A t \in Threads : pc[t] \notin Compiling \cup {"lock"})
===============================================================================
