---------------------------- MODULE FunctionProofs ----------------------------
(***************************************************************************)
(* Theorems about Function for every set of threads, every set of          *)
(* arguments and every evaluation function, and about Pljit, for every     *)
(* number of functions too.                                                *)
(*                                                                         *)
(* None of the properties is inductive by itself: what a thread may rely   *)
(* on at a program point depends on the tests it passed to get there and   *)
(* on the mutex keeping the others out of compile().  Inv adds that.       *)
(***************************************************************************)
EXTENDS Pljit, FiniteSetTheorems, TLAPS

(* The mutex is owned exactly while its owner is inside compile(). *)
LockInv ==
    \A t \in Threads : pc[t] \in Compiling <=> compilation_mutex = t

(* The two outcomes of a compilation exclude each other. *)
OutcomeInv ==
    /\ ast # 0 => source_code = "valid"
    /\ compilation_failed => source_code # "valid"

(* What a thread may rely on at each program point. *)
PathInv(t) ==
    /\ pc[t] \in {"parse", "create_ast"} => ast = 0 /\ compilation_passed >= 1
    /\ pc[t] \in {"create_ast", "set_failed", "check_passes", "unwind"}
         => source_code # "syntax_error"
    /\ pc[t] = "set_failed" => (ast # 0 <=> source_code = "valid")
    /\ pc[t] \in {"check_passes", "unlock", "test_failed"}
         => ast # 0 \/ compilation_failed
    /\ pc[t] = "unwind" => Debug /\ compilation_failed
    /\ pc[t] = "call_impl" => ast # 0
    /\ pc[t] = "evaluate" => ast # 0 /\ node[t] = ast

(* A valid source has been compiled once exactly when its AST exists or    *)
(* some thread is building it.                                             *)
CountInv ==
    source_code = "valid" =>
        /\ compilation_passed <= 1
        /\ ast = 0 /\ (\A t \in Threads : pc[t] \notin {"parse", "create_ast"})
             => compilation_passed = 0

(* With ordered stores a published AST is visible to everyone. *)
VisibleInv == ast # 0 => nodes_visible = Threads

(* No answer before the return, and no argument outside a call. *)
CallInv ==
    \A t \in Threads : /\ pc[t] # "return" => result[t] = NoResult
                       /\ pc[t] = "idle" => arg[t] = NoArg

Inv == /\ TypeOK
       /\ LockInv
       /\ OutcomeInv
       /\ \A t \in Threads : PathInv(t)
       /\ CountInv

-----------------------------------------------------------------------------
(* Initially no thread is inside a call and nothing is compiled. *)
LEMMA InitInv == Init => Inv
<1> SUFFICES ASSUME Init PROVE Inv
  OBVIOUS
<1> USE DEF Init
<1>1. TypeOK
  <2>1. pc \in [Threads -> ProgramPoints] BY DEF ProgramPoints
  <2>2. ast \in 0 .. compilation_passed OBVIOUS
  <2> QED BY <2>1, <2>2 DEF TypeOK
<1>2. LockInv BY FunctionAssumption DEF LockInv, Compiling
<1>3. OutcomeInv BY DEF OutcomeInv
<1>4. \A t \in Threads : PathInv(t) BY DEF PathInv
<1>5. CountInv BY DEF CountInv
<1> QED BY <1>1, <1>2, <1>3, <1>4, <1>5 DEF Inv

(* The type invariant, one step per action. *)
LEMMA NextTypeOK == TypeOK /\ [Next]_vars => TypeOK'
<1> SUFFICES ASSUME TypeOK, [Next]_vars PROVE TypeOK'
  OBVIOUS
<1> USE FunctionAssumption DEF TypeOK, Goto, ProgramPoints, Compiling, Sources,
        shared, locals, AlreadyCompiled, CallFails, MutexFree
<1>1. ASSUME NEW t \in Threads, Call(t) PROVE TypeOK'
  BY <1>1 DEF Call
<1>2. ASSUME NEW t \in Threads, Operator(t) PROVE TypeOK'
  <2>1. CASE ReadAst(t) BY <2>1 DEF ReadAst
  <2>2. CASE ReadFailed(t) BY <2>2 DEF ReadFailed
  <2>3. CASE TestFailed(t) BY <2>3 DEF TestFailed
  <2>4. CASE CallImpl(t) BY <2>4 DEF CallImpl
  <2>5. CASE EvaluateAst(t)
    <3>1. pc[t] = "evaluate" /\ arg[t] \in Args BY <2>5 DEF EvaluateAst
    <3>2. Evaluate[arg[t]] \in Results BY <3>1
    <3> QED BY <2>5, <3>2 DEF EvaluateAst
  <2>6. CASE Return(t) BY <2>6 DEF Return
  <2> QED BY <1>2, <2>1, <2>2, <2>3, <2>4, <2>5, <2>6 DEF Operator
<1>3. ASSUME NEW t \in Threads, CompileStep(t) PROVE TypeOK'
  <2>1. CASE Lock(t) BY <2>1 DEF Lock
  <2>2. CASE Compile(t) BY <2>2 DEF Compile
  <2>3. CASE Parse(t) BY <2>3 DEF Parse
  <2>4. CASE CreateAst(t) BY <2>4 DEF CreateAst
  <2>5. CASE SetFailed(t) BY <2>5 DEF SetFailed
  <2>6. CASE CheckPasses(t) BY <2>6 DEF CheckPasses
  <2>7. CASE Unlock(t) BY <2>7 DEF Unlock
  <2>8. CASE Unwind(t) BY <2>8 DEF Unwind
  <2> QED BY <1>3, <2>1, <2>2, <2>3, <2>4, <2>5, <2>6, <2>7, <2>8 DEF CompileStep
<1>4. ASSUME NEW t \in Threads, Propagate(t) PROVE TypeOK'
  BY <1>4 DEF Propagate
<1>5. CASE UNCHANGED vars BY <1>5 DEF vars
<1> QED BY <1>1, <1>2, <1>3, <1>4, <1>5 DEF Next

(* A step of one thread preserves the rest of Inv: its own program point   *)
(* moves along a path that establishes PathInv, and a thread inside        *)
(* compile() is alone there.                                               *)
LEMMA NextInv == Inv /\ [Next]_vars => Inv'
<1> SUFFICES ASSUME Inv, [Next]_vars PROVE Inv'
  OBVIOUS
<1>0. TypeOK' BY NextTypeOK DEF Inv
<1> USE <1>0, FunctionAssumption
        DEF Inv, TypeOK, LockInv, OutcomeInv, PathInv, CountInv, Goto,
            Compiling, Sources, shared, locals, AlreadyCompiled, CallFails,
            MutexFree
<1>1. ASSUME NEW t \in Threads, Call(t) PROVE Inv'
  BY <1>1 DEF Call
<1>2. ASSUME NEW t \in Threads, Operator(t) PROVE Inv'
  <2>1. CASE ReadAst(t) BY <2>1 DEF ReadAst
  <2>2. CASE ReadFailed(t) BY <2>2 DEF ReadFailed
  <2>3. CASE TestFailed(t) BY <2>3 DEF TestFailed
  <2>4. CASE CallImpl(t) BY <2>4 DEF CallImpl
  <2>5. CASE EvaluateAst(t) BY <2>5 DEF EvaluateAst
  <2>6. CASE Return(t) BY <2>6 DEF Return
  <2> QED BY <1>2, <2>1, <2>2, <2>3, <2>4, <2>5, <2>6 DEF Operator
<1>3. ASSUME NEW t \in Threads, CompileStep(t) PROVE Inv'
  <2>1. CASE Lock(t) BY <2>1 DEF Lock
  <2>2. CASE Compile(t) BY <2>2 DEF Compile
  <2>3. CASE Parse(t) BY <2>3 DEF Parse
  <2>4. CASE CreateAst(t) BY <2>4 DEF CreateAst
  <2>5. CASE SetFailed(t) BY <2>5 DEF SetFailed
  <2>6. CASE CheckPasses(t) BY <2>6 DEF CheckPasses
  <2>7. CASE Unlock(t) BY <2>7 DEF Unlock
  <2>8. CASE Unwind(t) BY <2>8 DEF Unwind
  <2> QED BY <1>3, <2>1, <2>2, <2>3, <2>4, <2>5, <2>6, <2>7, <2>8 DEF CompileStep
<1>4. ASSUME NEW t \in Threads, Propagate(t) PROVE Inv'
  BY <1>4 DEF Propagate
<1>5. CASE UNCHANGED vars BY <1>5 DEF vars
<1> QED BY <1>1, <1>2, <1>3, <1>4, <1>5 DEF Next

(* Inv holds throughout every execution. *)
THEOREM Invariance == Spec => []Inv
  BY InitInv, NextInv, PTL DEF Spec

(* Every variable keeps its type. *)
THEOREM TypeCorrect == Spec => []TypeOK
<1>1. Inv => TypeOK BY DEF Inv
<1> QED BY <1>1, Invariance, PTL

(* No path through the two unlocked tests and compile() reaches call_impl  *)
(* with a null ast, for any number of callers (Pljit.hpp:41-46).           *)
THEOREM CallImplHasAst == Spec => []NoNullDereference
<1>1. Inv => NoNullDereference BY DEF Inv, PathInv, NoNullDereference
<1> QED BY <1>1, Invariance, PTL

(* The AST under evaluation is never replaced (Pljit.cpp:13,32). *)
THEOREM EvaluatedAstIsAlive == Spec => []NoUseAfterFree
<1>1. Inv => NoUseAfterFree BY DEF Inv, PathInv, NoUseAfterFree
<1> QED BY <1>1, Invariance, PTL

(* A valid function is compiled at most once (Pljit.cpp:18-21). *)
THEOREM ValidCompiledOnce == Spec => []CompiledOnce
<1>1. Inv => CompiledOnce BY DEF Inv, CountInv, CompiledOnce
<1> QED BY <1>1, Invariance, PTL

(* ast is written only while it is null, and by then a failure can only be *)
(* set again.                                                              *)
Final == ast # 0 \/ compilation_failed => UNCHANGED <<ast, compilation_failed>>

LEMMA FinalStep == ASSUME Inv, Next PROVE Final
<1> SUFFICES ASSUME ast # 0 \/ compilation_failed
             PROVE  ast' = ast /\ compilation_failed' = compilation_failed
  BY DEF Final
<1> USE DEF Inv, TypeOK, shared, locals, Goto
<1>1. ASSUME NEW t \in Threads, Parse(t)
      PROVE ast' = ast /\ compilation_failed' = compilation_failed
  BY <1>1 DEF Parse, PathInv
<1>2. ASSUME NEW t \in Threads, CreateAst(t)
      PROVE ast' = ast /\ compilation_failed' = compilation_failed
  BY <1>2 DEF CreateAst, PathInv, OutcomeInv
<1>3. ASSUME NEW t \in Threads, SetFailed(t)
      PROVE ast' = ast /\ compilation_failed' = compilation_failed
  BY <1>3 DEF SetFailed, PathInv
<1>4. ASSUME NEW t \in Threads,
             Call(t) \/ Operator(t) \/ Propagate(t) \/ Lock(t) \/ Compile(t)
               \/ CheckPasses(t) \/ Unlock(t) \/ Unwind(t)
      PROVE ast' = ast /\ compilation_failed' = compilation_failed
  BY <1>4 DEF Call, Operator, Propagate, ReadAst, ReadFailed, TestFailed,
              CallImpl, EvaluateAst, Return, Lock, Compile, CheckPasses,
              Unlock, Unwind
<1> QED BY <1>1, <1>2, <1>3, <1>4 DEF Next, CompileStep

(* The outcome of a compilation is never revised (Pljit.cpp:13,32).        *)
THEOREM OutcomeNeverRevised == Spec => OutcomeIsFinal
<1>1. Inv /\ [Next]_vars => [Final]_vars BY FinalStep
<1> QED BY <1>1, Invariance, PTL DEF Spec, OutcomeIsFinal, Final

-----------------------------------------------------------------------------
(***************************************************************************)
(* With ordered stores, Function implements the service.  The refinement   *)
(* needs what the callers can observe, on top of Inv.                      *)
(***************************************************************************)
ServiceInv == Inv /\ VisibleInv /\ CallInv /\ AnswersCorrect

LEMMA InitServiceInv == Init => ServiceInv
<1> SUFFICES ASSUME Init PROVE ServiceInv
  OBVIOUS
<1>1. VisibleInv /\ CallInv BY DEF Init, VisibleInv, CallInv
<1>2. AnswersCorrect BY DEF Init, AnswersCorrect
<1> QED BY <1>1, <1>2, InitInv DEF ServiceInv

(* An answer is given in three places: TestFailed answers an invalid       *)
(* function, Unwind a semantically invalid one, EvaluateAst a valid one    *)
(* whose nodes every thread sees.                                          *)
LEMMA NextServiceInv ==
  ASSUME TotalStoreOrder PROVE ServiceInv /\ [Next]_vars => ServiceInv'
<1> SUFFICES ASSUME ServiceInv, [Next]_vars PROVE ServiceInv'
  OBVIOUS
<1>0. Inv /\ Inv'
  BY NextInv DEF ServiceInv
<1>1. VisibleInv'
  <2> USE <1>0 DEF ServiceInv, VisibleInv, shared, Inv, TypeOK
  <2>1. ASSUME NEW t \in Threads, Call(t) \/ Operator(t) PROVE VisibleInv'
    BY <2>1 DEF Call, Operator, ReadAst, ReadFailed, TestFailed, CallImpl,
                EvaluateAst, Return
  <2>2. ASSUME NEW t \in Threads, CompileStep(t) PROVE VisibleInv'
    BY <2>2, TotalStoreOrder
       DEF CompileStep, Lock, Compile, Parse, CreateAst, SetFailed,
           CheckPasses, Unlock, Unwind
  <2>3. ASSUME NEW t \in Threads, Propagate(t) PROVE VisibleInv'
    BY <2>3 DEF Propagate
  <2>4. CASE UNCHANGED vars BY <2>4 DEF vars
  <2> QED BY <2>1, <2>2, <2>3, <2>4 DEF Next
<1>2. CallInv'
  <2> USE <1>0 DEF ServiceInv, CallInv, shared, locals, Inv, TypeOK, Goto
  <2>1. ASSUME NEW t \in Threads, Call(t) PROVE CallInv'
    BY <2>1 DEF Call
  <2>2. ASSUME NEW t \in Threads, Operator(t) PROVE CallInv'
    BY <2>2 DEF Operator, ReadAst, ReadFailed, TestFailed, CallImpl,
                EvaluateAst, Return, CallFails
  <2>3. ASSUME NEW t \in Threads, CompileStep(t) PROVE CallInv'
    BY <2>3 DEF CompileStep, Lock, Compile, Parse, CreateAst, SetFailed,
                CheckPasses, Unlock, Unwind
  <2>4. ASSUME NEW t \in Threads, Propagate(t) PROVE CallInv'
    BY <2>4 DEF Propagate
  <2>5. CASE UNCHANGED vars BY <2>5 DEF vars
  <2> QED BY <2>1, <2>2, <2>3, <2>4, <2>5 DEF Next
<1>3. AnswersCorrect'
  <2> USE <1>0 DEF ServiceInv, AnswersCorrect, shared, locals, Inv, TypeOK,
                   Goto, Sources, Service!Answers
  <2>1. ASSUME NEW t \in Threads, Call(t) PROVE AnswersCorrect'
    BY <2>1 DEF Call
  <2>2. ASSUME NEW t \in Threads, TestFailed(t) PROVE AnswersCorrect'
    BY <2>2 DEF TestFailed, CallFails, OutcomeInv
  <2>3. ASSUME NEW t \in Threads, EvaluateAst(t) PROVE AnswersCorrect'
    BY <2>3 DEF EvaluateAst, OutcomeInv, PathInv, VisibleInv
  <2>4. ASSUME NEW t \in Threads, Unwind(t) PROVE AnswersCorrect'
    BY <2>4 DEF Unwind, OutcomeInv, PathInv
  <2>5. ASSUME NEW t \in Threads, ReadAst(t) \/ ReadFailed(t) \/ CallImpl(t) \/ Return(t)
        PROVE AnswersCorrect'
    BY <2>5 DEF ReadAst, ReadFailed, CallImpl, Return
  <2>6. ASSUME NEW t \in Threads,
               Lock(t) \/ Compile(t) \/ Parse(t) \/ CreateAst(t) \/ SetFailed(t)
                 \/ CheckPasses(t) \/ Unlock(t) \/ Propagate(t)
        PROVE AnswersCorrect'
    BY <2>6 DEF Lock, Compile, Parse, CreateAst, SetFailed, CheckPasses,
                Unlock, Propagate
  <2>7. CASE UNCHANGED vars BY <2>7 DEF vars
  <2> QED BY <2>1, <2>2, <2>3, <2>4, <2>5, <2>6, <2>7
          DEF Next, Operator, CompileStep
<1> QED BY <1>0, <1>1, <1>2, <1>3 DEF ServiceInv

LEMMA ServiceInvariance == ASSUME TotalStoreOrder PROVE Spec => []ServiceInv
<1>1. ServiceInv /\ [Next]_vars => ServiceInv' BY NextServiceInv
<1> QED BY <1>1, InitServiceInv, PTL DEF Spec

(* Every call is answered with what the source means for its argument, if  *)
(* stores become visible in order (test/TestInterface.cpp:39-56).          *)
THEOREM CallsAnsweredCorrectly ==
  ASSUME TotalStoreOrder PROVE Spec => []AnswersCorrect
<1>1. ServiceInv => AnswersCorrect BY DEF ServiceInv
<1> QED BY <1>1, ServiceInvariance, PTL

(* A step of Function is a call, an answer the source allows, a return, or *)
(* leaves the service's state.                                             *)
LEMMA ServiceStep ==
  ASSUME ServiceInv, ServiceInv', [Next]_vars
  PROVE  [Service!Next]_(Service!vars)
<1> USE DEF ServiceInv, CallInv, AnswersCorrect, Inv, TypeOK, Goto,
                 shared, locals, ProgramPoints, Compiling
<1>1. ASSUME NEW t \in Threads, Call(t) PROVE Service!Call(t)
  BY <1>1 DEF Call, Service!Call
<1>2. ASSUME NEW t \in Threads, Return(t) PROVE Service!Return(t)
  BY <1>2 DEF Return, Service!Return
<1>3. ASSUME NEW t \in Threads, EvaluateAst(t) \/ Unwind(t) PROVE Service!Answer(t)
  <2>1. /\ result' = [result EXCEPT ![t] = result'[t]]
        /\ pc[t] \in {"evaluate", "unwind"} /\ pc' = [pc EXCEPT ![t] = "return"]
        /\ UNCHANGED <<source_code, arg>>
    BY <1>3 DEF EvaluateAst, Unwind
  <2>2. result'[t] \in Service!Answers(arg[t])
    BY <2>1 DEF Service!Answers
  <2> QED BY <2>1, <2>2 DEF Service!Answer
<1>4. ASSUME NEW t \in Threads, TestFailed(t)
      PROVE  Service!Answer(t) \/ UNCHANGED Service!vars
  BY <1>4 DEF TestFailed, Service!Answer, Service!Answers, Service!vars
<1>5. ASSUME NEW t \in Threads,
             ReadAst(t) \/ ReadFailed(t) \/ CallImpl(t) \/ Propagate(t)
               \/ Lock(t) \/ Compile(t) \/ Parse(t) \/ CreateAst(t)
               \/ SetFailed(t) \/ CheckPasses(t) \/ Unlock(t)
      PROVE  UNCHANGED Service!vars
  BY <1>5 DEF ReadAst, ReadFailed, CallImpl, Propagate, Lock, Compile, Parse,
              CreateAst, SetFailed, CheckPasses, Unlock, Service!vars
<1>6. CASE UNCHANGED vars BY <1>6 DEF vars, Service!vars
<1> QED BY <1>1, <1>2, <1>3, <1>4, <1>5, <1>6
        DEF Next, Operator, CompileStep, Service!Next

LEMMA ServiceInit == Init => Service!Init
  BY DEF Init, Service!Init, Sources, Service!Sources

(* Function implements FunctionService: every step of it is one of the     *)
(* service, or none.                                                       *)
THEOREM FunctionImplementsService ==
  ASSUME TotalStoreOrder PROVE Spec => ImplementsService
<1>1. ServiceInv /\ ServiceInv' /\ [Next]_vars => [Service!Next]_(Service!vars)
  BY ServiceStep
<1> QED BY <1>1, ServiceInit, ServiceInvariance, PTL
        DEF Spec, ImplementsService, Service!Safety

-----------------------------------------------------------------------------
(* How often one function is compiled, for every finite set of threads.    *)
(* Until a compilation has failed there is at most one.  The threads that  *)
(* may still compile a failed function are those at the mutex; none joins  *)
(* them, and each one that compiles leaves: the compilations made and the  *)
(* threads at the mutex are together no more than the threads.             *)

AtMutex == {t \in Threads : pc[t] \in {"lock", "compile"}}

NooneBuilds == \A t \in Threads : pc[t] \notin {"parse", "create_ast", "set_failed"}

FirstInv ==
    ~compilation_failed => /\ compilation_passed <= 1
                           /\ compilation_passed <= Cardinality(Threads)
                           /\ ast = 0 /\ NooneBuilds => compilation_passed = 0

QueueInv ==
    compilation_failed =>
        compilation_passed + Cardinality(AtMutex) <= Cardinality(Threads)

BoundInv == Inv /\ FirstInv /\ QueueInv

(* What is used of cardinalities. *)
LEMMA Subsets ==
    ASSUME IsFiniteSet(Threads), NEW S \in SUBSET Threads, NEW T \in SUBSET S
    PROVE  /\ Cardinality(S) \in Nat /\ Cardinality(T) \in Nat
           /\ Cardinality(T) <= Cardinality(S)
           /\ \A t \in S : t \notin T => Cardinality(T) + 1 <= Cardinality(S)
<1>1. IsFiniteSet(S) BY FS_Subset
<1>2. IsFiniteSet(T) /\ Cardinality(T) <= Cardinality(S) BY <1>1, FS_Subset
<1>3. Cardinality(S) \in Nat /\ Cardinality(T) \in Nat
  BY <1>1, <1>2, FS_CardinalityType
<1>4. ASSUME NEW t \in S, t \notin T PROVE Cardinality(T) + 1 <= Cardinality(S)
  <2>1. Cardinality(S \ {t}) = Cardinality(S) - 1 /\ IsFiniteSet(S \ {t})
    BY <1>1, FS_RemoveElement
  <2>2. T \in SUBSET (S \ {t}) BY <1>4
  <2>3. Cardinality(T) <= Cardinality(S \ {t}) BY <2>1, <2>2, FS_Subset
  <2> QED BY <2>1, <2>3, <1>3
<1> QED BY <1>2, <1>3, <1>4

LEMMA BoundInit == ASSUME IsFiniteSet(Threads) PROVE Init => BoundInv
<1> SUFFICES ASSUME Init PROVE BoundInv
  OBVIOUS
<1>1. Cardinality(Threads) \in Nat BY FS_CardinalityType
<1>2. FirstInv BY <1>1 DEF Init, FirstInv
<1>3. QueueInv BY DEF Init, QueueInv
<1> QED BY <1>2, <1>3, InitInv DEF BoundInv

(* A step either compiles, or makes a first failure, or does neither and   *)
(* lets no thread join the queue of a failed function.                     *)
Compiles(t) == pc[t] = "compile" /\ ast = 0 /\ compilation_passed' = compilation_passed + 1
                 /\ pc' = [pc EXCEPT ![t] = "parse"]
                 /\ UNCHANGED <<ast, compilation_failed>>
Fails(t) == /\ pc[t] \in {"parse", "set_failed"} /\ ~compilation_failed
            /\ \E to \in {"unlock", "check_passes"} : pc' = [pc EXCEPT ![t] = to]
            /\ compilation_failed' /\ compilation_passed' = compilation_passed
Passes == /\ compilation_passed' = compilation_passed
          /\ compilation_failed' = compilation_failed
          /\ compilation_failed => AtMutex' \subseteq AtMutex
          /\ ~compilation_failed /\ ast' = 0 /\ NooneBuilds' => ast = 0 /\ NooneBuilds

LEMMA Steps ==
    ASSUME Inv, [Next]_vars
    PROVE  (\E t \in Threads : Compiles(t) \/ Fails(t)) \/ Passes
<1> USE DEF Inv, TypeOK, Goto, shared, locals
<1>1. ASSUME NEW t \in Threads, Call(t) \/ Operator(t) PROVE Passes
  BY <1>1 DEF Passes, AtMutex, NooneBuilds, Call, Operator, ReadAst, ReadFailed,
              TestFailed, CallImpl, EvaluateAst, Return
<1>2. ASSUME NEW t \in Threads, CompileStep(t)
      PROVE  Compiles(t) \/ Fails(t) \/ Passes
  <2>1. CASE Lock(t) BY <2>1 DEF Lock, Passes, AtMutex, NooneBuilds
  <2>2. CASE Compile(t)
    BY <2>2 DEF Compile, AlreadyCompiled, Compiles, Passes, AtMutex, NooneBuilds
  <2>3. CASE Parse(t) BY <2>3 DEF Parse, Fails, Passes, AtMutex, NooneBuilds
  <2>4. CASE CreateAst(t) BY <2>4 DEF CreateAst, Passes, AtMutex, NooneBuilds
  <2>5. CASE SetFailed(t) BY <2>5 DEF SetFailed, Fails, Passes, AtMutex, NooneBuilds
  <2>6. CASE CheckPasses(t) \/ Unlock(t) \/ Unwind(t)
    BY <2>6 DEF CheckPasses, Unlock, Unwind, Passes, AtMutex, NooneBuilds
  <2> QED BY <1>2, <2>1, <2>2, <2>3, <2>4, <2>5, <2>6 DEF CompileStep
<1>3. ASSUME NEW t \in Threads, Propagate(t) PROVE Passes
  BY <1>3 DEF Propagate, Passes, AtMutex, NooneBuilds
<1>4. CASE UNCHANGED vars BY <1>4 DEF vars, Passes, AtMutex, NooneBuilds
<1> QED BY <1>1, <1>2, <1>3, <1>4 DEF Next

LEMMA BoundNext ==
    ASSUME IsFiniteSet(Threads) PROVE BoundInv /\ [Next]_vars => BoundInv'
<1> SUFFICES ASSUME BoundInv, [Next]_vars PROVE BoundInv'
  OBVIOUS
<1>0. Inv' BY NextInv DEF BoundInv
<1>1. compilation_passed \in Nat /\ Cardinality(Threads) \in Nat
  BY FS_CardinalityType DEF BoundInv, Inv, TypeOK
<1>2. AtMutex \in SUBSET Threads /\ AtMutex' \in SUBSET Threads BY DEF AtMutex
<1>3. ASSUME NEW t \in Threads, Compiles(t) PROVE FirstInv' /\ QueueInv'
  <2>1. t \in AtMutex /\ AtMutex' \in SUBSET AtMutex /\ t \notin AtMutex'
    BY <1>3 DEF AtMutex, Compiles, BoundInv, Inv, TypeOK
  <2>2. Cardinality(AtMutex') + 1 <= Cardinality(AtMutex)
        /\ Cardinality(AtMutex) \in Nat /\ Cardinality(AtMutex') \in Nat
    BY <2>1, <1>2, Subsets
  <2>3. QueueInv' BY <2>2, <1>1, <1>3 DEF QueueInv, Compiles, BoundInv
  <2>4. NooneBuilds
    BY <1>3 DEF Compiles, NooneBuilds, BoundInv, Inv, LockInv, Compiling
  <2>5. 1 <= Cardinality(Threads)
    <3>1. {} \in SUBSET Threads /\ t \notin {} OBVIOUS
    <3>2. Cardinality({}) + 1 <= Cardinality(Threads) BY <3>1, Subsets
    <3> QED BY <3>2, FS_EmptySet
  <2>6. ~NooneBuilds'
    BY <1>3 DEF Compiles, NooneBuilds, BoundInv, Inv, TypeOK
  <2>7. FirstInv'
    BY <2>4, <2>5, <2>6, <1>3, <1>1 DEF FirstInv, Compiles, BoundInv
  <2> QED BY <2>3, <2>7
<1>4. ASSUME NEW t \in Threads, Fails(t) PROVE FirstInv' /\ QueueInv'
  <2>1. t \notin AtMutex'
    BY <1>4 DEF AtMutex, Fails, BoundInv, Inv, TypeOK
  <2>2. Cardinality(AtMutex') + 1 <= Cardinality(Threads)
        /\ Cardinality(AtMutex') \in Nat
    BY <2>1, <1>2, Subsets
  <2> QED BY <2>2, <1>4, <1>1 DEF FirstInv, QueueInv, Fails, BoundInv
<1>5. ASSUME Passes PROVE FirstInv' /\ QueueInv'
  <2>1. compilation_failed => Cardinality(AtMutex') <= Cardinality(AtMutex)
            /\ Cardinality(AtMutex) \in Nat /\ Cardinality(AtMutex') \in Nat
    BY <1>2, <1>5, Subsets DEF Passes
  <2>2. QueueInv' BY <2>1, <1>1, <1>5 DEF QueueInv, Passes, BoundInv
  <2>3. FirstInv' BY <1>1, <1>5 DEF FirstInv, Passes, BoundInv
  <2> QED BY <2>2, <2>3
<1> QED BY <1>0, <1>3, <1>4, <1>5, Steps DEF BoundInv

(* A function is compiled at most once per thread, however its text fares: *)
(* the second test under the mutex leaves a failed function to be compiled *)
(* again by each caller that was queued, and by nobody else (Pljit.cpp:19).*)
THEOREM RecompilationsBounded ==
    ASSUME IsFiniteSet(Threads) PROVE Spec => []RecompilesBounded
<1>1. BoundInv => RecompilesBounded
  <2> SUFFICES ASSUME BoundInv PROVE RecompilesBounded
    OBVIOUS
  <2>1. compilation_passed \in Nat /\ Cardinality(Threads) \in Nat
    BY FS_CardinalityType DEF BoundInv, Inv, TypeOK
  <2>2. Cardinality(AtMutex) \in Nat
    <3>1. AtMutex \in SUBSET Threads BY DEF AtMutex
    <3> QED BY <3>1, FS_Subset, FS_CardinalityType
  <2>3. compilation_failed \in BOOLEAN BY DEF BoundInv, Inv, TypeOK
  <2> QED BY <2>1, <2>2, <2>3 DEF BoundInv, FirstInv, QueueInv, RecompilesBounded
<1> QED BY <1>1, BoundInit, BoundNext, PTL DEF Spec
-----------------------------------------------------------------------------
(* Pljit.  A step of the composition is, for the Subject, a step of        *)
(* Function or none, so what is shown of Function holds here too; and as   *)
(* long as no registration overlaps another one or a get, the registry     *)
(* keeps every handle and reference on its object.                         *)
Places == {"out", "appending", "registering", "getting", "holding", "calling",
           "astray"}

NoOther(t, places) == \A u \in Threads \ {t} : position[u] \notin places

(* Each thread's place in the registry fixes what it holds. *)
HolderInv(t) ==
    /\ position[t] = "appending" =>
          /\ made = Len(registered_functions) + 1
          /\ callee[t] = made
          /\ reference[t] = Reference(array, Len(registered_functions))
          /\ NoOther(t, {"appending", "registering", "getting"})
    /\ position[t] = "registering" =>
          /\ callee[t] = made
          /\ made # 0
          /\ NoOther(t, {"appending", "registering"})
    /\ position[t] = "getting" =>
          /\ callee[t] \in 1 .. Len(registered_functions)
          /\ reference[t] = Reference(array, callee[t] - 1)
    /\ position[t] \in {"holding", "calling"} =>
          /\ callee[t] \in 1 .. Len(registered_functions)
          /\ reference[t] = Object(callee[t])

(* The vector holds the functions in the order they were made, so the      *)
(* handle for the function numbered f has the index f - 1.                 *)
VectorInv ==
    /\ registered_functions \in Seq(Nat)
    /\ \A i \in 1 .. Len(registered_functions) : registered_functions[i] = i
    /\ array \in Nat \ {0}
    /\ \A h \in handles : /\ h.function \in 1 .. Len(registered_functions)
                          /\ h.function_id = h.function - 1
    /\ (\A t \in Threads : position[t] # "appending") =>
          made = Len(registered_functions)

ApartInv ==
    /\ position \in [Threads -> Places]
    /\ callee \in [Threads -> Nat]
    /\ reference \in [Threads -> [array : Nat, index : Nat]]
    /\ VectorInv
    /\ \A t \in Threads : HolderInv(t)

RegistryInv == overlapped \in BOOLEAN /\ (~overlapped => ApartInv)

-----------------------------------------------------------------------------
(* The registry adds to Function, and takes nothing away. *)
LEMMA StepOfFunction == [PljitNext]_pljit => [Next]_vars
<1> SUFFICES ASSUME [PljitNext]_pljit PROVE [Next]_vars
  OBVIOUS
<1>1. ASSUME NEW t \in Threads, CallStep(t) PROVE [Next]_vars
  <2>1. CASE CallSubject(t) BY <2>1 DEF CallSubject, Next
  <2>2. CASE ReturnFromCall(t) BY <2>2 DEF ReturnFromCall, Next, Operator
  <2>3. CASE SubjectStep(t) BY <2>3 DEF SubjectStep, Next, Operator
  <2> QED BY <1>1, <2>1, <2>2, <2>3 DEF CallStep, CallOther, CallNothing
<1>2. ASSUME NEW t \in Threads, RegistryStep(t) PROVE UNCHANGED vars
  BY <1>2 DEF RegistryStep, RegisterFunction, EmplaceBack, ReturnHandle, Get,
              Dereference
<1>3. CASE UNCHANGED pljit BY <1>3 DEF pljit
<1> QED BY <1>1, <1>2, <1>3 DEF PljitNext

LEMMA RegistryInit == PljitInit => RegistryInv
<1> SUFFICES ASSUME PljitInit PROVE RegistryInv
  OBVIOUS
<1> USE DEF PljitInit, Object, Reference, Freed, Places
<1>1. VectorInv BY DEF VectorInv
<1>2. \A t \in Threads : HolderInv(t) BY DEF HolderInv
<1>3. reference \in [Threads -> [array : Nat, index : Nat]] OBVIOUS
<1> QED BY <1>1, <1>2, <1>3 DEF RegistryInv, ApartInv

(* A longer vector keeps the elements it had. *)
LEMMA AppendFact ==
  ASSUME NEW s \in Seq(Nat), \A i \in 1 .. Len(s) : s[i] = i
  PROVE  LET longer == Append(s, Len(s) + 1)
         IN /\ longer \in Seq(Nat)
            /\ Len(longer) = Len(s) + 1
            /\ \A i \in 1 .. Len(longer) : longer[i] = i
  OBVIOUS

(* What the steps of the registry keep, one lemma for each that writes it. *)
LEMMA RegisterFunctionStep ==
  ASSUME ApartInv, NEW t \in Threads, RegisterFunction(t), ~overlapped'
  PROVE  ApartInv'
<1> USE DEF ApartInv, VectorInv, HolderInv, Object, Reference, Freed, Places
<1>1. /\ position[t] = "out" /\ position' = [position EXCEPT ![t] = "appending"]
      /\ NoOther(t, {"appending", "registering", "getting"})
      /\ made' = made + 1
      /\ callee' = [callee EXCEPT ![t] = made + 1]
      /\ reference' = [reference EXCEPT ![t] =
                           [array |-> array, index |-> Len(registered_functions)]]
      /\ UNCHANGED <<registered_functions, array, handles>>
  BY DEF RegisterFunction, Begins, NoOther, Move
<1>2. \A u \in Threads : position[u] # "appending" BY <1>1 DEF NoOther
<1>3. made = Len(registered_functions) /\ made \in Nat BY <1>2
<1>4. VectorInv' BY <1>1
<1>5. ASSUME NEW u \in Threads PROVE HolderInv(u)'
  BY <1>1, <1>3 DEF NoOther
<1>6. /\ position' \in [Threads -> Places]
      /\ callee' \in [Threads -> Nat]
      /\ reference' \in [Threads -> [array : Nat, index : Nat]]
  BY <1>1, <1>3
<1> QED BY <1>4, <1>5, <1>6

LEMMA EmplaceBackStep ==
  ASSUME ApartInv, NEW t \in Threads, EmplaceBack(t)
  PROVE  ApartInv'
<1> USE DEF ApartInv, VectorInv, HolderInv, Object, Reference, Freed, Places
<1>1. /\ position[t] = "appending"
      /\ position' = [position EXCEPT ![t] = "registering"]
      /\ NoOther(t, {"appending", "registering", "getting"})
      /\ made = Len(registered_functions) + 1 /\ callee[t] = made
      /\ UNCHANGED <<made, callee, reference, handles>>
  BY DEF EmplaceBack, Move
<1>2. registered_functions' =
         Append(registered_functions, Len(registered_functions) + 1)
      /\ array' \in Nat \ {0}
  BY <1>1 DEF EmplaceBack, AppendFunction, OverwriteFunctions
<1>3. /\ registered_functions' \in Seq(Nat)
      /\ Len(registered_functions') = Len(registered_functions) + 1
      /\ \A i \in 1 .. Len(registered_functions') : registered_functions'[i] = i
      /\ Len(registered_functions) \in Nat
  BY <1>2, AppendFact
<1>4. VectorInv' BY <1>1, <1>2, <1>3
<1>5. ASSUME NEW u \in Threads PROVE HolderInv(u)'
  BY <1>1, <1>3 DEF NoOther
<1> QED BY <1>1, <1>4, <1>5

LEMMA DereferenceStep ==
  ASSUME ApartInv, NEW t \in Threads, Dereference(t)
  PROVE  ApartInv'
<1> USE DEF ApartInv, VectorInv, HolderInv, Object, Reference, Freed, Places, NoOther
<1>1. /\ position[t] = "getting" /\ callee[t] \in 1 .. Len(registered_functions)
      /\ reference[t] = [array |-> array, index |-> callee[t] - 1]
  BY DEF Dereference, Move
<1>2. Exists(reference[t]) /\ Target(reference[t]) = callee[t]
  BY <1>1 DEF Exists, Target
<1> QED BY <1>2 DEF Dereference, Move

LEMMA GetStep ==
  ASSUME ApartInv, NEW t \in Threads, Get(t), ~overlapped'
  PROVE  ApartInv'
<1> USE DEF ApartInv, VectorInv, HolderInv, Object, Reference, Freed, Places
<1>1. PICK h \in handles :
         /\ reference' = [reference EXCEPT ![t] =
                             [array |-> array, index |-> h.function_id]]
         /\ callee' = [callee EXCEPT ![t] = h.function]
  BY DEF Get
<1>2. /\ position[t] = "out" /\ position' = [position EXCEPT ![t] = "getting"]
      /\ NoOther(t, {"appending"})
      /\ UNCHANGED <<registered_functions, made, array, handles>>
  BY DEF Get, Begins, NoOther, Move
<1>3. /\ h.function \in 1 .. Len(registered_functions)
      /\ h.function_id = h.function - 1 /\ h.function_id \in Nat
  OBVIOUS
<1>4. VectorInv' BY <1>2
<1>5. ASSUME NEW u \in Threads PROVE HolderInv(u)'
  BY <1>1, <1>2, <1>3 DEF NoOther
<1>6. /\ position' \in [Threads -> Places]
      /\ callee' \in [Threads -> Nat]
      /\ reference' \in [Threads -> [array : Nat, index : Nat]]
  BY <1>1, <1>2, <1>3
<1> QED BY <1>4, <1>5, <1>6

LEMMA RegistryStepInv == RegistryInv /\ [PljitNext]_pljit => RegistryInv'
<1> SUFFICES ASSUME RegistryInv, [PljitNext]_pljit PROVE RegistryInv'
  OBVIOUS
<1>0. overlapped' \in BOOLEAN /\ (~overlapped' => ~overlapped)
  BY DEF RegistryInv, PljitNext, RegistryStep, CallStep, RegisterFunction, EmplaceBack,
         ReturnHandle, Get, Dereference, CallSubject, CallOther, CallNothing,
         ReturnFromCall, LetGo, SubjectStep, Begins, pljit, registry
<1> SUFFICES ASSUME ~overlapped' PROVE ApartInv'
  BY <1>0 DEF RegistryInv
<1>1. ApartInv BY <1>0 DEF RegistryInv
<1>2. ASSUME NEW t \in Threads, RegistryStep(t) PROVE ApartInv'
  <2> USE DEF ApartInv, VectorInv, HolderInv, NoOther, Move, Object, Reference, Freed,
              Places
  <2>1. CASE ReturnHandle(t) BY <1>1, <2>1 DEF ReturnHandle
  <2> QED BY <1>1, <1>2, <2>1, RegisterFunctionStep, EmplaceBackStep, GetStep,
             DereferenceStep DEF RegistryStep
<1>3. ASSUME NEW t \in Threads, CallStep(t) PROVE ApartInv'
  <2> USE DEF ApartInv, VectorInv, HolderInv, NoOther, Move, Object, Reference, Freed,
              Places
  <2>1. CASE CallSubject(t) BY <1>1, <2>1 DEF CallSubject
  <2>2. CASE CallNothing(t) BY <1>1, <2>2 DEF CallNothing
  <2>3. ASSUME NEW from \in {"holding", "calling"}, LetGo(t, from) PROVE ApartInv'
    BY <1>1, <2>3 DEF LetGo
  <2>4. CASE SubjectStep(t) BY <1>1, <2>4 DEF SubjectStep, registry
  <2> QED BY <1>3, <2>1, <2>2, <2>3, <2>4 DEF CallStep, CallOther, ReturnFromCall
<1>4. CASE UNCHANGED pljit
  BY <1>1, <1>4 DEF pljit, registry, ApartInv, VectorInv, HolderInv, NoOther
<1> QED BY <1>2, <1>3, <1>4 DEF PljitNext

-----------------------------------------------------------------------------
(* The invariant of Function and that of the registry hold together. *)
THEOREM PljitInvariance == PljitSpec => [](Inv /\ RegistryInv)
<1>1. PljitInit => Inv /\ RegistryInv
  BY InitInv, RegistryInit DEF PljitInit
<1>2. Inv /\ RegistryInv /\ [PljitNext]_pljit => Inv' /\ RegistryInv'
  BY StepOfFunction, NextInv, RegistryStepInv
<1> QED BY <1>1, <1>2, PTL DEF PljitSpec

(* Until a registration overlaps another one or a get, a call through a    *)
(* handle runs on the function the handle was made for, and goes on there  *)
(* whatever is registered during the call (Pljit.cpp:48-52,                *)
(* Pljit.hpp:59-61).                                                       *)
THEOREM HandlesReachTheirFunctions == PljitSpec => []HandlesReachWhenApart
<1>1. RegistryInv => HandlesReachWhenApart
  BY DEF RegistryInv, ApartInv, HolderInv, HandlesReachWhenApart,
         HandleReachesItsFunction, Target, Object, Reference
<1> QED BY <1>1, PljitInvariance, PTL

(* Seen from the Subject, the composition behaves as Function does alone.  *)
THEOREM PljitImplementsFunction == PljitSpec => Init /\ [][Next]_vars
  BY StepOfFunction, PTL DEF PljitSpec, PljitInit

(* With any number of functions registered around it, a function is never  *)
(* evaluated through a null or freed AST, and compiled once if it is valid.*)
THEOREM SubjectIsSafe ==
  PljitSpec => [](TypeOK /\ NoNullDereference /\ NoUseAfterFree /\ CompiledOnce)
<1>1. Inv => TypeOK /\ NoNullDereference /\ NoUseAfterFree /\ CompiledOnce
  BY DEF Inv, PathInv, CountInv, NoNullDereference, NoUseAfterFree, CompiledOnce
<1> QED BY <1>1, PljitInvariance, PTL

(* Nor is the outcome of its compilation revised while others register and *)
(* call functions.                                                         *)
THEOREM SubjectOutcomeNeverRevised == PljitSpec => OutcomeIsFinal
<1>1. Inv /\ [Next]_vars => [Final]_vars BY FinalStep
<1> QED BY <1>1, PljitInvariance, PljitImplementsFunction, PTL DEF OutcomeIsFinal, Final

(* If stores become visible in order, a call that reaches the Subject is   *)
(* answered with what its source means, and the composition as a whole is  *)
(* a service for it, whatever is registered and called meanwhile           *)
(* (Pljit.hpp:38-47, Pljit.cpp:48-52).                                     *)
THEOREM SubjectIsAService ==
  ASSUME TotalStoreOrder PROVE PljitSpec => []AnswersCorrect /\ ImplementsService
<1>1. ServiceInv /\ [Next]_vars => ServiceInv' BY NextServiceInv
<1>2. ServiceInv => AnswersCorrect BY DEF ServiceInv
<1>3. ServiceInv /\ ServiceInv' /\ [Next]_vars => [Service!Next]_(Service!vars)
  BY ServiceStep
<1> QED BY <1>1, <1>2, <1>3, InitServiceInv, ServiceInit, PljitImplementsFunction, PTL
        DEF ImplementsService, Service!Safety
===============================================================================
