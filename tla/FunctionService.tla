--------------------------- MODULE FunctionService ---------------------------
(***************************************************************************)
(* What a registered PL function promises its callers: any number of       *)
(* threads call it concurrently, and every call is answered with what the  *)
(* source text means for that call's argument, whatever the other threads  *)
(* are doing.  The caller sees no compilation, no lock and no AST.         *)
(*                                                                         *)
(* Module Function is shown to implement this specification.               *)
(***************************************************************************)
CONSTANTS Threads,    \* the threads that hold a function_handle
          Args,       \* the argument tuples they pass
          Results,    \* what one evaluation can produce, Nullopt included
          Evaluate,   \* Evaluate[a]: what a valid source computes for a
          Nullopt,    \* an ExecutionContext without a result
          Exception,  \* the call left through std::runtime_error
          NoArg,      \* no call is in progress
          NoResult,   \* the call in progress has no answer yet
          Debug       \* TRUE: built without NDEBUG

VARIABLES source_code,  \* how the source text fares in the compiler
          status,       \* idle, called or answered, for every thread
          arg,          \* the argument of the thread's call
          result        \* the answer of the thread's call

vars == <<source_code, status, arg, result>>

Sources == {"valid", "syntax_error", "semantic_error"}

(* The answers a call with argument a may get.  A debug build may reject a *)
(* semantically invalid function with an exception instead of Nullopt.     *)
Answers(a) ==
    CASE source_code = "valid"          -> {Evaluate[a]}
      [] source_code = "syntax_error"   -> {Nullopt}
      [] source_code = "semantic_error" ->
            IF Debug THEN {Nullopt, Exception} ELSE {Nullopt}

Init ==
    /\ source_code \in Sources
    /\ status = [t \in Threads |-> "idle"]
    /\ arg = [t \in Threads |-> NoArg]
    /\ result = [t \in Threads |-> NoResult]

Call(t) ==
    /\ status[t] = "idle"
    /\ status' = [status EXCEPT ![t] = "called"]
    /\ \E a \in Args : arg' = [arg EXCEPT ![t] = a]
    /\ UNCHANGED <<source_code, result>>

Answer(t) ==
    /\ status[t] = "called"
    /\ status' = [status EXCEPT ![t] = "answered"]
    /\ \E r \in Answers(arg[t]) : result' = [result EXCEPT ![t] = r]
    /\ UNCHANGED <<source_code, arg>>

Return(t) ==
    /\ status[t] = "answered"
    /\ status' = [status EXCEPT ![t] = "idle"]
    /\ arg' = [arg EXCEPT ![t] = NoArg]
    /\ result' = [result EXCEPT ![t] = NoResult]
    /\ UNCHANGED source_code

Next == \E t \in Threads : Call(t) \/ Answer(t) \/ Return(t)

Safety == Init /\ [][Next]_vars

(* A thread decides when to call; once it has called, it is answered.      *)
Fairness == \A t \in Threads : WF_vars(Answer(t)) /\ WF_vars(Return(t))

Spec == Safety /\ Fairness
===============================================================================
