--------------------------------- MODULE Pljit ---------------------------------
(***************************************************************************)
(* class Pljit, the registry of functions, composed with one of them.      *)
(* register_function appends an owning pointer to a vector and returns a   *)
(* handle with its index; a call through a handle indexes the vector,      *)
(* follows the pointer and runs operator() on the Function it finds.       *)
(*                                                                         *)
(* The Function numbered Subject is module Function with all its state;    *)
(* calls of the others touch none of it and return at once.  Threads       *)
(* register and call at any time, also while the Subject compiles or runs. *)
(*                                                                         *)
(* Neither register_function nor get takes a lock ("TODO Thread safe").    *)
(* Two registrations, or a registration and a get, that run at once are a  *)
(* data race on the vector: what the racing thread leaves there or finds   *)
(* there is chosen freely.  overlapped is a history of whether it happened.*)
(***************************************************************************)
EXTENDS Function, Sequences

CONSTANTS MaxFunctions,  \* bound on the functions registered
          Subject        \* the one whose inside is modelled

ASSUME PljitAssumption == MaxFunctions \in Nat /\ Subject \in 1 .. MaxFunctions

VARIABLES
    registered_functions,  \* the Function each element owns, or Freed
    made,                  \* the Function objects made; they are numbered
    array,                 \* the vector's array in use; those before it are freed
    handles,               \* the handles given out; function is a history of
                           \* the object each was made for
    position,              \* where each thread is in the registry
    reference,             \* the element or the object a thread is about to use
    callee,                \* the Function a thread registers or wants to call
    overlapped             \* a registration and another use of the vector have
                           \* run at once

registry == <<registered_functions, made, array, handles, position, reference,
              callee, overlapped>>
pljit == <<vars, registry>>

(* A reference designates element index of an array, or, with array 0, the *)
(* Function object index itself.                                           *)
Reference(a, i) == [array |-> a, index |-> i]
Object(f) == Reference(0, f)

Freed == 0

(* The array is in use and has that element. *)
Exists(r) == r.array = array /\ r.index < Len(registered_functions)

Target(r) == IF r.array = 0 THEN r.index
             ELSE IF Exists(r) THEN registered_functions[r.index + 1]
             ELSE Freed

PljitInit ==
    /\ Init
    /\ registered_functions = <<>>
    /\ made = 0
    /\ array = 1
    /\ handles = {}
    /\ position = [t \in Threads |-> "out"]
    /\ reference = [t \in Threads |-> Object(Freed)]
    /\ callee = [t \in Threads |-> Freed]
    /\ overlapped = FALSE

Move(t, from, to) == position[t] = from /\ position' = [position EXCEPT ![t] = to]

(* Thread t begins an operation; others are at places it must not overlap. *)
Begins(t, places) ==
    overlapped' = (overlapped \/ \E u \in Threads \ {t} : position[u] \in places)

-----------------------------------------------------------------------------
(* register_function: emplace_back finds where the vector ends, ... *)
RegisterFunction(t) ==
    /\ Move(t, "out", "appending")
    /\ pc[t] = "idle"
    /\ made < MaxFunctions
    /\ made' = made + 1
    /\ callee' = [callee EXCEPT ![t] = made + 1]
    /\ reference' = [reference EXCEPT ![t] =
                        Reference(array, Len(registered_functions))]
    /\ Begins(t, {"appending", "registering", "getting"})
    /\ UNCHANGED <<vars, registered_functions, array, handles>>

(* The vector is full when its size is 0 or a power of two. *)
Full == \E k \in 0 .. MaxFunctions : Len(registered_functions) \in {0, 2 ^ k}

(* ... and puts the new element there; a full vector moves to a new array. *)
AppendFunction(t) ==
    /\ reference[t] = Reference(array, Len(registered_functions))
    /\ registered_functions' = Append(registered_functions, callee[t])
    /\ array' = IF Full THEN array + 1 ELSE array

(* Where the vector has changed meanwhile, the elements it had when t found *)
(* its end are still there.  Those behind are overwritten, empty or lost.  *)
OverwriteFunctions(t) ==
    LET end == reference[t].index
    IN /\ reference[t] # Reference(array, Len(registered_functions))
       /\ \E size \in end + 1 .. made : \E left \in [1 .. size -> 0 .. made] :
             /\ \A i \in 1 .. end :
                   i <= Len(registered_functions) => left[i] = registered_functions[i]
             /\ registered_functions' = left
       /\ array' \in {array, array + 1}

EmplaceBack(t) ==
    /\ Move(t, "appending", "registering")
    /\ AppendFunction(t) \/ OverwriteFunctions(t)
    /\ UNCHANGED <<vars, made, handles, reference, callee, overlapped>>

(* return function_handle(this, registered_functions.size() - 1). *)
ReturnHandle(t) ==
    /\ Move(t, "registering", "out")
    /\ handles' = handles \cup
          {[function_id |-> Len(registered_functions) - 1, function |-> callee[t]]}
    /\ callee' = [callee EXCEPT ![t] = Freed]
    /\ reference' = [reference EXCEPT ![t] = Object(Freed)]
    /\ UNCHANGED <<vars, registered_functions, made, array, overlapped>>

-----------------------------------------------------------------------------
(* get() finds the element of the vector's array ... *)
Get(t) ==
    /\ Move(t, "out", "getting")
    /\ pc[t] = "idle"
    /\ \E h \in handles :
          /\ reference' = [reference EXCEPT ![t] = Reference(array, h.function_id)]
          /\ callee' = [callee EXCEPT ![t] = h.function]
    /\ Begins(t, {"appending"})
    /\ UNCHANGED <<vars, registered_functions, made, array, handles>>

(* Mutant of Dereference: the vector holds the functions themselves. *)
Dereference_ByValue(t) ==
    /\ Move(t, "getting", "holding")
    /\ UNCHANGED <<vars, registered_functions, made, array, handles, reference,
                   callee, overlapped>>

(* ... and returns the object the element owns.  What is read of an element *)
(* that is not there, or no more, is any object or none.                   *)
Dereference(t) ==
    /\ Move(t, "getting", "holding")
    /\ \E f \in IF Exists(reference[t]) THEN {Target(reference[t])} ELSE 0 .. made :
          reference' = [reference EXCEPT ![t] = Object(f)]
    /\ UNCHANGED <<vars, registered_functions, made, array, handles, callee,
                   overlapped>>

CallSubject(t) ==
    /\ Move(t, "holding", "calling")
    /\ Target(reference[t]) = Subject
    /\ Call(t)
    /\ UNCHANGED <<registered_functions, made, array, handles, reference, callee,
                   overlapped>>

LetGo(t, from) ==
    /\ Move(t, from, "out")
    /\ reference' = [reference EXCEPT ![t] = Object(Freed)]
    /\ callee' = [callee EXCEPT ![t] = Freed]
    /\ UNCHANGED <<registered_functions, made, array, handles, overlapped>>

CallOther(t) ==
    /\ LetGo(t, "holding")
    /\ Target(reference[t]) \notin {Subject, Freed}
    /\ UNCHANGED vars

(* A call on what is no Function ends the process. *)
CallNothing(t) ==
    /\ Move(t, "holding", "astray")
    /\ Target(reference[t]) = Freed
    /\ UNCHANGED <<vars, registered_functions, made, array, handles, reference,
                   callee, overlapped>>

ReturnFromCall(t) == LetGo(t, "calling") /\ Return(t)

(* The other steps of the Subject leave the registry alone. *)
SubjectStep(t) ==
    /\ \/ ReadAst(t) \/ ReadFailed(t) \/ TestFailed(t) \/ CallImpl(t)
       \/ EvaluateAst(t) \/ CompileStep(t) \/ Propagate(t)
    /\ UNCHANGED registry

RegistryStep(t) ==
    \/ RegisterFunction(t) \/ EmplaceBack(t) \/ ReturnHandle(t)
    \/ Get(t) \/ Dereference(t)

CallStep(t) ==
    \/ CallSubject(t) \/ CallOther(t) \/ CallNothing(t) \/ ReturnFromCall(t)
    \/ SubjectStep(t)

PljitNext ==
    /\ \A t \in Threads : position[t] # "astray"
    /\ \E t \in Threads : RegistryStep(t) \/ CallStep(t)

PljitSpec == PljitInit /\ [][PljitNext]_pljit

-----------------------------------------------------------------------------
(* A call through a handle runs on the Function the handle was returned    *)
(* for, and that object stays where it is for as long as the call lasts:   *)
(* what register_function and get promise their callers, who register and  *)
(* call from any thread (Pljit.cpp:48-52, Pljit.hpp:59-61).                *)
HandleReachesItsFunction ==
    \A t \in Threads : position[t] \in {"holding", "calling"} =>
        Target(reference[t]) = callee[t]

(* It does if no registration has run at the same time as another or as a  *)
(* get; after that it need not ("TODO Thread safe", Pljit.cpp:49).  Calls  *)
(* need not be kept apart from registrations: the vector moves under a     *)
(* call that runs, and get has returned the object, which does not.        *)
HandlesReachWhenApart == ~overlapped => HandleReachesItsFunction
===============================================================================
