------------------------------ MODULE MCOptimizer ------------------------------
(* Functions of a parameter p, a variable v and a constant k, the greatest *)
(* integer.  Expressions are built as ASTCreator builds them: a unary node *)
(* around every operand.                                                   *)
EXTENDS Optimizer, TLC

p == 1
v == 2
k == 3

Symbols == << [type |-> "PARAMETER", value |-> 0], [type |-> "VARIABLE", value |-> 0],
              [type |-> "CONSTANT", value |-> MaxInt] >>

FunctionOf(statements) == [symbols |-> Symbols, statements |-> statements]

One == Unary("PLUS", Literal(1))
MinusOne == Unary("MINUS", Literal(1))
P == Unary("PLUS", Identifier(p))
V == Unary("PLUS", Identifier(v))
MinusK == Unary("MINUS", Identifier(k))
Least == Binary(MinusK, "MINUS", One)
Bracket(x) == Unary("PLUS", x)
Deadly == Binary(Bracket(Least), "DIVIDE", MinusOne)

BinariesOf(xs, operations) ==
    {Binary(l, operation, r) : l \in xs, operation \in operations, r \in xs}

Atoms == {One, P, MinusK}
First == Atoms \cup BinariesOf(Atoms, {"MINUS", "DIVIDE"})
Second == {V, P, Binary(V, "PLUS", P), Binary(One, "DIVIDE", V),
           Binary(V, "DIVIDE", MinusOne), Binary(V, "MULTIPLY", V),
           Binary(V, "DIVIDE", Bracket(Binary(P, "MINUS", One)))}
Results == Second \cup {Binary(V, "MINUS", Bracket(x)) : x \in Second}

(* A node and the nodes below it are given addresses: the heap, the        *)
(* statement, and the way to the node.                                     *)
RECURSIVE Placed(_, _)
Placed(x, at) ==
    CASE x.kind = "Unary"  -> [x EXCEPT !.input = Placed(@, Append(at, 1))]
                                  @@ [at |-> at]
      [] x.kind = "Binary" -> [x EXCEPT !.left = Placed(@, Append(at, 1)),
                                        !.right = Placed(@, Append(at, 2))]
                                  @@ [at |-> at]
      [] x.kind = "Identifier" -> x @@ [at |-> at]
      [] OTHER             -> x

Allocated(f, heap) ==
    [f EXCEPT !.statements =
        [i \in DOMAIN @ |-> [@[i] EXCEPT !.value = Placed(@, <<heap, i>>)]]]

MCAllFunctions ==
    {FunctionOf(<<Assignment(v, x), Return(y)>>) : x \in First, y \in Results}
    \cup {FunctionOf(<<Assignment(v, x), Assignment(v, y), Return(V)>>) :
            x \in First, y \in Second}
    \cup {FunctionOf(<<Return(x), Assignment(v, y), Return(z)>>) :
            x \in {P, Least}, y \in {One, P}, z \in {V, Deadly}}
    \cup {FunctionOf(<<Return(Binary(Bracket(Binary(x, "DIVIDE", V)), "PLUS", Bracket(Deadly)))>>) :
            x \in {One, P}}
    \cup {FunctionOf(<<Assignment(v, Binary(One, "MINUS", One)),
                       Return(Binary(Bracket(Binary(P, "DIVIDE", V)), "PLUS", Bracket(Deadly)))>>)}
    \cup {FunctionOf(<<Assignment(v, x), Return(y), Assignment(v, P), Return(V)>>) :
            x \in {One, P}, y \in Second}

MCFunctions == {Allocated(f, 1) : f \in MCAllFunctions}

(* The functions after, where the first one was; the copy also where none  *)
(* of its nodes was, unless a literal.                                     *)
Copy == FunctionOf(<<Assignment(v, P), Return(V)>>)
Divided == FunctionOf(<<Return(Binary(P, "DIVIDE", MinusOne))>>)
MCLater == {Allocated(Copy, 1), Allocated(Divided, 1), Allocated(Copy, 2)}

MCAddresses == Seq(1 .. 4)
MCElsewhere == <<0>>
===============================================================================
