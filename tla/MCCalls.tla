------------------------------ MODULE MCCalls ------------------------------
(* Calls on a small instance.                                              *)
EXTENDS Calls

MCBudget == {1}

Declare(name, type) == [name |-> name, type |-> type]

\* Each served type, a name declared twice, a type that is not served.
MCDeclarations ==
    {<<Declare("A", "assets"), Declare("B", "database")>>,
     <<Declare("A", "database"), Declare("A", "invoke")>>,
     <<Declare("A", "invoke"), Declare("A", "other")>>}

=============================================================================
