-------------------------- MODULE MCDispatchOutbox --------------------------
(* Instances of DispatchOutbox for TLC: all tasks belong to one run. *)
EXTENDS DispatchOutbox, TLC

MCRunOf == [t \in Task |-> CHOOSE r \in Run : TRUE]

(* Tasks, publishers and consumers are interchangeable. *)
Interchangeable ==
    Permutations(Task) \union Permutations(Publisher) \union Permutations(Consumer)

=============================================================================
