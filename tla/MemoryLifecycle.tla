--------------------------- MODULE MemoryLifecycle ---------------------------
(***************************************************************************)
(* The validation lifecycle of a memory (memory_lifecycle.py): the four    *)
(* states, the table of allowed transitions and the retrieval filter.      *)
(***************************************************************************)

ValidationState == {"unreviewed", "validated", "disputed", "superseded"}

\* _ALLOWED: the states each state may move to. "superseded" moves nowhere.
Allowed == [unreviewed |-> {"validated", "disputed", "superseded"},
            validated  |-> {"disputed", "superseded"},
            disputed   |-> {"validated", "superseded"},
            superseded |-> {}]

\* transition(current, target) returns target when this holds and raises
\* ValueError otherwise.
CanTransition(current, target) == target \in Allowed[current]

\* retrievable(state)
Retrievable(state) == state # "superseded"

=============================================================================
