------------------------------ MODULE NeuroCore2 ------------------------------
(***************************************************************************)
(* The domain (neuro_core_2.py): which memories a query retrieves from a   *)
(* scope and in which order.  Importance and confidence enter the score    *)
(* only by their sum, here a whole number of quarters ("weight").          *)
(***************************************************************************)
EXTENDS MemoryLifecycle, Naturals, Integers, Sequences, FiniteSets

CONSTANTS Tokens   \* text -> set(text.lower().split())

Overlap(query, memory) == query \cap Tokens[memory.text]

\* round(.5 * overlap + .25 * importance + .25 * confidence, 6) times
\* 16 * max(len(terms), 1): the same factor for all memories of one query.
Score(query, memory) ==
    8 * Cardinality(Overlap(query, memory)) + Cardinality(query) * memory.weight

\* The filters of retrieve(): exact scope, not superseded, some overlap.
Selected(query, scope, memory) ==
    /\ memory.scope = scope
    /\ Retrievable(memory.validation)
    /\ Overlap(query, memory) # {}

\* sorted(..., key=score, reverse=True) of the selected memories.  The order
\* of equal scores is that of the store's rows, which SQL leaves open.
Rankings(query, scope, found) ==
    LET hits == {f \in found : Selected(query, scope, f.memory)}
    IN  {s \in [1..Cardinality(hits) -> hits] :
            /\ \A f \in hits : \E i \in DOMAIN s : s[i] = f
            /\ \A i, j \in DOMAIN s : i < j =>
                  Score(query, s[i].memory) >= Score(query, s[j].memory)}

\* results[:max_results] when there are more; Python counts a negative bound
\* from the end.
Capped(results, max) ==
    IF Len(results) <= max THEN results
    ELSE SubSeq(results, 1, IF max >= 0 THEN max
                            ELSE IF Len(results) + max >= 0 THEN Len(results) + max ELSE 0)

=============================================================================
