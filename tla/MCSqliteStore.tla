---------------------------- MODULE MCSqliteStore ----------------------------
(***************************************************************************)
(* Small instances of SqliteStore for TLC.                                 *)
(***************************************************************************)
EXTENDS SqliteStore, TLC

CONSTANTS alpha, beta,    \* terms
          long, short,    \* texts: "alpha beta" and "beta"
          here, there,    \* scopes
          i1, i2          \* memory ids

MCTokens == long :> {alpha, beta} @@ short :> {beta}

LongHere   == [text |-> long, scope |-> here]
ShortThere == [text |-> short, scope |-> there]
NoText     == [text |-> NullText, scope |-> here]

MCOneMemory    == {LongHere}
MCMemory       == {LongHere, ShortThere}
MCMemoryOrNull == {LongHere, ShortThere, NoText}

\* One memory of an earlier session under i1, nothing under the other ids.
MCInitialRows ==
    {[id \in MemoryId |-> IF id = i1 THEN LongHere ELSE NoRow]}

\* The same, captured without a text.
MCNullTextRows ==
    {[id \in MemoryId |-> IF id = i1 THEN NoText ELSE NoRow]}

MCLegacyRows == MCInitialRows \cup MCNullTextRows

Symmetry == Permutations(Connection)

=============================================================================
