----------------------------- MODULE MemoryStore -----------------------------
(***************************************************************************)
(* What a memory store promises (the MemoryStore port and its reference    *)
(* implementation InMemoryStore, memory_store.py): a dictionary from       *)
(* memory ids to memories.  A client's put takes effect at one instant or  *)
(* not at all, and the client learns which: a put that returned has stored *)
(* exactly the requested memory, a put that raised has stored nothing.     *)
(* The reads are functions of the dictionary at the instant of the read.   *)
(***************************************************************************)
CONSTANTS Client,     \* users of the store
          MemoryId,   \* keys
          Memory,     \* what may be stored under a key
          Tokens,     \* text -> set of terms: set(text.lower().split())
          NullText,   \* the text None
          NoMemory,   \* the key is absent
          NoRequest   \* the client has no put in progress

VARIABLES items,      \* MemoryId -> Memory, or NoMemory where absent
          request,    \* the put each client is waiting for
          outcome     \* how each client's latest put ended

storeVars == <<items, request, outcome>>

Init == /\ items \in [MemoryId -> Memory \cup {NoMemory}]
        /\ request = [c \in Client |-> NoRequest]
        /\ outcome = [c \in Client |-> "none"]

Request(c) ==
    /\ request[c] = NoRequest
    /\ \E id \in MemoryId, m \in Memory :
          request' = [request EXCEPT ![c] = [id |-> id, memory |-> m]]
    /\ outcome' = [outcome EXCEPT ![c] = "none"]
    /\ UNCHANGED items

\* The put takes effect and returns.
Put(c) ==
    /\ request[c] # NoRequest
    /\ items' = [items EXCEPT ![request[c].id] = request[c].memory]
    /\ request' = [request EXCEPT ![c] = NoRequest]
    /\ outcome' = [outcome EXCEPT ![c] = "stored"]

\* The put raises, or its client dies before it took effect.
Refuse(c) ==
    /\ request[c] # NoRequest
    /\ request' = [request EXCEPT ![c] = NoRequest]
    /\ outcome' \in {[outcome EXCEPT ![c] = r] : r \in {"raised", "none"}}
    /\ UNCHANGED items

Next == \E c \in Client : Request(c) \/ Put(c) \/ Refuse(c)

Spec == Init /\ [][Next]_storeVars

\* set(memory.text.lower().split()) of a stored memory
TermsOf(m) == IF m = NoMemory \/ m.text = NullText THEN {} ELSE Tokens[m.text]

\* candidate_ids(terms, scope): no filter on the validation state.
CandidateIds(terms, scope) ==
    {id \in MemoryId : /\ items[id] # NoMemory
                       /\ items[id].scope = scope
                       /\ TermsOf(items[id]) \cap terms # {}}

=============================================================================
