----------------------- MODULE NeuroCoreRetrieval_proofs -----------------------
(***************************************************************************)
(* Proofs about the retrievals of NeuroCoreService: what they return, what *)
(* the log says they returned, and that no call runs on for ever, for any  *)
(* interleaving of any calls.  AuditInv counts the retrieved events of a   *)
(* call against the place in its loop; most steps touch neither            *)
(* (AuditQuiet).                                                           *)
(***************************************************************************)
EXTENDS NeuroCoreService_proofs

USE RequestsAssumption, MemoriesAssumption, TokensAssumption

(***************************************************************************)
(* A ranking lists each hit once (sorted() of a list).                     *)
(***************************************************************************)
LEMMA RankingListsOnce ==
    ASSUME NEW query, NEW scope, NEW S, IsFiniteSet(S), NEW r \in Rankings(query, scope, S)
    PROVE  /\ r \in Seq(S) /\ Len(r) \in Nat
           /\ \A i, j \in 1..Len(r) : r[i] = r[j] => i = j
<1> DEFINE hits == {f \in S : Selected(query, scope, f.memory)}
<1>1. IsFiniteSet(hits) /\ hits \subseteq S
  BY FS_Subset
<1>2. /\ r \in [1..Cardinality(hits) -> hits]
      /\ \A f \in hits : \E i \in DOMAIN r : r[i] = f
  BY DEF Rankings
<1> HIDE DEF hits
<1>3. Cardinality(hits) \in Nat
  BY <1>1, FS_CardinalityType
<1>4. IsFiniteSet(1..Cardinality(hits)) /\ Cardinality(1..Cardinality(hits)) = Cardinality(hits)
  BY <1>3, FS_Interval
<1>5. r \in Surjection(1..Cardinality(hits), hits)
  BY <1>2 DEF Surjection
<1>6. r \in Injection(1..Cardinality(hits), hits)
  BY <1>4, <1>5, FS_SurjSameCardinalityImpliesInj
<1>7. r \in Seq(S) /\ Len(r) = Cardinality(hits)
  BY <1>1, <1>2, <1>3
<1>8. QED
  BY <1>3, <1>6, <1>7 DEF Injection, IsInjective

(***************************************************************************)
(* The cap keeps a beginning of the ranking (results[:max_results]), of at *)
(* most max_results results; a negative one drops as many from the end.    *)
(***************************************************************************)
LEMMA CappedBeginning ==
    ASSUME NEW S, NEW r \in Seq(S), NEW max \in Int
    PROVE  /\ Len(Capped(r, max)) \in Nat /\ Len(Capped(r, max)) <= Len(r)
           /\ \A i \in 1..Len(Capped(r, max)) : Capped(r, max)[i] = r[i]
           /\ max >= 0 => Len(Capped(r, max)) = IF Len(r) <= max THEN Len(r) ELSE max
           /\ max < 0 => Len(Capped(r, max)) = IF Len(r) + max >= 0 THEN Len(r) + max ELSE 0
<1>1. CASE Len(r) <= max
  BY <1>1 DEF Capped
<1>2. CASE ~(Len(r) <= max)
  <2> DEFINE n == IF max >= 0 THEN max ELSE IF Len(r) + max >= 0 THEN Len(r) + max ELSE 0
  <2>1. n \in Nat /\ n <= Len(r) /\ Len(r) \in Nat
      /\ (max >= 0 => n = max)
      /\ (max < 0 => n = IF Len(r) + max >= 0 THEN Len(r) + max ELSE 0)
    BY <1>2
  <2>2. Capped(r, max) = SubSeq(r, 1, n)
    BY <1>2 DEF Capped
  <2> HIDE DEF n
  <2>3. \A i \in 1..n : r[i] \in S
    BY <2>1
  <2>4. /\ Len(SubSeq(r, 1, n)) = IF 1 <= n THEN n - 1 + 1 ELSE 0
        /\ \A i \in 1..n - 1 + 1 : SubSeq(r, 1, n)[i] = r[1 + i - 1]
    BY <2>1, <2>3, SubSeqProperties
  <2>5. Len(SubSeq(r, 1, n)) = n
    BY <2>1, <2>4
  <2>6. \A i \in 1..n : SubSeq(r, 1, n)[i] = r[i]
    <3>1. \A i \in 1..n : i \in 1..n - 1 + 1 /\ 1 + i - 1 = i
      BY <2>1
    <3>2. QED
      BY <2>4, <3>1
  <2>7. QED
    BY <2>1, <2>2, <2>5, <2>6
<1>3. QED
  BY <1>1, <1>2

(***************************************************************************)
(* What the cap leaves out is no better than anything it returns, and then *)
(* as many are returned as were asked for.                                 *)
(***************************************************************************)
THEOREM BestReturned ==
    ASSUME NEW query, NEW scope, NEW S, IsFiniteSet(S), NEW r \in Rankings(query, scope, S),
           NEW max \in Nat, NEW f \in S, Selected(query, scope, f.memory),
           \A i \in 1..Len(Capped(r, max)) : Capped(r, max)[i] # f
    PROVE  /\ Len(Capped(r, max)) = max
           /\ \A i \in 1..max : Score(query, Capped(r, max)[i].memory) >= Score(query, f.memory)
<1>1. r \in Seq(S) /\ Len(r) \in Nat /\ DOMAIN r = 1..Len(r)
  BY RankingListsOnce
<1>2. /\ Len(Capped(r, max)) = IF Len(r) <= max THEN Len(r) ELSE max
      /\ \A i \in 1..Len(Capped(r, max)) : Capped(r, max)[i] = r[i]
  BY <1>1, CappedBeginning
<1>3. PICK k \in DOMAIN r : r[k] = f
  BY DEF Rankings
<1>4. k \in 1..Len(r) /\ k > Len(Capped(r, max))
  BY <1>1, <1>2, <1>3
<1>5. Len(Capped(r, max)) = max
  <2>1. CASE Len(r) <= max
    BY <1>1, <1>2, <1>4, <2>1
  <2>2. CASE ~(Len(r) <= max)
    BY <1>2, <2>2
  <2>3. QED
    BY <2>1, <2>2
<1>6. ASSUME NEW i \in 1..max
      PROVE  Score(query, Capped(r, max)[i].memory) >= Score(query, f.memory)
  <2>1. i \in DOMAIN r /\ i < k /\ Capped(r, max)[i] = r[i]
    <3>1. max < k /\ k <= Len(r) /\ k \in Nat
      BY <1>1, <1>4, <1>5
    <3>2. i \in DOMAIN r /\ i < k
      BY <1>1, <3>1
    <3>3. QED
      BY <1>2, <1>5, <3>2
  <2>2. Score(query, r[i].memory) >= Score(query, r[k].memory)
    BY <1>3, <2>1 DEF Rankings
  <2>3. QED
    BY <1>3, <2>1, <2>2
<1>7. QED
  BY <1>5, <1>6

(***************************************************************************)
(* The retrieved events of a call are finitely many.                       *)
(***************************************************************************)
LEMMA RetrievedFinite ==
    ASSUME TypeOK, NEW c \in Call
    PROVE  /\ DOMAIN log = 1..Len(log) /\ Len(log) \in Nat
           /\ RetrievedBy(c) \subseteq 1..Len(log)
           /\ IsFiniteSet(RetrievedBy(c)) /\ Cardinality(RetrievedBy(c)) \in Nat
<1>1. DOMAIN log = 1..Len(log) /\ Len(log) \in Nat
  BY DEF TypeOK
<1>2. RetrievedBy(c) \subseteq 1..Len(log)
  BY <1>1 DEF RetrievedBy
<1>3. IsFiniteSet(1..Len(log))
  BY <1>1, FS_Interval
<1>4. IsFiniteSet(RetrievedBy(c))
  BY <1>2, <1>3, FS_Subset
<1>5. QED
  BY <1>1, <1>2, <1>4, FS_CardinalityType

(***************************************************************************)
(* No retrieved event of d is appended: where they are, which the how-     *)
(* maniest each is, and what they name stay.                               *)
(***************************************************************************)
LEMMA RetrievedSame ==
    ASSUME TypeOK, TypeOK', LogGrows, NEW d \in Call,
           \A i \in DOMAIN log' : \/ i \in DOMAIN log
                                  \/ log'[i].kind # "retrieved" \/ log'[i].call # d
    PROVE  /\ RetrievedBy(d)' = RetrievedBy(d)
           /\ \A i \in RetrievedBy(d) : log'[i] = log[i] /\ Nth(d, i)' = Nth(d, i)
<1>1. /\ DOMAIN log = 1..Len(log) /\ DOMAIN log' = 1..Len(log')
      /\ Len(log) \in Nat /\ Len(log') \in Nat
  BY DEF TypeOK
<1>2. \A i \in DOMAIN log : i \in DOMAIN log' /\ log'[i] = log[i]
  BY <1>1 DEF LogGrows
<1>3. RetrievedBy(d)' = RetrievedBy(d)
  BY <1>2 DEF RetrievedBy
<1>4. \A i \in RetrievedBy(d) : log'[i] = log[i]
  BY <1>2 DEF RetrievedBy
<1>5. \A i : Nth(d, i)' = Nth(d, i)
  BY <1>3 DEF Nth
<1>6. QED
  BY <1>3, <1>4, <1>5

(* A call that gets no retrieved event and keeps its results stays         *)
(* audited.                                                                *)
LEMMA AuditedSame ==
    ASSUME TypeOK, TypeOK', LogGrows, NEW d \in Call, Audited(d),
           \A i \in DOMAIN log' : \/ i \in DOMAIN log
                                  \/ log'[i].kind # "retrieved" \/ log'[i].call # d,
           results'[d] = results[d], logged'[d] = logged[d],
           pc'[d] = "done" /\ Asks(d, "retrieve")' => logged[d] = Len(results[d])
    PROVE  Audited(d)'
<1>1. /\ RetrievedBy(d)' = RetrievedBy(d)
      /\ \A i \in RetrievedBy(d) : log'[i] = log[i] /\ Nth(d, i)' = Nth(d, i)
  BY RetrievedSame
<1>2. DistinctIds(d)'
  BY DEF Audited, DistinctIds
<1>3. Cardinality(RetrievedBy(d))' = logged[d] /\ logged[d] <= Len(results[d])
  BY <1>1 DEF Audited
<1>4. \A i \in RetrievedBy(d)' : log'[i].target = results'[d][Nth(d, i)'].id
  BY <1>1 DEF Audited
<1>5. QED
  BY <1>2, <1>3, <1>4 DEF Audited

(***************************************************************************)
(* Steps that neither gather, rank nor log for a retrieval.                *)
(***************************************************************************)
LEMMA AuditQuiet ==
    ASSUME AuditInv, TypeOK', LogGrows, NEW c \in Call,
           UNCHANGED <<ids, found, results, logged>>,
           \A d \in Call \ {c} : pc'[d] = pc[d] /\ request'[d] = request[d],
           \A i \in DOMAIN log' : i \in DOMAIN log \/ log'[i].kind # "retrieved",
           pc[c] \in {"gets", "retrieved_events"} \cup Ended => pc'[c] \in Ended,
           pc'[c] = "done" /\ Asks(c, "retrieve")' => logged[c] = Len(results[c])
    PROVE  \A d \in Call : (Gathered(d) /\ Audited(d))'
<1> SUFFICES ASSUME NEW d \in Call PROVE Gathered(d)' /\ Audited(d)'
  OBVIOUS
<1>0. TypeOK /\ Gathered(d) /\ Audited(d)
  BY DEF AuditInv, Inv
<1>1. Gathered(d)'
  BY <1>0 DEF Gathered
<1>2. pc'[d] = "done" /\ Asks(d, "retrieve")' => logged[d] = Len(results[d])
  BY <1>0 DEF Audited, Asks, Op
<1>3. QED
  BY <1>0, <1>1, <1>2, AuditedSame

(***************************************************************************)
(* A candidate is got: a new one, which leaves the list (the loop over     *)
(* candidate_ids).                                                         *)
(***************************************************************************)
LEMMA AuditGetCandidate ==
    ASSUME AuditInv, TypeOK', NEW c \in Call, GetCandidate(c)
    PROVE  \A d \in Call : (Gathered(d) /\ Audited(d))'
<1> SUFFICES ASSUME NEW d \in Call PROVE Gathered(d)' /\ Audited(d)'
  OBVIOUS
<1>0. TypeOK /\ Gathered(d) /\ Audited(d)
  BY DEF AuditInv, Inv
<1>1. UNCHANGED <<memories, log, pc, request, results, logged>> /\ pc[c] = "gets"
  BY DEF GetCandidate
<1>2. PICK id \in ids[c] :
         /\ ids' = [ids EXCEPT ![c] = @ \ {id}]
         /\ found' = [found EXCEPT ![c] =
                         @ \cup {[id |-> id, memory |-> m] : m \in {memories[id]} \ {NoMemory}}]
  BY DEF GetCandidate
<1>3. LogGrows
  BY <1>0, <1>1 DEF LogGrows, TypeOK
<1>4. Audited(d)'
  BY <1>0, <1>1, <1>3, AuditedSame DEF Audited, Asks, Op
<1>5. Gathered(d)'
  <2>1. CASE d # c
    <3>1. ids'[d] = ids[d] /\ found'[d] = found[d]
      BY <1>0, <1>2, <2>1 DEF TypeOK
    <3>2. QED
      BY <1>0, <1>1, <3>1 DEF Gathered
  <2>2. CASE d = c
    <3>1. /\ ids'[c] = ids[c] \ {id}
          /\ \A h \in found'[c] : h \in found[c] \/ h = [id |-> id, memory |-> memories[id]]
      BY <1>0, <1>2 DEF TypeOK
    <3>2. \A h \in found'[c] : h.id \notin ids'[c]
      BY <1>0, <2>2, <3>1 DEF Gathered
    <3>3. \A h, k \in found'[c] : h.id = k.id => h = k
      BY <1>0, <1>2, <2>2, <3>1 DEF Gathered
    <3>4. QED
      BY <1>0, <1>1, <2>2, <3>2, <3>3 DEF Gathered
  <2>3. QED
    BY <2>1, <2>2
<1>6. QED
  BY <1>4, <1>5

(***************************************************************************)
(* The ranking of the memories got has each once; no event is there yet.   *)
(***************************************************************************)
LEMMA AuditRank ==
    ASSUME AuditInv, TypeOK', NEW c \in Call, Rank(c)
    PROVE  \A d \in Call : (Gathered(d) /\ Audited(d))'
<1> SUFFICES ASSUME NEW d \in Call PROVE Gathered(d)' /\ Audited(d)'
  OBVIOUS
<1>0. TypeOK /\ Gathered(d) /\ Audited(d) /\ Labelled(c) /\ Retrieved(c)
  BY DEF AuditInv, Inv
<1>1. /\ UNCHANGED <<memories, log, request, current, ids, found, logged>>
      /\ pc[c] = "gets" /\ Goto(c, "retrieved_events")
  BY DEF Rank
<1>2. PICK r \in Rankings(request[c].query, request[c].scope, found[c]) :
         results' = [results EXCEPT ![c] = Capped(r, request[c].max)]
  BY DEF Rank
<1>3. pc' = [pc EXCEPT ![c] = "retrieved_events"]
  BY <1>1 DEF Goto
<1>4. LogGrows
  BY <1>0, <1>1 DEF LogGrows, TypeOK
<1>5. CASE d # c
  <2>1. results'[d] = results[d] /\ pc'[d] = pc[d]
    BY <1>0, <1>2, <1>3, <1>5 DEF TypeOK
  <2>2. Audited(d)'
    BY <1>0, <1>1, <1>4, <2>1, AuditedSame DEF Audited, Asks, Op
  <2>3. QED
    BY <1>0, <1>1, <2>1, <2>2 DEF Gathered
<1>6. CASE d = c
  <2>1. results[c] = <<>> /\ pc'[c] = "retrieved_events"
    BY <1>0, <1>1, <1>3, <1>6 DEF Gathered, TypeOK, Ended
  <2>2. Gathered(c)'
    BY <1>0, <1>1, <1>6, <2>1 DEF Gathered
  <2>3. logged[c] = 0 /\ RetrievedBy(c) = {}
    <3>1. logged[c] = 0 /\ Cardinality(RetrievedBy(c)) = 0
      BY <1>0, <1>6, <2>1 DEF Audited, TypeOK
    <3>2. QED
      BY <1>0, <3>1, RetrievedFinite, FS_EmptySet
  <2>4. RetrievedBy(c)' = {} /\ logged'[c] = 0
    BY <1>1, <2>3 DEF RetrievedBy
  <2>5. /\ r \in Seq(found[c]) /\ Len(r) \in Nat
        /\ \A i, j \in 1..Len(r) : r[i] = r[j] => i = j
    BY <1>0, <1>2, RankingListsOnce DEF Retrieved
  <2>6. request[c].max \in Int
    BY <1>0, <1>1, RequestShape DEF Labelled
  <2>7. /\ results'[c] = Capped(r, request[c].max)
        /\ results'[c] \in Seq(Hit)
    BY <1>0, <1>2 DEF TypeOK
  <2>8. /\ Len(results'[c]) \in Nat /\ Len(results'[c]) <= Len(r)
        /\ \A i \in 1..Len(results'[c]) : results'[c][i] = r[i]
    BY <2>5, <2>6, <2>7, CappedBeginning
  <2>9. DistinctIds(c)'
    <3>1. ASSUME NEW i \in DOMAIN results'[c], NEW j \in DOMAIN results'[c], i # j
          PROVE  results'[c][i].id # results'[c][j].id
      <4>1. i \in 1..Len(results'[c]) /\ j \in 1..Len(results'[c])
        BY <2>7
      <4>2. i \in 1..Len(r) /\ j \in 1..Len(r)
        BY <2>5, <2>8, <4>1
      <4>3. r[i] \in found[c] /\ r[j] \in found[c] /\ r[i] # r[j]
        BY <2>5, <3>1, <4>2
      <4>4. r[i].id # r[j].id
        BY <1>0, <1>6, <4>3 DEF Gathered
      <4>5. QED
        BY <2>8, <4>1, <4>4
    <3>2. QED
      BY <3>1 DEF DistinctIds
  <2>10. Audited(c)'
    BY <2>1, <2>4, <2>8, <2>9, FS_EmptySet DEF Audited
  <2>11. QED
    BY <1>6, <2>2, <2>10
<1>7. QED
  BY <1>5, <1>6

(***************************************************************************)
(* The next result gets its event (one _event per result, in rank order).  *)
(***************************************************************************)
LEMMA AuditRetrievedEvent ==
    ASSUME AuditInv, TypeOK', NEW c \in Call, RetrievedEvent(c)
    PROVE  \A d \in Call : (Gathered(d) /\ Audited(d))'
<1> SUFFICES ASSUME NEW d \in Call PROVE Gathered(d)' /\ Audited(d)'
  OBVIOUS
<1>0. TypeOK /\ Gathered(d) /\ Audited(d)
  BY DEF AuditInv, Inv
<1>1. /\ UNCHANGED <<memories, pc, request, current, ids, found, results>>
      /\ pc[c] = "retrieved_events" /\ logged[c] < Len(results[c])
      /\ logged' = [logged EXCEPT ![c] = @ + 1]
  BY DEF RetrievedEvent
<1> DEFINE hit == results[c][logged[c] + 1]
<1>2. AppendEvent(c, "retrieved", hit.memory.scope, hit.id, "selected")
  BY DEF RetrievedEvent
<1> DEFINE e == [call |-> c, kind |-> "retrieved", scope |-> hit.memory.scope,
                 target |-> hit.id, outcome |-> "selected"]
<1>3. log' = Append(log, e)
  BY <1>2 DEF AppendEvent
<1>4. e.call = c /\ e.kind = "retrieved" /\ e.target = hit.id
  OBVIOUS
<1> HIDE DEF hit, e
<1>5. /\ DOMAIN log = 1..Len(log) /\ Len(log) \in Nat
      /\ DOMAIN log' = 1..(Len(log) + 1) /\ Len(log') = Len(log) + 1
      /\ \A i \in 1..Len(log) : log'[i] = log[i]
      /\ log'[Len(log) + 1] = e
  BY <1>0, <1>3 DEF TypeOK
<1>6. LogGrows
  BY <1>5 DEF LogGrows
<1>7. Gathered(d)'
  BY <1>0, <1>1 DEF Gathered
<1>8. CASE d # c
  <2>1. \A i \in DOMAIN log' : i \in DOMAIN log \/ log'[i].call # d
    BY <1>4, <1>5, <1>8
  <2>2. logged'[d] = logged[d]
    BY <1>0, <1>1, <1>8 DEF TypeOK
  <2>3. Audited(d)'
    BY <1>0, <1>1, <1>6, <2>1, <2>2, AuditedSame DEF Audited, Asks, Op
  <2>4. QED
    BY <1>7, <2>3
<1>9. CASE d = c
  <2>0. PICK n : n = Len(log) + 1
    OBVIOUS
  <2>1. /\ RetrievedBy(c) \subseteq 1..Len(log) /\ IsFiniteSet(RetrievedBy(c))
        /\ Cardinality(RetrievedBy(c)) = logged[c] /\ logged[c] \in Nat
    BY <1>0, <1>9, RetrievedFinite DEF Audited, TypeOK
  <2>2. RetrievedBy(c)' = RetrievedBy(c) \cup {n} /\ n \notin RetrievedBy(c)
    BY <1>4, <1>5, <2>0, <2>1 DEF RetrievedBy
  <2>3. Cardinality(RetrievedBy(c))' = logged[c] + 1 /\ logged'[c] = logged[c] + 1
    <3>1. Cardinality(RetrievedBy(c) \cup {n}) = logged[c] + 1
      BY <2>1, <2>2, FS_AddElement
    <3>2. QED
      BY <1>0, <1>1, <2>2, <3>1 DEF TypeOK
  <2>4. ASSUME NEW i \in RetrievedBy(c)
        PROVE  log'[i].target = results[c][Nth(c, i)'].id
    <3>1. i \in 1..Len(log) /\ log'[i] = log[i]
      BY <1>5, <2>1
    <3>2. {j \in RetrievedBy(c) \cup {n} : j <= i} = {j \in RetrievedBy(c) : j <= i}
      BY <1>5, <2>0, <2>1, <3>1
    <3>3. Nth(c, i)' = Nth(c, i)
      BY <2>2, <3>2 DEF Nth
    <3>4. QED
      BY <1>0, <1>9, <3>1, <3>3 DEF Audited
  <2>5. log'[n].target = results[c][Nth(c, n)'].id
    <3>1. {j \in RetrievedBy(c) \cup {n} : j <= n} = RetrievedBy(c) \cup {n}
      BY <1>5, <2>0, <2>1
    <3>2. Nth(c, n)' = logged[c] + 1
      BY <2>2, <2>3, <3>1 DEF Nth
    <3>3. QED
      BY <1>4, <1>5, <2>0, <3>2 DEF hit
  <2>6. \A i \in RetrievedBy(c)' : log'[i].target = results'[c][Nth(c, i)'].id
    BY <1>1, <2>2, <2>4, <2>5
  <2>7. logged[c] + 1 <= Len(results[c]) /\ DistinctIds(c)'
    BY <1>0, <1>1, <1>9, <2>1 DEF Audited, DistinctIds, TypeOK
  <2>8. Audited(c)'
    BY <1>1, <2>3, <2>6, <2>7 DEF Audited
  <2>9. QED
    BY <1>7, <1>9, <2>8
<1>10. QED
  BY <1>8, <1>9

(***************************************************************************)
(* Every other step of a call leaves its retrieval alone or ends it.       *)
(***************************************************************************)
LEMMA AuditOther ==
    ASSUME AuditInv, Inv', NEW c \in Call, Invoke(c) \/ Step(c) \/ Crash(c),
           ~GetCandidate(c), ~Rank(c), ~RetrievedEvent(c)
    PROVE  \A d \in Call : (Gathered(d) /\ Audited(d))'
<1>0. TypeOK /\ TypeOK' /\ Inv /\ Labelled(c) /\ Gathered(c) /\ Audited(c)
  BY DEF AuditInv, Inv
<1>1. CASE Invoke(c)
  <2>1. PICK r \in Requests, label \in {"tool_denial", "open", "get_current", "authorize"} :
           Begin(c, r, label)
    BY <1>1 DEF Invoke, CaptureTool, RetrieveTool, ValidateTool, ServiceCall, ServiceEntry
  <2>2. /\ UNCHANGED <<log, ids, found, results, logged>> /\ pc[c] = "ready"
        /\ \A d \in Call \ {c} : pc'[d] = pc[d] /\ request'[d] = request[d]
        /\ pc'[c] = label
    BY <1>0, <2>1 DEF Begin, Goto, TypeOK
  <2>3. LogGrows
    BY <1>0, <2>2 DEF LogGrows, TypeOK
  <2>4. QED
    BY <1>0, <2>1, <2>2, <2>3, AuditQuiet DEF Ended
<1>2. CASE Candidates(c)
  <2>1. /\ UNCHANGED <<log, request, found, results, logged>>
        /\ pc[c] = "candidates" /\ Goto(c, "gets")
        /\ \A d \in Call \ {c} : ids'[d] = ids[d]
    BY <1>0, <1>2 DEF Candidates, TypeOK
  <2>2. pc'[c] = "gets" /\ \A d \in Call \ {c} : pc'[d] = pc[d]
    BY <1>0, <2>1 DEF Goto, TypeOK
  <2>3. LogGrows
    BY <1>0, <2>1 DEF LogGrows, TypeOK
  <2>4. ASSUME NEW d \in Call PROVE (Gathered(d) /\ Audited(d))'
    <3>0. Gathered(d) /\ Audited(d)
      BY DEF AuditInv
    <3>1. found[c] = {} /\ results[c] = <<>>
      BY <1>0, <2>1 DEF Gathered, Ended
    <3>2. Gathered(d)'
      BY <2>1, <2>2, <3>0, <3>1 DEF Gathered
    <3>3. Audited(d)'
      BY <1>0, <2>1, <2>2, <2>3, <3>0, AuditedSame DEF Audited, Asks, Op
    <3>4. QED
      BY <3>2, <3>3
  <2>5. QED
    BY <2>4
<1>3. ASSUME UNCHANGED log, NEW label \in PC \ {"ready"}, Goto(c, label),
             UNCHANGED <<request, ids, found, results, logged>>,
             pc[c] \in {"gets", "retrieved_events"} \cup Ended => label \in Ended,
             label = "done" /\ Asks(c, "retrieve") => logged[c] = Len(results[c])
      PROVE  \A d \in Call : (Gathered(d) /\ Audited(d))'
  <2>1. pc'[c] = label /\ \A d \in Call \ {c} : pc'[d] = pc[d]
    BY <1>0, <1>3 DEF Goto, TypeOK
  <2>2. LogGrows
    BY <1>0, <1>3 DEF LogGrows, TypeOK
  <2>3. QED
    BY <1>0, <1>3, <2>1, <2>2, AuditQuiet DEF Asks, Op
<1>4. CASE Crash(c) \/ StoreRaises(c) \/ ToolDenialUnrecorded(c) \/ IllegalTransition(c)
  <2>1. \E label \in {"crashed", "raised", "denied"} : Goto(c, label)
    BY <1>4 DEF Crash, StoreRaises, ToolDenialUnrecorded, IllegalTransition
  <2>2. UNCHANGED <<log, request, ids, found, results, logged>>
    BY <1>4 DEF Crash, StoreRaises, ToolDenialUnrecorded, IllegalTransition
  <2>3. QED
    BY <1>3, <2>1, <2>2 DEF PC, Ended
<1>5. CASE OpenStore(c) \/ GetCurrent(c) \/ Transition(c) \/ Put(c) \/ Unchecked(c)
  <2>1. PICK label \in {"raised", "get_current", "authorize", "put", "effect_event", "candidates",
                        "transition"} :
           Goto(c, label)
    <3>1. CASE OpenStore(c) \/ GetCurrent(c) \/ Transition(c) \/ Put(c)
      BY <3>1 DEF OpenStore, GetCurrent, Transition, Put, ServiceEntry
    <3>2. CASE Unchecked(c)
      <4>1. Op(c) \in {"capture", "retrieve", "validate"}
        BY <1>0, <3>2, RequestShape DEF Unchecked, Labelled
      <4>2. QED
        BY <3>2, <4>1 DEF Unchecked, Proceed, Work
    <3>3. QED
      BY <1>5, <3>1, <3>2
  <2>2. UNCHANGED <<log, request, ids, found, results, logged>>
    BY <1>5 DEF OpenStore, GetCurrent, Transition, Put, Unchecked, Proceed
  <2>3. pc[c] \in {"open", "get_current", "transition", "put", "authorize"}
    BY <1>5 DEF OpenStore, GetCurrent, Transition, Put, Unchecked
  <2>4. QED
    BY <1>3, <2>1, <2>2, <2>3 DEF PC, Ended
<1>6. CASE ReturnResults(c)
  <2>1. logged[c] = Len(results[c])
    BY <1>0, <1>6 DEF ReturnResults, Audited, TypeOK
  <2>2. QED
    BY <1>3, <1>6, <2>1 DEF ReturnResults, PC, Ended
<1>7. CASE ToolDenial(c) \/ Deny(c) \/ Allow(c) \/ EffectEvent(c)
  <2>1. PICK kind, scope, target, outcome :
             /\ kind \in {"authorization_decided", "captured", "validation_changed"}
             /\ AppendEvent(c, kind, scope, target, outcome)
    BY <1>7 DEF ToolDenial, Deny, Allow, EffectEvent, AuditAuthorization
  <2>2. /\ \A i \in DOMAIN log' : i \in DOMAIN log \/ log'[i].kind # "retrieved"
        /\ \A i \in DOMAIN log : i \in DOMAIN log' /\ log'[i] = log[i]
    BY <1>0, <2>1, AppendIsLogStep DEF LogStepOf
  <2>3. LogGrows
    <3>1. /\ DOMAIN log = 1..Len(log) /\ Len(log) \in Nat /\ DOMAIN log' = 1..Len(log')
          /\ Len(log') \in Nat
      BY <1>0 DEF TypeOK
    <3>2. QED
      BY <2>2, <3>1 DEF LogGrows
  <2>4. UNCHANGED <<request, ids, found, results, logged>>
    BY <1>7 DEF ToolDenial, Deny, Allow, Proceed, EffectEvent
  <2>5. pc[c] \in {"tool_denial", "authorize", "effect_event"}
    BY <1>7 DEF ToolDenial, Deny, Allow, EffectEvent
  <2>6. \A d \in Call \ {c} : pc'[d] = pc[d]
    BY <1>0, <1>7 DEF ToolDenial, Deny, Allow, Proceed, EffectEvent, Goto, TypeOK
  <2>7. pc'[c] = "done" => ~Asks(c, "retrieve")'
    <3>1. CASE EffectEvent(c)
      BY <1>0, <2>4, <3>1 DEF EffectEvent, Labelled, Asks, Op
    <3>2. CASE ToolDenial(c) \/ Deny(c)
      BY <1>0, <3>2 DEF ToolDenial, Deny, Goto, TypeOK
    <3>3. CASE Allow(c)
      <4>1. Op(c) \in {"capture", "retrieve", "validate"}
        BY <1>0, <3>3, RequestShape DEF Allow, Labelled
      <4>2. pc'[c] = Work[Op(c)]
        BY <1>0, <3>3 DEF Allow, Proceed, Goto, TypeOK
      <4>3. QED
        BY <4>1, <4>2 DEF Work
    <3>4. QED
      BY <1>7, <3>1, <3>2, <3>3
  <2>8. QED
    BY <1>0, <2>2, <2>3, <2>4, <2>5, <2>6, <2>7, AuditQuiet DEF Ended
<1>8. QED
  BY <1>1, <1>2, <1>4, <1>5, <1>6, <1>7 DEF Step, Progress

(***************************************************************************)
(* Every step keeps what a retrieval has logged in line with its results.  *)
(***************************************************************************)
THEOREM AuditStep == AuditInv /\ [Next]_vars => AuditInv'
<1> SUFFICES ASSUME AuditInv, [Next]_vars PROVE AuditInv'
  OBVIOUS
<1>1. Inv /\ Inv' /\ TypeOK /\ TypeOK'
  BY InvStep DEF AuditInv, Inv
<1>2. ASSUME NEW c \in Call, Invoke(c) \/ Step(c) \/ Crash(c)
      PROVE  \A d \in Call : (Gathered(d) /\ Audited(d))'
  BY <1>1, <1>2, AuditGetCandidate, AuditRank, AuditRetrievedEvent, AuditOther
<1>3. CASE UNCHANGED vars
  <2>1. LogGrows
    BY <1>1, <1>3 DEF vars, LogGrows, TypeOK
  <2>2. ASSUME NEW d \in Call PROVE (Gathered(d) /\ Audited(d))'
    <3>1. Gathered(d) /\ Audited(d)
      BY DEF AuditInv
    <3>2. Gathered(d)'
      BY <1>3, <3>1 DEF vars, Gathered
    <3>3. Audited(d)'
      BY <1>1, <1>3, <2>1, <3>1, AuditedSame DEF vars, Audited, Asks, Op
    <3>4. QED
      BY <3>2, <3>3
  <2>3. QED
    BY <1>1, <2>2 DEF AuditInv
<1>4. QED
  BY <1>1, <1>2, <1>3 DEF Next, AuditInv

(* Nothing is retrieved or logged at the start.                            *)
LEMMA AuditInit == Init => AuditInv
<1> SUFFICES ASSUME Init PROVE AuditInv
  OBVIOUS
<1>1. ASSUME NEW c \in Call PROVE Gathered(c) /\ Audited(c)
  <2>1. RetrievedBy(c) = {} /\ results[c] = <<>> /\ logged[c] = 0 /\ found[c] = {}
    BY DEF Init, RetrievedBy
  <2>2. QED
    BY <2>1, FS_EmptySet DEF Init, Gathered, Audited, DistinctIds
<1>2. QED
  BY <1>1, InitInv DEF AuditInv

(***************************************************************************)
(* In every reachable state each retrieval has gathered each candidate     *)
(* once and logged exactly the beginning of its results.                   *)
(***************************************************************************)
THEOREM AuditInvariance == Spec => []AuditInv
  BY AuditInit, AuditStep, PTL DEF Spec

(***************************************************************************)
(* The audit of a retrieval: at any time the log names the first of its    *)
(* results, in rank order and each once, and all of them once it returned. *)
(***************************************************************************)
THEOREM RetrievalsAudited == Spec => []RetrievalAudited
<1>1. AuditInv => RetrievalAudited
  BY DEF AuditInv, Audited, RetrievalAudited
<1>2. QED
  BY <1>1, AuditInvariance, PTL

-----------------------------------------------------------------------------
Moves(c) == Invoke(c) \/ Step(c) \/ Crash(c)

(***************************************************************************)
(* A step of one call moves no other call.                                 *)
(***************************************************************************)
LEMMA StepIsLocal ==
    ASSUME TypeOK, NEW c \in Call, Moves(c)
    PROVE  \A d \in Call \ {c} : pc'[d] = pc[d] /\ request'[d] = request[d]
<1>1. CASE Invoke(c)
  <2>1. PICK r, label : Begin(c, r, label)
    BY <1>1 DEF Invoke, CaptureTool, RetrieveTool, ValidateTool, ServiceCall
  <2>2. QED
    BY <2>1 DEF Begin, Goto, TypeOK
<1>2. CASE ~Invoke(c)
  <2>1. request' = request
    BY <1>2 DEF Moves, Step, Progress, Crash, StoreRaises, ToolDenial, ToolDenialUnrecorded,
       OpenStore, GetCurrent, Allow, Unchecked, Proceed, Deny, Transition, IllegalTransition, Put,
       EffectEvent, Candidates, GetCandidate, Rank, RetrievedEvent, ReturnResults
  <2>2. pc' = pc \/ \E label : pc' = [pc EXCEPT ![c] = label]
    BY <1>2 DEF Moves, Step, Progress, Crash, StoreRaises, ToolDenial, ToolDenialUnrecorded,
       OpenStore, GetCurrent, Allow, Unchecked, Proceed, Deny, Transition, IllegalTransition, Put,
       EffectEvent, Candidates, GetCandidate, Rank, RetrievedEvent, ReturnResults, Goto
  <2>3. QED
    BY <2>1, <2>2 DEF TypeOK
<1>3. QED
  BY <1>1, <1>2

(***************************************************************************)
(* The store holds finitely many memories, so that a query finds finitely  *)
(* many candidates, however many ids there are.                            *)
(***************************************************************************)
StoredIds == {id \in MemoryId : memories[id] # NoMemory}

FiniteInv == AuditInv /\ IsFiniteSet(StoredIds) /\ \A c \in Call : IsFiniteSet(ids[c])

(* The store starts with finitely many memories.                           *)
LEMMA FiniteInit == Init => FiniteInv
<1> SUFFICES ASSUME Init PROVE FiniteInv
  OBVIOUS
<1>1. StoredIds \subseteq Known
  BY DEF Init, StoredIds
<1>2. IsFiniteSet(StoredIds)
  BY <1>1, FS_Subset
<1>3. QED
  BY <1>2, AuditInit, FS_EmptySet DEF Init, FiniteInv

(* A step adds at most one memory, and a query finds stored ones only.     *)
LEMMA FiniteMove ==
    ASSUME FiniteInv, NEW c \in Call, Moves(c)
    PROVE  IsFiniteSet(StoredIds)' /\ \A d \in Call : IsFiniteSet(ids'[d])
<1>0. TypeOK /\ Inv /\ AuditInv
  BY DEF FiniteInv, AuditInv, Inv
<1>1. CASE Put(c)
  <2>1. ids' = ids
    BY <1>1 DEF Put
  <2>2. StoredIds' \subseteq StoredIds \cup {Target(c)}
    BY <1>0, <1>1, PutFacts DEF StoredIds
  <2>3. IsFiniteSet(StoredIds \cup {Target(c)})
    BY FS_AddElement DEF FiniteInv
  <2>4. IsFiniteSet(StoredIds')
    BY <2>2, <2>3, FS_Subset
  <2>5. QED
    BY <2>1, <2>4 DEF FiniteInv
<1>2. CASE Candidates(c) \/ GetCandidate(c)
  <2>1. memories' = memories /\ \A d \in Call \ {c} : ids'[d] = ids[d]
    BY <1>0, <1>2 DEF Candidates, GetCandidate, TypeOK
  <2>2. ids'[c] \subseteq StoredIds \/ ids'[c] \subseteq ids[c]
    BY <1>0, <1>2 DEF Candidates, GetCandidate, TypeOK, IsCandidate, Matches, StoredIds
  <2>3. IsFiniteSet(ids'[c])
    BY <2>2, FS_Subset DEF FiniteInv
  <2>4. QED
    BY <2>1, <2>3 DEF FiniteInv, StoredIds
<1>3. CASE UNCHANGED <<memories, ids>>
  BY <1>3 DEF FiniteInv, StoredIds
<1>4. Put(c) \/ Candidates(c) \/ GetCandidate(c) \/ UNCHANGED <<memories, ids>>
  BY DEF Moves, Invoke, CaptureTool, RetrieveTool, ValidateTool, ServiceCall, Begin, Step,
     Progress, Crash, StoreRaises, ToolDenial, ToolDenialUnrecorded, OpenStore, GetCurrent, Allow,
     Unchecked, Proceed, Deny, Transition, IllegalTransition, EffectEvent, Rank, RetrievedEvent,
     ReturnResults
<1>5. QED
  BY <1>1, <1>2, <1>3, <1>4

(***************************************************************************)
(* The store stays finite, and so does what each loop of a retrieval has   *)
(* left.                                                                   *)
(***************************************************************************)
THEOREM FiniteStep == FiniteInv /\ [Next]_vars => FiniteInv'
<1> SUFFICES ASSUME FiniteInv, [Next]_vars PROVE FiniteInv'
  OBVIOUS
<1>1. AuditInv'
  BY AuditStep DEF FiniteInv
<1>2. CASE UNCHANGED vars
  BY <1>1, <1>2 DEF vars, FiniteInv, StoredIds
<1>3. CASE ~UNCHANGED vars
  BY <1>1, <1>3, FiniteMove DEF FiniteInv, Next, Moves
<1>4. QED
  BY <1>2, <1>3

(***************************************************************************)
(* Every step of a call brings it nearer to its end.                       *)
(***************************************************************************)
LEMMA MoveAdvances ==
    ASSUME FiniteInv, NEW c \in Call, Moves(c)
    PROVE  Advances(c)
<1>0. TypeOK /\ Inv /\ Labelled(c) /\ Audited(c)
  BY DEF FiniteInv, AuditInv, Inv
<1>1. CASE Invoke(c)
  <2>1. PICK r \in Requests, label \in {"tool_denial", "open", "get_current", "authorize"} : Begin(c, r, label)
    BY <1>1 DEF Invoke, CaptureTool, RetrieveTool, ValidateTool, ServiceCall, ServiceEntry
  <2>2. pc[c] = "ready" /\ pc'[c] = label
    BY <1>0, <2>1 DEF Begin, Goto, TypeOK
  <2>3. QED
    BY <2>2 DEF Advances, Stage
<1>2. CASE Crash(c) \/ StoreRaises(c)
  <2>1. pc'[c] \in {"crashed", "raised"} /\ pc[c] \in PC \ (Ended \cup {"ready"})
    BY <1>0, <1>2 DEF Crash, StoreRaises, UsesStore, Goto, TypeOK, Ended, PC
  <2>2. Stage[pc'[c]] = 0 /\ Stage[pc[c]] > 0
    BY <2>1 DEF PC, Ended, Stage
  <2>3. QED
    BY <2>2 DEF Advances
<1>3. CASE ToolDenial(c) \/ ToolDenialUnrecorded(c) \/ GetCurrent(c) \/ Deny(c) \/ Transition(c)
           \/ IllegalTransition(c) \/ Put(c) \/ EffectEvent(c) \/ Candidates(c) \/ Rank(c)
           \/ ReturnResults(c)
  <2>1. \/ pc[c] = "tool_denial" /\ pc'[c] = "denied"
        \/ pc[c] = "get_current" /\ pc'[c] \in {"raised", "authorize"}
        \/ pc[c] = "authorize" /\ pc'[c] = "denied"
        \/ pc[c] = "transition" /\ pc'[c] \in {"put", "raised"}
        \/ pc[c] = "put" /\ pc'[c] = "effect_event"
        \/ pc[c] \in {"effect_event", "retrieved_events"} /\ pc'[c] = "done"
        \/ pc[c] = "candidates" /\ pc'[c] = "gets"
        \/ pc[c] = "gets" /\ pc'[c] = "retrieved_events"
    BY <1>0, <1>3 DEF ToolDenial, ToolDenialUnrecorded, GetCurrent, Deny, Transition,
       IllegalTransition, Put, EffectEvent, Candidates, Rank, ReturnResults, Goto, TypeOK
  <2>2. QED
    BY <2>1 DEF Advances, Stage
<1>4. CASE OpenStore(c) \/ Allow(c) \/ Unchecked(c)
  <2>1. Op(c) \in {"capture", "retrieve", "validate"}
    BY <1>0, <1>4, RequestShape DEF OpenStore, Allow, Unchecked, Labelled
  <2>2. \/ pc[c] = "open" /\ pc'[c] = ServiceEntry(Op(c))
        \/ pc[c] = "authorize" /\ pc'[c] = Work[Op(c)]
    BY <1>0, <1>4 DEF OpenStore, Allow, Unchecked, Proceed, Goto, TypeOK
  <2>3. QED
    BY <2>1, <2>2 DEF Advances, Stage, ServiceEntry, Work
<1>5. CASE GetCandidate(c)
  <2>1. PICK id \in ids[c] : ids'[c] = ids[c] \ {id}
    BY <1>0, <1>5 DEF GetCandidate, TypeOK
  <2>2. /\ IsFiniteSet(ids[c]) /\ Cardinality(ids[c]) \in Nat
        /\ Cardinality(ids[c] \ {id}) = Cardinality(ids[c]) - 1
        /\ Cardinality(ids[c] \ {id}) \in Nat
    BY <2>1, FS_RemoveElement, FS_CardinalityType DEF FiniteInv
  <2>3. pc[c] = "gets" /\ pc' = pc
    BY <1>5 DEF GetCandidate
  <2>4. LoopLeft(c) = Cardinality(ids[c]) /\ LoopLeft(c)' = Cardinality(ids[c]) - 1
    BY <2>1, <2>2, <2>3 DEF LoopLeft
  <2>5. QED
    BY <2>2, <2>3, <2>4 DEF Advances
<1>6. CASE RetrievedEvent(c)
  <2>1. /\ pc[c] = "retrieved_events" /\ pc' = pc /\ results' = results
        /\ logged'[c] = logged[c] + 1 /\ logged[c] < Len(results[c])
        /\ logged[c] \in Nat /\ Len(results[c]) \in Nat
    BY <1>0, <1>6 DEF RetrievedEvent, TypeOK
  <2>2. /\ LoopLeft(c) = Len(results[c]) - logged[c]
        /\ LoopLeft(c)' = Len(results[c]) - (logged[c] + 1)
    BY <2>1 DEF LoopLeft
  <2>3. QED
    BY <2>1, <2>2 DEF Advances
<1>7. QED
  BY <1>1, <1>2, <1>3, <1>4, <1>5, <1>6 DEF Moves, Step, Progress

(* A step of one call leaves label, candidates, results and progress of    *)
(* the others alone.                                                       *)
LEMMA MoveStaysLocal ==
    ASSUME TypeOK, NEW c \in Call, Moves(c), NEW d \in Call \ {c}
    PROVE  UNCHANGED <<pc[d], ids[d], results[d], logged[d]>>
<1>1. pc'[d] = pc[d]
  BY StepIsLocal
<1>2. CASE Candidates(c) \/ GetCandidate(c)
  BY <1>1, <1>2 DEF Candidates, GetCandidate, TypeOK
<1>3. CASE Rank(c)
  BY <1>1, <1>3 DEF Rank, TypeOK
<1>4. CASE RetrievedEvent(c)
  BY <1>1, <1>4 DEF RetrievedEvent, TypeOK
<1>5. CASE ~(Candidates(c) \/ GetCandidate(c) \/ Rank(c) \/ RetrievedEvent(c))
  BY <1>1, <1>5 DEF Moves, Invoke, CaptureTool, RetrieveTool, ValidateTool, ServiceCall, Begin,
     Step, Progress, Crash, StoreRaises, ToolDenial, ToolDenialUnrecorded, OpenStore, GetCurrent,
     Allow, Unchecked, Proceed, Deny, Transition, IllegalTransition, Put, EffectEvent, ReturnResults
<1>6. QED
  BY <1>2, <1>3, <1>4, <1>5

(***************************************************************************)
(* No call runs on for ever: each step of an interleaving brings one call  *)
(* nearer to its end and moves no other.                                   *)
(***************************************************************************)
THEOREM CallsAdvance == Spec => EveryStepAdvances
<1>1. FiniteInv /\ [Next]_vars =>
        [\E c \in Call :
            /\ Advances(c)
            /\ \A d \in Call \ {c} : UNCHANGED <<pc[d], ids[d], results[d], logged[d]>>]_vars
  <2>1. FiniteInv => TypeOK
    BY DEF FiniteInv, AuditInv, Inv
  <2>2. QED
    BY <2>1, MoveAdvances, MoveStaysLocal DEF Next, Moves
<1>2. QED
  BY <1>1, FiniteInit, FiniteStep, PTL DEF Spec, EveryStepAdvances

=============================================================================
