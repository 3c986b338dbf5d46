-------------------------- MODULE ActivityAudit_proofs --------------------------
(***************************************************************************)
(* Proofs about ActivityAudit for any writers, readers, plans and limits.  *)
(* Steps of calls change ledgers and table and are proved first (Calls),   *)
(* then steps of readers, which change only what a reader got.             *)
(***************************************************************************)
EXTENDS ActivityAudit, FiniteSetTheorems, SequenceTheorems, TLAPS

USE PlansAssumption, QueriesAssumption, BoundsAssumption

\* The part of the invariant that is about calls.
Calls ==
    /\ clock \in Nat
    /\ plan \in [Writer -> Plans \cup {<<>>}]
    /\ pc \in [Writer -> {"ready", "run", "append", "done", "raised", "crashed"}]
    /\ ledger \in [Writer -> Seq(Event)]
    /\ rows \subseteq Row
    /\ IsFiniteSet(rows)
    /\ LedgerCovers
    /\ \A w \in Writer : Labelled(w)
    /\ \A r \in rows : Recorded(r)

\* The part that is about readers.
Readers ==
    /\ asked \in [Reader -> Queries \cup {NoQuery}]
    /\ reply \in [Reader -> {"none", "events", "limit_error", "type_error", "raised"}]
    /\ answer \in [Reader -> Seq(Row)]
    /\ EffectsShownWithDecision
    /\ \A r \in Reader : Answered(r)

(***************************************************************************)
(* The invariant is the two together.                                      *)
(***************************************************************************)
LEMMA Parts == Inv <=> Calls /\ Readers
BY DEF Inv, Calls, Readers, TypeOK

(***************************************************************************)
(* So it is after a step.                                                  *)
(***************************************************************************)
LEMMA PartsNext == Inv' <=> Calls' /\ Readers'
BY DEF Inv, Calls, Readers, TypeOK

(***************************************************************************)
(* What a call still has to record is a well-formed body.                  *)
(***************************************************************************)
LEMMA PlanBodies ==
    ASSUME Calls, NEW w \in Writer
    PROVE  plan[w] \in Seq(Body)
<1>1. plan[w] \in Plans \/ plan[w] = <<>>
  BY DEF Calls
<1>2. <<>> \in Seq(Body)
  OBVIOUS
<1>3. QED
  BY <1>1, <1>2

(***************************************************************************)
(* The initial state satisfies the invariant.                              *)
(***************************************************************************)
THEOREM InitInv == Init => Inv
<1> SUFFICES ASSUME Init PROVE Inv
  OBVIOUS
<1>1. Calls
  BY FS_EmptySet DEF Init, Calls, LedgerCovers, Labelled
<1>2. Readers
  BY DEF Init, Readers, EffectsShownWithDecision, Answered
<1>3. QED
  BY <1>1, <1>2, Parts

-----------------------------------------------------------------------------
(***************************************************************************)
(* Setting out: the plan of a call that has recorded nothing yet.          *)
(***************************************************************************)
LEMMA StartStep ==
    ASSUME Calls, NEW w \in Writer, Start(w)
    PROVE  Calls'
<1>1. PICK p \in Plans : plan' = [plan EXCEPT ![w] = p]
  BY DEF Start
<1>2. /\ pc[w] = "ready" /\ pc' = [pc EXCEPT ![w] = "run"]
      /\ UNCHANGED <<clock, ledger, rows>>
      /\ ledger[w] = <<>>
  BY DEF Start, Goto, Calls, Labelled
<1>3. \A r \in rows : r.event.writer # w
  BY <1>2 DEF Calls, Recorded
<1>4. LedgerCovers'
  <2>1. \A r, s \in rows : SameId(r.event, s.event) => r = s
    BY DEF Calls, LedgerCovers
  <2>2. \A r \in rows : pc'[r.event.writer] # "crashed" =>
            /\ r.event.n \in DOMAIN ledger[r.event.writer]
            /\ r.event = Stored(ledger[r.event.writer][r.event.n])
    BY <1>2, <1>3 DEF Calls, LedgerCovers
  <2>3. \A v \in Writer : \A n \in DOMAIN ledger[v] :
            n < Len(ledger[v]) \/ pc'[v] \in {"run", "done"} => Durable(v, n)
    BY <1>2 DEF Calls, LedgerCovers
  <2>4. QED
    BY <1>2, <2>1, <2>2, <2>3 DEF LedgerCovers, Durable, SameId
<1>5. ASSUME NEW v \in Writer PROVE Labelled(v)'
  <2>1. CASE v = w
    <3>1. plan'[w] \in Seq(Body)
      BY <1>1, PlanBodies DEF Calls
    <3>2. QED
      BY <1>2, <2>1, <3>1 DEF Labelled, Calls
  <2>2. CASE v # w
    BY <1>1, <1>2, <2>2 DEF Labelled, Calls, Durable
  <2>3. QED
    BY <2>1, <2>2
<1>6. ASSUME NEW r \in rows PROVE Recorded(r)'
  BY <1>1, <1>2, <1>3 DEF Recorded, Calls, Durable
<1>7. QED
  BY <1>1, <1>2, <1>4, <1>5, <1>6 DEF Calls

(***************************************************************************)
(* A new event in the ledger, with its place and the time.                 *)
(***************************************************************************)
LEMMA RecordStep ==
    ASSUME Calls, NEW w \in Writer, Record(w)
    PROVE  Calls'
<1> DEFINE n0 == Len(ledger[w]) + 1
           e0 == [writer |-> w, n |-> n0, body |-> plan[w][n0], at |-> clock]
<1>1. /\ pc[w] = "run" /\ n0 <= Len(plan[w]) /\ n0 \in Nat \ {0}
      /\ ledger' = [ledger EXCEPT ![w] = Append(@, e0)]
      /\ pc' = [pc EXCEPT ![w] = "append"]
      /\ UNCHANGED <<clock, plan, rows>>
  <2>1. Len(ledger[w]) \in Nat /\ Len(plan[w]) \in Nat
    BY PlanBodies DEF Calls
  <2>2. QED
    BY <2>1 DEF Record, Goto
<1>2. e0 \in Event
  <2>1. plan[w][n0] \in Body
    BY <1>1, PlanBodies
  <2>2. QED
    BY <1>1, <2>1 DEF Event, Calls
<1>3. /\ ledger'[w] = Append(ledger[w], e0) /\ Len(ledger'[w]) = n0
      /\ ledger'[w][n0] = e0
      /\ \A n \in DOMAIN ledger[w] : n \in DOMAIN ledger'[w] /\ ledger'[w][n] = ledger[w][n]
      /\ \A n \in DOMAIN ledger'[w] : n = n0 \/ n \in DOMAIN ledger[w]
      /\ n0 \notin DOMAIN ledger[w]
  BY <1>1, <1>2 DEF Calls
<1>4. ledger' \in [Writer -> Seq(Event)]
  BY <1>1, <1>2 DEF Calls
<1>5. ~Durable(w, n0)
  <2>1. ASSUME NEW r \in rows, r.event.writer = w PROVE r.event.n \in DOMAIN ledger[w]
    BY <1>1, <2>1 DEF Calls, LedgerCovers
  <2>2. QED
    BY <1>3, <2>1 DEF Durable
<1>6. LedgerCovers'
  <2>1. ASSUME NEW r \in rows, pc'[r.event.writer] # "crashed"
        PROVE  /\ r.event.n \in DOMAIN ledger'[r.event.writer]
               /\ r.event = Stored(ledger'[r.event.writer][r.event.n])
    <3>1. r.event.writer \in Writer
      BY DEF Calls, Row, Event
    <3>2. pc[r.event.writer] # "crashed"
      BY <1>1, <2>1, <3>1 DEF Calls
    <3>3. /\ r.event.n \in DOMAIN ledger[r.event.writer]
          /\ r.event = Stored(ledger[r.event.writer][r.event.n])
      BY <3>2 DEF Calls, LedgerCovers
    <3>4. QED
      BY <1>1, <1>3, <3>1, <3>3 DEF Calls
  <2>2. ASSUME NEW v \in Writer, NEW n \in DOMAIN ledger'[v],
               n < Len(ledger'[v]) \/ pc'[v] \in {"run", "done"}
        PROVE  Durable(v, n)
    <3>1. CASE v = w
      <4>1. n < n0
        BY <1>1, <1>3, <2>2, <3>1 DEF Calls
      <4>2. n \in DOMAIN ledger[w]
        BY <1>3, <3>1, <4>1
      <4>3. QED
        BY <1>1, <3>1, <4>2 DEF Calls, LedgerCovers
    <3>2. CASE v # w
      BY <1>1, <2>2, <3>2 DEF Calls, LedgerCovers
    <3>3. QED
      BY <3>1, <3>2
  <2>3. QED
    BY <1>1, <2>1, <2>2 DEF Calls, LedgerCovers, Durable, SameId
<1>7. ASSUME NEW v \in Writer PROVE Labelled(v)'
  <2>1. CASE v = w
    <3>1. \A n \in DOMAIN ledger[w] : LET e == ledger[w][n] IN
              e.writer = w /\ e.n = n /\ e.body = plan[w][n] /\ e.at <= clock
      BY DEF Calls, Labelled
    <3>2. \A n \in DOMAIN ledger'[w] : LET e == ledger'[w][n] IN
              e.writer = w /\ e.n = n /\ e.body = plan[w][n] /\ e.at <= clock
      BY <1>3, <3>1 DEF Calls
    <3>3. ledger'[w] # <<>>
      BY <1>1, <1>3
    <3>4. pc'[w] = "append"
      BY <1>1 DEF Calls
    <3>5. QED
      BY <1>1, <1>3, <1>5, <2>1, <3>2, <3>3, <3>4 DEF Labelled, Durable
  <2>2. CASE v # w
    BY <1>1, <2>2 DEF Labelled, Calls, Durable
  <2>3. QED
    BY <2>1, <2>2
<1>8. ASSUME NEW r \in rows PROVE Recorded(r)'
  <2>1. r.event.writer \in Writer /\ Recorded(r)
    BY DEF Calls, Row, Event
  <2>2. QED
    BY <1>1, <2>1 DEF Recorded, Calls, Durable
<1>9. QED
  BY <1>1, <1>4, <1>6, <1>7, <1>8 DEF Calls

(***************************************************************************)
(* The row of the waiting event is new: the table only grows.              *)
(***************************************************************************)
LEMMA AppendAddsRow ==
    ASSUME Calls, NEW w \in Writer, AppendEvent(w)
    PROVE  \E row \in Row :
              /\ rows' = rows \cup {row}
              /\ row.event = Stored(Waiting(w))
              /\ row.event.writer = w /\ row.event.n = Len(ledger[w])
              /\ row.event.at = Waiting(w).at
              /\ row.event.body = Kept(plan[w][Len(ledger[w])])
              /\ Len(ledger[w]) \in DOMAIN ledger[w]
<1> DEFINE n0 == Len(ledger[w])
           row == [rowid |-> Cardinality(rows) + 1, event |-> Stored(Waiting(w))]
<1>1. pc[w] = "append" /\ ledger[w] # <<>> /\ ~Durable(w, n0)
  BY DEF AppendEvent, Calls, Labelled
<1>2. n0 \in DOMAIN ledger[w] /\ Waiting(w) = ledger[w][n0] /\ Waiting(w) \in Event
  BY <1>1 DEF Calls, Waiting
<1>3. Waiting(w).writer = w /\ Waiting(w).n = n0 /\ Waiting(w).body = plan[w][n0]
  BY <1>2 DEF Calls, Labelled
<1>4. Kept(Waiting(w).body) \in Body
  <2>1. Waiting(w).body \in Body
    BY <1>2 DEF Event
  <2>2. QED
    BY <2>1 DEF Kept, Body
<1>5. Stored(Waiting(w)) = [writer |-> w, n |-> n0, body |-> Kept(Waiting(w).body),
                            at |-> Waiting(w).at]
  BY <1>2, <1>3 DEF Stored, Event
<1>6. Stored(Waiting(w)) \in Event
  BY <1>2, <1>3, <1>4, <1>5 DEF Event
<1>7. row \in Row
  BY <1>6, FS_CardinalityType DEF Row, Calls
<1>8. rows' = {r \in rows : ~SameId(r.event, Waiting(w))} \cup {row}
  BY DEF AppendEvent
<1>9. \A r \in rows : ~SameId(r.event, Waiting(w))
  BY <1>1, <1>3 DEF SameId, Durable
<1>10. rows' = rows \cup {row}
  BY <1>8, <1>9
<1> HIDE DEF row
<1>11. row.event = Stored(Waiting(w))
  BY DEF row
<1>12. QED
  BY <1>2, <1>3, <1>5, <1>7, <1>10, <1>11

(***************************************************************************)
(* The row comes after the rows of all earlier events of its call.         *)
(***************************************************************************)
LEMMA AppendStep ==
    ASSUME Calls, NEW w \in Writer, AppendEvent(w)
    PROVE  Calls'
<1> DEFINE n0 == Len(ledger[w])
<1>1. PICK row \in Row : /\ rows' = rows \cup {row}
                         /\ row.event = Stored(Waiting(w))
                         /\ row.event.writer = w /\ row.event.n = n0
                         /\ row.event.body = Kept(plan[w][n0])
                         /\ n0 \in DOMAIN ledger[w]
  BY AppendAddsRow
<1>2. /\ pc[w] = "append" /\ pc' = [pc EXCEPT ![w] = "run"]
      /\ UNCHANGED <<clock, plan, ledger>>
      /\ ~Durable(w, n0)
  BY DEF AppendEvent, Goto, Calls, Labelled
<1>3. \A v, n : Durable(v, n) => Durable(v, n)'
  BY <1>1 DEF Durable
<1>4. Durable(w, n0)'
  BY <1>1, <1>2 DEF Durable
<1>5. rows' \subseteq Row /\ IsFiniteSet(rows')
  BY <1>1, FS_AddElement DEF Calls
<1>6. LedgerCovers'
  <2>1. ASSUME NEW r \in rows', NEW s \in rows', SameId(r.event, s.event) PROVE r = s
    <3>1. \A q \in rows : ~(q.event.writer = w /\ q.event.n = n0)
      BY <1>2 DEF Durable
    <3>2. QED
      BY <1>1, <2>1, <3>1 DEF SameId, Calls, LedgerCovers
  <2>2. ASSUME NEW r \in rows', pc'[r.event.writer] # "crashed"
        PROVE  /\ r.event.n \in DOMAIN ledger[r.event.writer]
               /\ r.event = Stored(ledger[r.event.writer][r.event.n])
    <3>1. CASE r \in rows
      <4>1. r.event.writer \in Writer
        BY <3>1 DEF Calls, Row, Event
      <4>2. pc[r.event.writer] # "crashed"
        BY <1>2, <2>2, <4>1 DEF Calls
      <4>3. QED
        BY <3>1, <4>2 DEF Calls, LedgerCovers
    <3>2. CASE r = row
      BY <1>1, <3>2 DEF Waiting
    <3>3. QED
      BY <1>1, <3>1, <3>2
  <2>3. ASSUME NEW v \in Writer, NEW n \in DOMAIN ledger[v],
               n < Len(ledger[v]) \/ pc'[v] \in {"run", "done"}
        PROVE  Durable(v, n)'
    <3>1. CASE v = w
      <4>1. n = n0 \/ n < n0
        BY <3>1 DEF Calls
      <4>2. QED
        BY <1>2, <1>3, <1>4, <3>1, <4>1 DEF Calls, LedgerCovers
    <3>2. CASE v # w
      BY <1>2, <1>3, <2>3, <3>2 DEF Calls, LedgerCovers
    <3>3. QED
      BY <3>1, <3>2
  <2>4. QED
    BY <1>2, <2>1, <2>2, <2>3 DEF LedgerCovers, SameId
<1>7. ASSUME NEW v \in Writer PROVE Labelled(v)'
  <2>1. CASE v = w
    BY <1>2, <2>1 DEF Labelled, Calls
  <2>2. CASE v # w
    <3>1. \A n : Durable(v, n)' <=> Durable(v, n)
      BY <1>1, <2>2 DEF Durable
    <3>2. QED
      BY <1>2, <2>2, <3>1 DEF Labelled, Calls
  <2>3. QED
    BY <2>1, <2>2
<1>8. ASSUME NEW r \in rows' PROVE Recorded(r)'
  <2>1. CASE r \in rows
    <3>1. r.event.writer \in Writer /\ Recorded(r)
      BY <2>1 DEF Calls, Row, Event
    <3>2. QED
      BY <1>2, <1>3, <3>1 DEF Recorded, Calls
  <2>2. CASE r = row
    <3>1. n0 \in DOMAIN plan[w]
      BY <1>1, PlanBodies DEF Calls, Labelled
    <3>2. ASSUME NEW n \in 1..n0 PROVE Durable(w, n)'
      <4>1. n \in DOMAIN ledger[w] /\ (n < n0 \/ n = n0)
        BY <1>1 DEF Calls
      <4>2. QED
        BY <1>2, <1>3, <1>4, <4>1 DEF Calls, LedgerCovers
    <3>3. pc'[w] = "run"
      BY <1>2 DEF Calls
    <3>4. QED
      BY <1>1, <1>2, <2>2, <3>1, <3>2, <3>3 DEF Recorded
  <2>3. QED
    BY <1>1, <2>1, <2>2
<1>9. QED
  BY <1>2, <1>5, <1>6, <1>7, <1>8 DEF Calls

(***************************************************************************)
(* The steps that end a call, and the clock.                               *)
(***************************************************************************)
LEMMA EndStep ==
    ASSUME Calls, NEW w \in Writer, AppendRaises(w) \/ Return(w)
    PROVE  Calls'
<1>1. /\ pc[w] \in {"append", "run"} /\ UNCHANGED <<clock, plan, ledger, rows>>
      /\ \/ pc' = [pc EXCEPT ![w] = "raised"]
         \/ pc[w] = "run" /\ pc' = [pc EXCEPT ![w] = "done"]
  BY DEF AppendRaises, Return, Goto
<1>2. LedgerCovers'
  <2>1. ASSUME NEW r \in rows, pc'[r.event.writer] # "crashed"
        PROVE  /\ r.event.n \in DOMAIN ledger[r.event.writer]
               /\ r.event = Stored(ledger[r.event.writer][r.event.n])
    <3>1. r.event.writer \in Writer
      BY DEF Calls, Row, Event
    <3>2. pc[r.event.writer] # "crashed"
      BY <1>1, <2>1, <3>1 DEF Calls
    <3>3. QED
      BY <3>2 DEF Calls, LedgerCovers
  <2>2. \A v \in Writer : \A n \in DOMAIN ledger[v] :
            n < Len(ledger[v]) \/ pc'[v] \in {"run", "done"} => Durable(v, n)
    BY <1>1 DEF Calls, LedgerCovers
  <2>3. QED
    BY <1>1, <2>1, <2>2 DEF Calls, LedgerCovers, Durable, SameId
<1>3. ASSUME NEW v \in Writer PROVE Labelled(v)'
  BY <1>1 DEF Labelled, Calls, Durable
<1>4. ASSUME NEW r \in rows PROVE Recorded(r)'
  <2>1. r.event.writer \in Writer /\ Recorded(r)
    BY DEF Calls, Row, Event
  <2>2. QED
    BY <1>1, <2>1 DEF Recorded, Calls, Durable
<1>5. QED
  BY <1>1, <1>2, <1>3, <1>4 DEF Calls

LEMMA CrashStep ==
    ASSUME Calls, NEW w \in Writer, Crash(w)
    PROVE  Calls'
<1>1. /\ pc' = [pc EXCEPT ![w] = "crashed"] /\ ledger' = [ledger EXCEPT ![w] = <<>>]
      /\ UNCHANGED <<clock, plan, rows>>
  BY DEF Crash, Goto
<1>2. LedgerCovers'
  <2>1. ASSUME NEW r \in rows, pc'[r.event.writer] # "crashed"
        PROVE  /\ r.event.n \in DOMAIN ledger'[r.event.writer]
               /\ r.event = Stored(ledger'[r.event.writer][r.event.n])
    <3>1. r.event.writer \in Writer /\ r.event.writer # w
      BY <1>1, <2>1 DEF Calls, Row, Event
    <3>2. QED
      BY <1>1, <2>1, <3>1 DEF Calls, LedgerCovers
  <2>2. \A v \in Writer : \A n \in DOMAIN ledger'[v] :
            n < Len(ledger'[v]) \/ pc'[v] \in {"run", "done"} => Durable(v, n)
    BY <1>1 DEF Calls, LedgerCovers
  <2>3. QED
    BY <1>1, <2>1, <2>2 DEF Calls, LedgerCovers, Durable, SameId
<1>3. ASSUME NEW v \in Writer PROVE Labelled(v)'
  <2>1. CASE v = w
    <3>1. ledger'[w] = <<>> /\ pc'[w] = "crashed" /\ Len(plan[w]) \in Nat
      BY <1>1, PlanBodies DEF Calls
    <3>2. QED
      BY <1>1, <2>1, <3>1 DEF Labelled
  <2>2. CASE v # w
    BY <1>1, <2>2 DEF Labelled, Calls, Durable
  <2>3. QED
    BY <2>1, <2>2
<1>4. ASSUME NEW r \in rows PROVE Recorded(r)'
  <2>1. r.event.writer \in Writer /\ Recorded(r)
    BY DEF Calls, Row, Event
  <2>2. QED
    BY <1>1, <2>1 DEF Recorded, Calls, Durable
<1>5. QED
  BY <1>1, <1>2, <1>3, <1>4 DEF Calls

LEMMA TickStep ==
    ASSUME Calls, Tick
    PROVE  Calls'
<1>1. clock' = clock + 1 /\ clock \in Nat /\ UNCHANGED <<plan, pc, ledger, rows>>
  BY DEF Tick, Calls
<1>2. LedgerCovers'
  BY <1>1 DEF Calls, LedgerCovers, Durable, SameId
<1>3. ASSUME NEW v \in Writer PROVE Labelled(v)'
  <2>1. \A n \in DOMAIN ledger[v] : ledger[v][n].at \in Nat
    <3>1. \A n \in DOMAIN ledger[v] : ledger[v][n] \in Event
      BY DEF Calls
    <3>2. QED
      BY <3>1 DEF Event
  <2>2. \A n \in DOMAIN ledger[v] : ledger[v][n].at <= clock'
    BY <1>1, <2>1 DEF Labelled, Calls
  <2>3. QED
    BY <1>1, <2>2 DEF Labelled, Calls, Durable
<1>4. ASSUME NEW r \in rows PROVE Recorded(r)'
  BY <1>1 DEF Recorded, Calls, Durable
<1>5. QED
  BY <1>1, <1>2, <1>3, <1>4 DEF Calls

(***************************************************************************)
(* No step of a call or of the clock breaks the part about calls; readers  *)
(* change nothing of it.                                                   *)
(***************************************************************************)
LEMMA CallsStep == Calls /\ [Next]_vars => Calls'
<1> SUFFICES ASSUME Calls, [Next]_vars PROVE Calls'
  OBVIOUS
<1>1. CASE Tick
  BY <1>1, TickStep
<1>2. ASSUME NEW w \in Writer, Call(w) PROVE Calls'
  BY <1>2, StartStep, RecordStep, AppendStep, EndStep, CrashStep DEF Call
<1>3. CASE UNCHANGED <<clock, plan, pc, ledger, rows>>
  <2>1. LedgerCovers'
    BY <1>3 DEF Calls, LedgerCovers, Durable, SameId
  <2>2. ASSUME NEW v \in Writer PROVE Labelled(v)'
    BY <1>3 DEF Labelled, Calls, Durable
  <2>3. ASSUME NEW r \in rows PROVE Recorded(r)'
    BY <1>3 DEF Recorded, Calls, Durable
  <2>4. QED
    BY <1>3, <2>1, <2>2, <2>3 DEF Calls
<1>4. ASSUME NEW r \in Reader, Read(r) PROVE Calls'
  BY <1>3, <1>4 DEF Read, AuditRefused, AuditTypeError, Audit, AuditRaises, Reply
<1>5. QED
  BY <1>1, <1>2, <1>3, <1>4 DEF Next, vars

(***************************************************************************)
(* Every step keeps the rows there are (append_event, INSERT OR REPLACE of *)
(* a fresh event_id), and adds rows only of events that waited.            *)
(***************************************************************************)
LEMMA RowsGrow ==
    ASSUME Calls, [Next]_vars
    PROVE  rows \subseteq rows'
<1>1. ASSUME NEW w \in Writer, Call(w) PROVE rows \subseteq rows'
  <2>1. CASE AppendEvent(w)
    BY <2>1, AppendAddsRow
  <2>2. CASE ~AppendEvent(w)
    BY <1>1, <2>2 DEF Call, Start, Record, AppendRaises, Return, Crash
  <2>3. QED
    BY <2>1, <2>2
<1>2. ASSUME NEW r \in Reader, Read(r) PROVE rows \subseteq rows'
  BY <1>2 DEF Read, AuditRefused, AuditTypeError, Audit, AuditRaises, Reply
<1>3. QED
  BY <1>1, <1>2 DEF Next, Tick, vars

-----------------------------------------------------------------------------
(***************************************************************************)
(* What a slice of a sequence is: a prefix, cut at limit >= 0.             *)
(***************************************************************************)
LEMMA SlicedPrefix ==
    ASSUME NEW T, NEW s \in Seq(T), NEW limit \in Int
    PROVE  /\ Sliced(s, limit) \in Seq(T)
           /\ \A i \in DOMAIN Sliced(s, limit) : i \in DOMAIN s /\ Sliced(s, limit)[i] = s[i]
           /\ limit >= 0 => Len(Sliced(s, limit)) = IF limit > Len(s) THEN Len(s) ELSE limit
<1> DEFINE end == IF limit >= 0 THEN limit ELSE Len(s) + limit
           e == IF end > Len(s) THEN Len(s) ELSE end
<1>1. e \in Int /\ e <= Len(s) /\ Sliced(s, limit) = SubSeq(s, 1, e)
  BY DEF Sliced
<1>2. CASE e >= 1
  <2>1. /\ SubSeq(s, 1, e) \in Seq(T)
        /\ Len(SubSeq(s, 1, e)) = e
        /\ \A i \in 1..e : SubSeq(s, 1, e)[i] = s[i]
    BY <1>1, <1>2, SubSeqProperties
  <2>2. QED
    BY <1>1, <1>2, <2>1
<1>3. CASE e < 1
  <2>1. SubSeq(s, 1, e) = <<>>
    BY <1>1, <1>3, SubSeqProperties
  <2>2. QED
    BY <1>1, <1>3, <2>1
<1>4. QED
  BY <1>1, <1>2, <1>3

(***************************************************************************)
(* What an audit answers: a prefix of the sorted hits.                     *)
(***************************************************************************)
LEMMA AuditAnswer ==
    ASSUME Inv, NEW r \in Reader, Audit(r)
    PROVE  \E q \in Queries : \E s \in Sorted(Hits(q)) :
              /\ asked' = [asked EXCEPT ![r] = q] /\ q.limit \in Int
              /\ reply' = [reply EXCEPT ![r] = "events"]
              /\ answer' = [answer EXCEPT ![r] = Sliced(s, q.limit)]
              /\ UNCHANGED <<clock, plan, pc, ledger, rows>>
              /\ s \in Seq(Hits(q)) /\ Hits(q) \subseteq rows
              /\ Sliced(s, q.limit) \in Seq(Hits(q))
<1>1. PICK q \in Queries : \E s \in Sorted(Hits(q)) :
              Reply(r, q, "events", Sliced(s, q.limit))
  BY DEF Audit
<1>2. PICK s \in Sorted(Hits(q)) : Reply(r, q, "events", Sliced(s, q.limit))
  BY <1>1
<1>3. q.limit \in Int
  BY DEF Query
<1>4. Hits(q) \subseteq rows /\ IsFiniteSet(Hits(q))
  BY FS_Subset DEF Hits, Listed, Inv
<1>5. s \in Seq(Hits(q))
  BY <1>4, FS_CardinalityType DEF Sorted
<1>6. Sliced(s, q.limit) \in Seq(Hits(q))
  BY <1>3, <1>5, SlicedPrefix
<1>7. QED
  BY <1>2, <1>3, <1>4, <1>5, <1>6 DEF Reply

(***************************************************************************)
(* A complete answer is the whole sorted list of the scope.                *)
(***************************************************************************)
LEMMA CompleteAnswer ==
    ASSUME Calls, NEW q \in Queries, NEW s \in Seq(rows), s \in Sorted(Hits(q)),
           Complete(q, Sliced(s, q.limit))
    PROVE  \A row \in rows : row.event.body.scope = q.scope /\ q.scope \notin NullScopes =>
              \E j \in DOMAIN Sliced(s, q.limit) : Sliced(s, q.limit)[j] = row
<1> DEFINE t == Sliced(s, q.limit)
<1>1. q.limit \in Int
  BY DEF Query
<1>2. /\ t \in Seq(rows) /\ Len(t) < q.limit
      /\ \A i \in DOMAIN t : i \in DOMAIN s /\ t[i] = s[i]
      /\ q.limit >= 0 => Len(t) = IF q.limit > Len(s) THEN Len(s) ELSE q.limit
  BY <1>1, SlicedPrefix DEF Complete
<1> HIDE DEF t
<1>3. Len(t) = Len(s) /\ Len(t) \in Nat
  BY <1>1, <1>2
<1>4. ASSUME NEW row \in rows, row.event.body.scope = q.scope, q.scope \notin NullScopes
      PROVE  \E j \in DOMAIN t : t[j] = row
  <2>1. row \in Hits(q)
    BY <1>4 DEF Hits, Listed, Complete
  <2>2. PICK j \in DOMAIN s : s[j] = row
    BY <2>1 DEF Sorted
  <2>3. j \in DOMAIN t
    BY <1>2, <1>3, <2>2
  <2>4. QED
    BY <1>2, <2>2, <2>3
<1>5. QED
  BY <1>4 DEF t

(***************************************************************************)
(* An audit answers with sorted hits, each effect with its decision.       *)
(***************************************************************************)
LEMMA AuditStep ==
    ASSUME Inv, NEW r \in Reader, Audit(r)
    PROVE  Readers'
<1>1. PICK q \in Queries : \E s \in Sorted(Hits(q)) :
              /\ asked' = [asked EXCEPT ![r] = q] /\ q.limit \in Int
              /\ reply' = [reply EXCEPT ![r] = "events"]
              /\ answer' = [answer EXCEPT ![r] = Sliced(s, q.limit)]
              /\ UNCHANGED <<clock, plan, pc, ledger, rows>>
              /\ s \in Seq(Hits(q)) /\ Hits(q) \subseteq rows
              /\ Sliced(s, q.limit) \in Seq(Hits(q))
  BY AuditAnswer
<1>2. PICK s \in Sorted(Hits(q)) :
              /\ asked' = [asked EXCEPT ![r] = q] /\ q.limit \in Int
              /\ reply' = [reply EXCEPT ![r] = "events"]
              /\ answer' = [answer EXCEPT ![r] = Sliced(s, q.limit)]
              /\ UNCHANGED <<clock, plan, pc, ledger, rows>>
              /\ s \in Seq(Hits(q)) /\ Hits(q) \subseteq rows
              /\ Sliced(s, q.limit) \in Seq(Hits(q))
  BY <1>1
<1> DEFINE t == Sliced(s, q.limit)
<1>3. Calls /\ Readers /\ rows \subseteq Row
  BY Parts DEF Calls
<1>4. t \in Seq(Row) /\ t \in Seq(rows) /\ s \in Seq(rows)
  BY <1>2, <1>3
<1>5. /\ \A i \in DOMAIN t : i \in DOMAIN s /\ t[i] = s[i] /\ t[i] \in Hits(q)
      /\ \A i, j \in DOMAIN t : i < j => InOrder(t[i], t[j])
  <2>1. \A i \in DOMAIN t : i \in DOMAIN s /\ t[i] = s[i]
    BY <1>2, SlicedPrefix
  <2>2. \A i \in DOMAIN t : t[i] \in Hits(q)
    BY <1>2
  <2>3. \A i, j \in DOMAIN s : i < j => InOrder(s[i], s[j])
    BY DEF Sorted
  <2>4. QED
    BY <2>1, <2>2, <2>3
<1>6. ASSUME Complete(q, t), NEW i \in DOMAIN t,
             CheckedCall(t[i].event.writer),
             plan[t[i].event.writer][1].scope = q.scope
      PROVE  \E j \in DOMAIN t : t[j].event.writer = t[i].event.writer /\ t[j].event.n = 1
  <2> DEFINE w == t[i].event.writer
  <2>1. t[i] \in rows /\ t[i] \in Hits(q) /\ w \in Writer /\ t[i].event.n \in Nat
    BY <1>2, <1>3, <1>5 DEF Row, Event
  <2>2. Recorded(t[i]) /\ q.scope \notin NullScopes
    BY <1>3, <2>1 DEF Calls, Hits, Listed
  <2>3. 1 \in 1..t[i].event.n
    BY <2>1, <2>2, PlanBodies, <1>3 DEF Recorded
  <2>4. PICK d \in rows : d.event.writer = w /\ d.event.n = 1
    BY <2>2, <2>3 DEF Recorded, Durable
  <2>5. Recorded(d) /\ 1 \in DOMAIN plan[w] /\ plan[w][1] \in Body
    BY <1>3, <2>1, <2>4, PlanBodies DEF Calls, Recorded
  <2>6. d.event.body.scope = plan[w][1].scope
    BY <2>4, <2>5 DEF Recorded, Kept, Body
  <2>7. PICK j \in DOMAIN t : t[j] = d
    BY <1>3, <1>4, <1>6, <2>2, <2>4, <2>6, CompleteAnswer
  <2>8. QED
    BY <2>4, <2>7
<1> HIDE DEF t
<1>7. answer' \in [Reader -> Seq(Row)] /\ answer'[r] = t /\ asked'[r] = q
  BY <1>2, <1>3, <1>4 DEF Readers, t
<1>8. ASSUME NEW v \in Reader, v # r
      PROVE  answer'[v] = answer[v] /\ asked'[v] = asked[v] /\ reply'[v] = reply[v]
  BY <1>2, <1>3, <1>8 DEF Readers, t
<1>9. EffectsShownWithDecision'
  <2>1. ASSUME NEW v \in Reader, reply'[v] = "events", Complete(asked'[v], answer'[v]),
               NEW i \in DOMAIN answer'[v],
               CheckedCall(answer'[v][i].event.writer),
               plan[answer'[v][i].event.writer][1].scope = asked'[v].scope
        PROVE  \E j \in DOMAIN answer'[v] :
                  /\ answer'[v][j].event.writer = answer'[v][i].event.writer
                  /\ answer'[v][j].event.n = 1
    <3>1. CASE v = r
      <4>1. answer'[v] = t /\ asked'[v] = q
        BY <1>7, <3>1
      <4>2. /\ Complete(q, t) /\ i \in DOMAIN t /\ CheckedCall(t[i].event.writer)
            /\ plan[t[i].event.writer][1].scope = q.scope
        BY <2>1, <4>1
      <4>3. \E j \in DOMAIN t : t[j].event.writer = t[i].event.writer /\ t[j].event.n = 1
        BY <1>6, <4>2
      <4>4. QED
        BY <4>1, <4>3
    <3>2. CASE v # r
      <4>1. answer'[v] = answer[v] /\ asked'[v] = asked[v] /\ reply'[v] = reply[v]
        BY <1>8, <3>2
      <4>2. /\ reply[v] = "events" /\ Complete(asked[v], answer[v]) /\ i \in DOMAIN answer[v]
            /\ CheckedCall(answer[v][i].event.writer)
            /\ plan[answer[v][i].event.writer][1].scope = asked[v].scope
        BY <2>1, <4>1
      <4>3. \E j \in DOMAIN answer[v] : /\ answer[v][j].event.writer = answer[v][i].event.writer
                                       /\ answer[v][j].event.n = 1
        BY <1>3, <4>2 DEF Readers, EffectsShownWithDecision
      <4>4. QED
        BY <4>1, <4>3
    <3>3. QED
      BY <3>1, <3>2
  <2>2. QED
    BY <1>2, <2>1 DEF EffectsShownWithDecision, CheckedCall, Complete
<1>10. ASSUME NEW v \in Reader PROVE Answered(v)'
  <2>1. \A p : Hits(p)' = Hits(p)
    BY <1>2 DEF Hits, Listed
  <2>2. CASE v = r
    BY <1>5, <1>7, <2>1, <2>2 DEF Answered
  <2>3. CASE v # r
    <3>1. Answered(v)
      BY <1>3 DEF Readers
    <3>2. QED
      BY <1>8, <2>1, <2>3, <3>1 DEF Answered
  <2>4. QED
    BY <2>2, <2>3
<1>11. QED
  BY <1>2, <1>3, <1>7, <1>9, <1>10 DEF Readers

(***************************************************************************)
(* Steps of calls and of the clock: what a reader got stays, among rows    *)
(* that only grow and plans that are set.                                  *)
(***************************************************************************)
LEMMA OtherStep ==
    ASSUME Inv, [Next]_vars, UNCHANGED <<asked, reply, answer>>
    PROVE  Readers'
<1>1. Calls /\ Readers /\ rows \subseteq rows'
  BY Parts, RowsGrow
<1>2. ASSUME NEW w \in Writer, pc[w] # "ready" PROVE plan'[w] = plan[w]
  <2>1. ASSUME NEW v \in Writer, Call(v) PROVE plan'[w] = plan[w]
    BY <1>1, <1>2, <2>1
       DEF Calls, Call, Start, Record, AppendEvent, AppendRaises, Return, Crash
  <2>2. ASSUME NEW r \in Reader, Read(r) PROVE plan'[w] = plan[w]
    BY <2>2 DEF Read, AuditRefused, AuditTypeError, Audit, AuditRaises, Reply
  <2>3. QED
    BY <2>1, <2>2 DEF Next, Tick, vars
<1>3. ASSUME NEW r \in Reader, reply[r] = "events", NEW i \in DOMAIN answer[r]
      PROVE  plan'[answer[r][i].event.writer] = plan[answer[r][i].event.writer]
  <2>1. answer[r][i] \in rows
    BY <1>1, <1>3 DEF Readers, Answered, Hits, Listed
  <2>2. answer[r][i].event.writer \in Writer
    BY <1>1, <2>1 DEF Calls, Row, Event
  <2>3. pc[answer[r][i].event.writer] # "ready"
    BY <1>1, <2>1 DEF Calls, Recorded
  <2>4. QED
    BY <1>2, <2>2, <2>3
<1>4. EffectsShownWithDecision'
  <2>1. ASSUME NEW v \in Reader, reply[v] = "events", Complete(asked[v], answer[v]),
               NEW i \in DOMAIN answer[v],
               CheckedCall(answer[v][i].event.writer)',
               plan'[answer[v][i].event.writer][1].scope = asked[v].scope
        PROVE  \E j \in DOMAIN answer[v] :
                  /\ answer[v][j].event.writer = answer[v][i].event.writer
                  /\ answer[v][j].event.n = 1
    <3>1. plan'[answer[v][i].event.writer] = plan[answer[v][i].event.writer]
      BY <1>3, <2>1
    <3>2. CheckedCall(answer[v][i].event.writer)
      BY <2>1, <3>1 DEF CheckedCall
    <3>3. QED
      BY <1>1, <2>1, <3>1, <3>2 DEF Readers, EffectsShownWithDecision
  <2>2. QED
    BY <2>1 DEF EffectsShownWithDecision, CheckedCall, Complete
<1>5. ASSUME NEW v \in Reader PROVE Answered(v)'
  <2>1. \A p : Hits(p) \subseteq Hits(p)'
    BY <1>1 DEF Hits, Listed
  <2>2. Answered(v)
    BY <1>1 DEF Readers
  <2>3. QED
    BY <2>1, <2>2 DEF Answered
<1>6. QED
  BY <1>1, <1>4, <1>5 DEF Readers

(***************************************************************************)
(* The other outcomes of an audit leave the reader without an answer.      *)
(***************************************************************************)
LEMMA NoAnswerStep ==
    ASSUME Inv, NEW r \in Reader, NEW q \in Queries,
           NEW what \in {"limit_error", "type_error", "raised"}, Reply(r, q, what, <<>>)
    PROVE  Readers'
<1>1. /\ asked' = [asked EXCEPT ![r] = q] /\ reply' = [reply EXCEPT ![r] = what]
      /\ answer' = [answer EXCEPT ![r] = <<>>] /\ UNCHANGED <<plan, rows>>
  BY DEF Reply
<1>2. Readers
  BY Parts
<1>3. ASSUME NEW v \in Reader, reply'[v] = "events"
      PROVE  /\ v # r /\ reply[v] = "events"
             /\ answer'[v] = answer[v] /\ asked'[v] = asked[v]
  BY <1>1, <1>2, <1>3 DEF Readers
<1>4. EffectsShownWithDecision'
  <2>1. ASSUME NEW v \in Reader, reply'[v] = "events", Complete(asked'[v], answer'[v]),
               NEW i \in DOMAIN answer'[v],
               CheckedCall(answer'[v][i].event.writer),
               plan[answer'[v][i].event.writer][1].scope = asked'[v].scope
        PROVE  \E j \in DOMAIN answer'[v] :
                  /\ answer'[v][j].event.writer = answer'[v][i].event.writer
                  /\ answer'[v][j].event.n = 1
    <3>1. reply[v] = "events" /\ answer'[v] = answer[v] /\ asked'[v] = asked[v]
      BY <1>3, <2>1
    <3>2. /\ Complete(asked[v], answer[v]) /\ i \in DOMAIN answer[v]
          /\ CheckedCall(answer[v][i].event.writer)
          /\ plan[answer[v][i].event.writer][1].scope = asked[v].scope
      BY <2>1, <3>1
    <3>3. \E j \in DOMAIN answer[v] : /\ answer[v][j].event.writer = answer[v][i].event.writer
                                     /\ answer[v][j].event.n = 1
      BY <1>2, <3>1, <3>2 DEF Readers, EffectsShownWithDecision
    <3>4. QED
      BY <3>1, <3>3
  <2>2. QED
    BY <1>1, <2>1 DEF EffectsShownWithDecision, CheckedCall, Complete
<1>5. ASSUME NEW v \in Reader PROVE Answered(v)'
  <2>1. \A p : Hits(p)' = Hits(p)
    BY <1>1 DEF Hits, Listed
  <2>2. QED
    BY <1>2, <1>3, <2>1 DEF Readers, Answered
<1>6. QED
  BY <1>1, <1>2, <1>4, <1>5 DEF Readers

(***************************************************************************)
(* The inductive step.                                                     *)
(***************************************************************************)
THEOREM NextInv == Inv /\ [Next]_vars => Inv'
<1> SUFFICES ASSUME Inv, [Next]_vars PROVE Inv'
  OBVIOUS
<1>1. Calls'
  BY Parts, CallsStep
<1>2. Readers'
  <2>1. ASSUME NEW r \in Reader, Read(r) PROVE Readers'
    BY <2>1, AuditStep, NoAnswerStep DEF Read, AuditRefused, AuditTypeError, AuditRaises
  <2>2. CASE UNCHANGED <<asked, reply, answer>>
    BY <2>2, OtherStep
  <2>3. ASSUME NEW w \in Writer, Call(w) PROVE UNCHANGED <<asked, reply, answer>>
    BY <2>3 DEF Call, Start, Record, AppendEvent, AppendRaises, Return, Crash
  <2>4. QED
    BY <2>1, <2>2, <2>3 DEF Next, Tick, vars
<1>3. QED
  BY <1>1, <1>2, PartsNext

(***************************************************************************)
(* Plans, ledgers, table and answers agree in every reachable state.       *)
(***************************************************************************)
THEOREM Invariance == Spec => []Inv
BY InitInv, NextInv, PTL DEF Spec

(***************************************************************************)
(* Type correctness of writers, table and answers.                         *)
(***************************************************************************)
THEOREM TypeCorrect == Spec => []TypeOK
<1>1. Inv => TypeOK
  BY DEF Inv
<1>2. QED
  BY <1>1, Invariance, PTL

(***************************************************************************)
(* The ledger of a live service covers its rows, and its rows cover all of *)
(* the ledger but the last event (_event, _audit_authorization).           *)
(***************************************************************************)
THEOREM LedgerAndTableAgree == Spec => []LedgerCovers
<1>1. Inv => LedgerCovers
  BY DEF Inv
<1>2. QED
  BY <1>1, Invariance, PTL

(***************************************************************************)
(* A complete audit shows no effect of a checked call without the decision *)
(* that allowed it.                                                        *)
(***************************************************************************)
THEOREM AuditsShowDecisions == Spec => []EffectsShownWithDecision
<1>1. Inv => EffectsShownWithDecision
  BY DEF Inv
<1>2. QED
  BY <1>1, Invariance, PTL

-----------------------------------------------------------------------------
(***************************************************************************)
(* A step that gives reader r another answer is an audit of r.             *)
(***************************************************************************)
LEMMA AnswersFromAudits ==
    ASSUME Inv, [Next]_vars, NEW r \in Reader, reply'[r] = "events",
           asked'[r] # asked[r] \/ answer'[r] # answer[r] \/ reply'[r] # reply[r]
    PROVE  Audit(r)
<1>1. asked \in [Reader -> Queries \cup {NoQuery}] /\ DOMAIN reply = Reader /\ DOMAIN answer = Reader
  BY DEF Inv, TypeOK
<1>2. ASSUME UNCHANGED <<asked, reply, answer>> PROVE FALSE
  BY <1>2
<1>3. ASSUME NEW w \in Writer, Call(w) PROVE FALSE
  BY <1>2, <1>3 DEF Call, Start, Record, AppendEvent, AppendRaises, Return, Crash
<1>4. PICK v \in Reader : Read(v)
  BY <1>2, <1>3 DEF Next, Tick, vars
<1>5. v = r
  <2>1. \E q, what, events : Reply(v, q, what, events)
    BY <1>4 DEF Read, AuditRefused, AuditTypeError, Audit, AuditRaises
  <2>2. QED
    BY <1>1, <2>1 DEF Reply
<1>6. ASSUME NEW q \in Queries, NEW what \in {"limit_error", "type_error", "raised"},
             Reply(r, q, what, <<>>)
      PROVE  FALSE
  BY <1>1, <1>6 DEF Reply
<1>7. QED
  BY <1>4, <1>5, <1>6 DEF Read, AuditRefused, AuditTypeError, AuditRaises

(***************************************************************************)
(* Sort before slice: an answer is the most recent part of the hits, most  *)
(* recent first, and is shorter than the limit only if that is all.        *)
(***************************************************************************)
THEOREM MostRecentReturned == Spec => MostRecentKept
<1> DEFINE Kept1(r) ==
        answer'[r] # answer[r] /\ reply'[r] = "events" /\ asked'[r].limit >= 0 =>
          LET s == answer'[r]
              left == Hits(asked'[r]) \ {s[i] : i \in DOMAIN s}
          IN  /\ \A i, j \in DOMAIN s : i < j => s[i].event.at >= s[j].event.at
              /\ \A h \in left, i \in DOMAIN s : h.event.at <= s[i].event.at
              /\ left # {} => Len(s) = asked'[r].limit
<1>1. ASSUME Inv, [Next]_vars, NEW r \in Reader PROVE Kept1(r)
  <2> SUFFICES ASSUME answer'[r] # answer[r], reply'[r] = "events", asked'[r].limit >= 0
               PROVE  Kept1(r)
    OBVIOUS
  <2>1. Audit(r)
    BY <1>1, AnswersFromAudits
  <2>2. PICK q \in Queries : \E s \in Sorted(Hits(q)) :
              /\ asked' = [asked EXCEPT ![r] = q] /\ q.limit \in Int
              /\ answer' = [answer EXCEPT ![r] = Sliced(s, q.limit)]
              /\ s \in Seq(Hits(q)) /\ Hits(q) \subseteq rows
    BY <1>1, <2>1, AuditAnswer
  <2>3. PICK s \in Sorted(Hits(q)) :
              /\ asked' = [asked EXCEPT ![r] = q] /\ q.limit \in Int
              /\ answer' = [answer EXCEPT ![r] = Sliced(s, q.limit)]
              /\ s \in Seq(Hits(q)) /\ Hits(q) \subseteq rows
    BY <2>2
  <2> DEFINE t == Sliced(s, q.limit)
  <2>4. asked'[r] = q /\ answer'[r] = t /\ q.limit >= 0
    BY <1>1, <2>3 DEF Inv, TypeOK
  <2>5. /\ t \in Seq(Hits(q))
        /\ \A i \in DOMAIN t : i \in DOMAIN s /\ t[i] = s[i]
        /\ Len(t) = IF q.limit > Len(s) THEN Len(s) ELSE q.limit
    BY <2>3, <2>4, SlicedPrefix
  <2>6. /\ \A h \in Hits(q) : h.event.at \in Nat /\ h.rowid \in Nat
        /\ \A h \in Hits(q) : \E i \in DOMAIN s : s[i] = h
        /\ \A i, j \in DOMAIN s : i < j => s[i].event.at >= s[j].event.at
        /\ \A i \in DOMAIN s : s[i] \in Hits(q)
    <3>1. \A h \in Hits(q) : h.event.at \in Nat /\ h.rowid \in Nat
      BY <1>1, <2>3 DEF Inv, TypeOK, Row, Event
    <3>2. \A i \in DOMAIN s : s[i] \in Hits(q)
      BY <2>3
    <3>3. \A i, j \in DOMAIN s : i < j => InOrder(s[i], s[j])
      BY DEF Sorted
    <3>4. QED
      BY <3>1, <3>2, <3>3 DEF Sorted, InOrder
  <2>7. DOMAIN t = 1..Len(t) /\ DOMAIN s = 1..Len(s) /\ Len(t) \in Nat /\ Len(s) \in Nat
    BY <2>3, <2>5
  <2> HIDE DEF t
  <2>8. ASSUME NEW h \in Hits(q) \ {t[i] : i \in DOMAIN t}
        PROVE  /\ Len(t) = q.limit
               /\ \A i \in DOMAIN t : h.event.at <= t[i].event.at
    <3>1. PICK m \in DOMAIN s : s[m] = h
      BY <2>6
    <3>2. m \notin DOMAIN t
      BY <2>5, <2>8, <3>1
    <3>3. \A i \in DOMAIN t : i < m
      BY <2>7, <3>1, <3>2
    <3>4. QED
      BY <2>3, <2>5, <2>6, <2>7, <3>1, <3>2, <3>3
  <2>9. \A i, j \in DOMAIN t : i < j => t[i].event.at >= t[j].event.at
    BY <2>5, <2>6
  <2>10. \A h \in Hits(q) \ {t[i] : i \in DOMAIN t}, i \in DOMAIN t : h.event.at <= t[i].event.at
    BY <2>8
  <2>11. Hits(q) \ {t[i] : i \in DOMAIN t} # {} => Len(t) = q.limit
    BY <2>8
  <2>12. QED
    BY ONLY <2>4, <2>9, <2>10, <2>11
<1>2. Inv /\ [Next]_vars => [\A r \in Reader : Kept1(r)]_vars
  BY <1>1
<1>3. QED
  BY <1>2, Invariance, PTL DEF Spec, MostRecentKept

(***************************************************************************)
(* An audit made again returns what it returned, in the same order, among  *)
(* newer rows and late ones.                                               *)
(***************************************************************************)
THEOREM AuditsOnlyGrow == Spec => AuditsGrow
<1> DEFINE Grows(r) ==
        /\ reply[r] = "events" /\ reply'[r] = "events" /\ asked'[r] = asked[r]
        /\ Complete(asked[r], answer[r]) /\ Complete(asked[r], answer'[r])
        => \A i, j \in DOMAIN answer[r] : i <= j =>
              \E k, l \in DOMAIN answer'[r] : /\ k <= l
                                              /\ answer'[r][k] = answer[r][i]
                                              /\ answer'[r][l] = answer[r][j]
<1>1. ASSUME Inv, [Next]_vars, NEW r \in Reader PROVE Grows(r)
  <2> SUFFICES ASSUME reply[r] = "events", reply'[r] = "events", asked'[r] = asked[r],
                      Complete(asked[r], answer[r]), Complete(asked[r], answer'[r]),
                      NEW i \in DOMAIN answer[r], NEW j \in DOMAIN answer[r], i <= j
               PROVE  \E k, l \in DOMAIN answer'[r] : /\ k <= l
                                                       /\ answer'[r][k] = answer[r][i]
                                                       /\ answer'[r][l] = answer[r][j]
    OBVIOUS
  <2>1. CASE answer'[r] = answer[r]
    BY <2>1
  <2>2. CASE answer'[r] # answer[r]
    <3>1. Audit(r)
      BY <1>1, <2>2, AnswersFromAudits
    <3>2. PICK q \in Queries : \E s \in Sorted(Hits(q)) :
                /\ asked' = [asked EXCEPT ![r] = q]
                /\ answer' = [answer EXCEPT ![r] = Sliced(s, q.limit)]
                /\ s \in Seq(Hits(q)) /\ Hits(q) \subseteq rows
      BY <1>1, <3>1, AuditAnswer
    <3>3. PICK s \in Sorted(Hits(q)) :
                /\ asked' = [asked EXCEPT ![r] = q]
                /\ answer' = [answer EXCEPT ![r] = Sliced(s, q.limit)]
                /\ s \in Seq(Hits(q)) /\ Hits(q) \subseteq rows
      BY <3>2
    <3>4. asked[r] = q /\ answer'[r] = Sliced(s, q.limit) /\ s \in Seq(rows)
      BY <1>1, <3>3 DEF Inv, TypeOK
    <3>5. /\ answer[r][i] \in rows /\ answer[r][i] \in Hits(q)
          /\ answer[r][j] \in rows /\ answer[r][j] \in Hits(q)
          /\ i < j => InOrder(answer[r][i], answer[r][j])
      BY <1>1, <3>3, <3>4 DEF Inv, Answered
    <3>6. \A h \in Hits(q) : h \in rows /\ h.event.body.scope = q.scope /\ q.scope \notin NullScopes
      BY <3>3 DEF Hits, Listed
    <3>7. \A h \in Hits(q) : \E k \in DOMAIN answer'[r] : answer'[r][k] = h
      BY <1>1, <3>4, <3>6, Parts, CompleteAnswer
    <3>8. PICK k \in DOMAIN answer'[r] : answer'[r][k] = answer[r][i]
      BY <3>5, <3>7
    <3>9. PICK l \in DOMAIN answer'[r] : answer'[r][l] = answer[r][j]
      BY <3>5, <3>7
    <3>10. CASE i = j
      <4>1. answer' \in [Reader -> Seq(Row)]
        BY <1>1, NextInv DEF Inv, TypeOK
      <4>2. k \in Nat /\ k <= k
        BY <4>1
      <4>3. QED
        BY <3>8, <3>10, <4>2
    <3>11. CASE i # j
      <4>1. i < j
        BY <1>1, <3>11 DEF Inv, TypeOK
      <4>2. InOrder(answer[r][i], answer[r][j])
        BY <3>5, <4>1
      <4>3. /\ answer[r][i].event.at \in Nat /\ answer[r][i].rowid \in Nat
            /\ answer[r][j].event.at \in Nat /\ answer[r][j].rowid \in Nat
        BY <1>1, <3>5 DEF Inv, TypeOK, Row, Event
      <4>4. ~InOrder(answer[r][j], answer[r][i])
        BY <4>2, <4>3 DEF InOrder
      <4>5. Answered(r)' /\ answer' \in [Reader -> Seq(Row)]
        BY <1>1, NextInv DEF Inv, TypeOK
      <4>6. l < k => InOrder(answer'[r][l], answer'[r][k])
        BY <4>5 DEF Answered
      <4>7. k <= l
        BY <3>8, <3>9, <4>4, <4>5, <4>6
      <4>8. QED
        BY <3>8, <3>9, <4>7
    <3>12. QED
      BY <3>10, <3>11
  <2>3. QED
    BY <2>1, <2>2
<1>2. Inv /\ [Next]_vars => [\A r \in Reader : Grows(r)]_vars
  BY <1>1
<1>3. QED
  BY <1>2, Invariance, PTL DEF Spec, AuditsGrow

(***************************************************************************)
(* The rows of a settled time are final, although rows are ordered by a    *)
(* time taken before the wait for the lock.                                *)
(***************************************************************************)
THEOREM SettledTimesAreFinal == Spec => SettledIsFinal
<1> DEFINE Final(k) == Settled(k) => Settled(k)' /\ UpTo(k)' = UpTo(k)
<1>1. ASSUME Inv, [Next]_vars, NEW k \in 0..MaxTime PROVE Final(k)
  <2> SUFFICES ASSUME Settled(k) PROVE Settled(k)' /\ UpTo(k)' = UpTo(k)
    OBVIOUS
  <2>1. Calls /\ clock \in Nat /\ k \in Nat /\ k < clock
    BY <1>1, Parts DEF Calls, Settled
  <2>2. ASSUME NEW w \in Writer, Record(w) PROVE Settled(k)' /\ UpTo(k)' = UpTo(k)
    <3>1. Waiting(w)'.at = clock
      BY <2>1, <2>2 DEF Record, Waiting, Calls
    <3>2. \A v \in Writer \ {w} : pc'[v] = pc[v] /\ Waiting(v)' = Waiting(v)
      BY <2>1, <2>2 DEF Record, Goto, Waiting, Calls
    <3>3. clock' = clock /\ rows' = rows
      BY <2>2 DEF Record
    <3>4. QED
      BY <2>1, <3>1, <3>2, <3>3 DEF Settled, UpTo
  <2>3. ASSUME NEW w \in Writer, AppendEvent(w) PROVE Settled(k)' /\ UpTo(k)' = UpTo(k)
    <3>1. PICK row \in Row : rows' = rows \cup {row} /\ row.event.at = Waiting(w).at
      BY <2>1, <2>3, AppendAddsRow
    <3>2. Waiting(w).at > k
      BY <2>3 DEF AppendEvent, Settled
    <3>3. row.event.at \in Nat
      BY DEF Row, Event
    <3>4. UpTo(k)' = UpTo(k)
      BY <2>1, <3>1, <3>2, <3>3 DEF UpTo
    <3>5. Settled(k)'
      BY <2>1, <2>3 DEF AppendEvent, Goto, Settled, Waiting, Calls
    <3>6. QED
      BY <3>4, <3>5
  <2>4. ASSUME NEW w \in Writer, Start(w) \/ AppendRaises(w) \/ Return(w) \/ Crash(w)
        PROVE  Settled(k)' /\ UpTo(k)' = UpTo(k)
    <3>1. clock' = clock /\ rows' = rows
      BY <2>4 DEF Start, AppendRaises, Return, Crash
    <3>2. pc'[w] # "append" /\ \A v \in Writer \ {w} : pc'[v] = pc[v] /\ ledger'[v] = ledger[v]
      BY <2>1, <2>4 DEF Start, AppendRaises, Return, Crash, Goto, Calls
    <3>3. QED
      BY <3>1, <3>2 DEF Settled, UpTo, Waiting
  <2>5. CASE Tick
    BY <2>1, <2>5 DEF Tick, Settled, UpTo, Waiting
  <2>6. ASSUME UNCHANGED <<clock, pc, ledger, rows>> PROVE Settled(k)' /\ UpTo(k)' = UpTo(k)
    BY <2>6 DEF Settled, UpTo, Waiting
  <2>7. ASSUME NEW r \in Reader, Read(r) PROVE UNCHANGED <<clock, pc, ledger, rows>>
    BY <2>7 DEF Read, AuditRefused, AuditTypeError, Audit, AuditRaises, Reply
  <2>8. QED
    BY <1>1, <2>2, <2>3, <2>4, <2>5, <2>6, <2>7 DEF Next, Call, vars
<1>2. Inv /\ [Next]_vars => [\A k \in 0..MaxTime : Final(k)]_vars
  BY <1>1
<1>3. QED
  BY <1>2, Invariance, PTL DEF Spec, SettledIsFinal
=============================================================================
