---------------------------- MODULE ActivityAudit ----------------------------
(***************************************************************************)
(* Activity events on their way into the durable log, and out of it again. *)
(* A call (writer) makes its events one after the other: each gets its     *)
(* time and a place in the ledger of the call's own service object first   *)
(* (activity_ledger.py), and its row when append_event gets the write lock *)
(* (sqlite_store.py).  Audits (tools/neuro_core_2_audit.py) list the rows  *)
(* of one scope while calls are under way.                                 *)
(***************************************************************************)
EXTENDS Integers, Sequences, FiniteSets

CONSTANTS Writer,     \* calls, each with a service object of its own
          Reader,     \* users of the audit tool
          Scope,      \* scopes of events
          NullScopes, \* those whose project is None
          Name,       \* memory ids, and the other things events name
          Plans,      \* the sequences of events a call may set out to make
          Queries,    \* what audits ask for
          NoQuery,
          Anything,   \* a filter that is not given
          MaxLimit,   \* MAX_LIMIT
          MaxTime     \* bound on the clock

VARIABLES clock,   \* datetime.now(timezone.utc)
          plan,    \* what each call is to record
          pc,      \* where each call is
          ledger,  \* the in-process ledger of each call's service
          rows,    \* the committed table activity_events
          asked,   \* the last query of each reader,
          reply,   \* what became of it
          answer   \* and the rows it returned

vars == <<clock, plan, pc, ledger, rows, asked, reply, answer>>

Kind == {"authorization_decided", "captured", "retrieved", "validation_changed",
         "session_initialized"}

\* What an event says; of its evidence, which entries it has.
Body == [kind : Kind, scope : Scope, target : Name,
         evidence : SUBSET {"source", "caller", "denial_reason"}]

\* event_id is a uuid: the call and the place among its events.
Event == [writer : Writer, n : Nat, body : Body, at : Nat]
Row == [rowid : Nat, event : Event]

Query == [scope : Scope, kind : Kind \cup {Anything}, target : Name \cup {Anything},
          dated : BOOLEAN, limit : Int]

ASSUME PlansAssumption == Plans \subseteq Seq(Body) /\ <<>> \notin Plans
ASSUME QueriesAssumption == Queries \subseteq Query /\ NoQuery \notin Queries
ASSUME BoundsAssumption == MaxLimit \in Nat /\ MaxTime \in Nat /\ NullScopes \subseteq Scope

Init ==
    /\ clock = 0
    /\ plan = [w \in Writer |-> <<>>]
    /\ pc = [w \in Writer |-> "ready"]
    /\ ledger = [w \in Writer |-> <<>>]
    /\ rows = {}
    /\ asked = [r \in Reader |-> NoQuery]
    /\ reply = [r \in Reader |-> "none"]
    /\ answer = [r \in Reader |-> <<>>]

-----------------------------------------------------------------------------
Goto(w, label) == pc' = [pc EXCEPT ![w] = label]

Start(w) ==
    /\ pc[w] = "ready"
    /\ \E p \in Plans : plan' = [plan EXCEPT ![w] = p]
    /\ Goto(w, "run")
    /\ UNCHANGED <<clock, ledger, rows, asked, reply, answer>>

\* Mutant: occurred_at in whole units of two.
RecordCoarse(w) ==
    /\ pc[w] = "run"
    /\ Len(ledger[w]) < Len(plan[w])
    /\ LET n == Len(ledger[w]) + 1
       IN  ledger' = [ledger EXCEPT ![w] = Append(@, [writer |-> w, n |-> n, body |-> plan[w][n],
                                                      at |-> clock - (clock % 2)])]
    /\ Goto(w, "append")
    /\ UNCHANGED <<clock, plan, rows, asked, reply, answer>>

\* ActivityEvent(...), then self.ledger.append(event).
Record(w) ==
    /\ pc[w] = "run"
    /\ Len(ledger[w]) < Len(plan[w])
    /\ LET n == Len(ledger[w]) + 1
       IN  ledger' = [ledger EXCEPT ![w] = Append(@, [writer |-> w, n |-> n, body |-> plan[w][n],
                                                      at |-> clock])]
    /\ Goto(w, "append")
    /\ UNCHANGED <<clock, plan, rows, asked, reply, answer>>

\* The event call w waits with for the write lock.
Waiting(w) == ledger[w][Len(ledger[w])]

\* Mutant: event_id is the place among the events of a call.
SameIdByPlace(e, f) == e.n = f.n

SameId(e, f) == e.writer = f.writer /\ e.n = f.n

\* The row of an event: of the evidence only the source.
Kept(body) == [body EXCEPT !.evidence = @ \cap {"source"}]
Stored(e) == [e EXCEPT !.body = Kept(@)]

\* append_event: INSERT OR REPLACE, in one transaction.
AppendEvent(w) ==
    /\ pc[w] = "append"
    /\ rows' = {r \in rows : ~SameId(r.event, Waiting(w))}
                  \cup {[rowid |-> Cardinality(rows) + 1, event |-> Stored(Waiting(w))]}
    /\ Goto(w, "run")
    /\ UNCHANGED <<clock, plan, ledger, asked, reply, answer>>

\* Mutant: a failing append is swallowed, and the call goes on.
AppendRaisesSwallowed(w) ==
    /\ pc[w] = "append"
    /\ Goto(w, "run")
    /\ UNCHANGED <<clock, plan, ledger, rows, asked, reply, answer>>

\* The insert raises, is rolled back, and ends the call.
AppendRaises(w) ==
    /\ pc[w] = "append"
    /\ Goto(w, "raised")
    /\ UNCHANGED <<clock, plan, ledger, rows, asked, reply, answer>>

Return(w) ==
    /\ pc[w] = "run"
    /\ Len(ledger[w]) = Len(plan[w])
    /\ Goto(w, "done")
    /\ UNCHANGED <<clock, plan, ledger, rows, asked, reply, answer>>

\* The process dies, and its ledger with it.
Crash(w) ==
    /\ pc[w] \in {"run", "append"}
    /\ Goto(w, "crashed")
    /\ ledger' = [ledger EXCEPT ![w] = <<>>]
    /\ UNCHANGED <<clock, plan, rows, asked, reply, answer>>

Tick ==
    /\ clock < MaxTime
    /\ clock' = clock + 1
    /\ UNCHANGED <<plan, pc, ledger, rows, asked, reply, answer>>

-----------------------------------------------------------------------------
\* The SQL of list_events: "project = NULL" selects no row.
Listed(scope) == {r \in rows : r.event.body.scope = scope /\ scope \notin NullScopes}

\* The filters on event_type and memory_id.
Hits(q) == {r \in Listed(q.scope) : /\ q.kind \in {Anything, r.event.body.kind}
                                    /\ q.target \in {Anything, r.event.body.target}}

\* Mutant: the order of list_events, oldest first, is kept.
InOrderOldest(r, s) ==
    \/ r.event.at < s.event.at
    \/ r.event.at = s.event.at /\ r.rowid < s.rowid

\* sorted(..., reverse=True) of what list_events returned ORDER BY occurred_at:
\* both are stable, so that equal times keep the order of the table.
InOrder(r, s) ==
    \/ r.event.at > s.event.at
    \/ r.event.at = s.event.at /\ r.rowid < s.rowid

\* The rows of S in that order (one sequence: no two have the same rowid).
Sorted(S) ==
    {s \in [1..Cardinality(S) -> S] :
        /\ \A r \in S : \E i \in DOMAIN s : s[i] = r
        /\ \A i, j \in DOMAIN s : i < j => InOrder(s[i], s[j])}

\* s[:limit]
Sliced(s, limit) ==
    LET end == IF limit >= 0 THEN limit ELSE Len(s) + limit
    IN  SubSeq(s, 1, IF end > Len(s) THEN Len(s) ELSE end)

Reply(r, q, what, events) ==
    /\ asked' = [asked EXCEPT ![r] = q]
    /\ reply' = [reply EXCEPT ![r] = what]
    /\ answer' = [answer EXCEPT ![r] = events]
    /\ UNCHANGED <<clock, plan, pc, ledger, rows>>

\* The tool's limit check, before it opens a store.
AuditRefused(r) ==
    \E q \in Queries : q.limit > MaxLimit /\ Reply(r, q, "limit_error", <<>>)

\* A bound is a string and occurred_at a datetime: comparing them raises.
AuditTypeError(r) ==
    \E q \in Queries :
        q.limit <= MaxLimit /\ q.dated /\ Hits(q) # {} /\ Reply(r, q, "type_error", <<>>)

Audit(r) ==
    \E q \in Queries :
        /\ q.limit <= MaxLimit
        /\ q.dated => Hits(q) = {}
        /\ \E s \in Sorted(Hits(q)) : Reply(r, q, "events", Sliced(s, q.limit))

\* Opening the store or listing raises.
AuditRaises(r) ==
    \E q \in Queries : q.limit <= MaxLimit /\ Reply(r, q, "raised", <<>>)

-----------------------------------------------------------------------------
Call(w) ==
    Start(w) \/ Record(w) \/ AppendEvent(w) \/ AppendRaises(w) \/ Return(w) \/ Crash(w)

Read(r) == AuditRefused(r) \/ AuditTypeError(r) \/ Audit(r) \/ AuditRaises(r)

Next == Tick \/ (\E w \in Writer : Call(w)) \/ (\E r \in Reader : Read(r))

Spec == Init /\ [][Next]_vars

-----------------------------------------------------------------------------
TypeOK ==
    /\ clock \in Nat
    /\ plan \in [Writer -> Plans \cup {<<>>}]
    /\ pc \in [Writer -> {"ready", "run", "append", "done", "raised", "crashed"}]
    /\ ledger \in [Writer -> Seq(Event)]
    /\ rows \subseteq Row
    /\ asked \in [Reader -> Queries \cup {NoQuery}]
    /\ reply \in [Reader -> {"none", "events", "limit_error", "type_error", "raised"}]
    /\ answer \in [Reader -> Seq(Row)]

Durable(w, n) == \E r \in rows : r.event.writer = w /\ r.event.n = n

\* The ledger of a live service and the table agree: every row of the call is
\* in its ledger with the same content, once; what the ledger has beyond that
\* is at most the last event, while it waits or after its append has raised
\* (_event, _audit_authorization: ledger first, then store).
LedgerCovers ==
    /\ \A r, s \in rows : SameId(r.event, s.event) => r = s
    /\ \A r \in rows : LET e == r.event IN
          pc[e.writer] # "crashed" => /\ e.n \in DOMAIN ledger[e.writer]
                                      /\ e = Stored(ledger[e.writer][e.n])
    /\ \A w \in Writer : \A n \in DOMAIN ledger[w] :
          n < Len(ledger[w]) \/ pc[w] \in {"run", "done"} => Durable(w, n)

\* Call w is checked: its plan begins with an authorization decision.
CheckedCall(w) == plan[w] # <<>> /\ plan[w][1].kind = "authorization_decided"

Complete(q, s) == q.kind = Anything /\ q.target = Anything /\ Len(s) < q.limit

\* Cause before effect, as an auditor sees it: an audit that filters nothing
\* and is not cut off shows no effect of a checked call without its decision,
\* whatever was in flight or failed when it ran.
EffectsShownWithDecision ==
    \A r \in Reader : reply[r] = "events" /\ Complete(asked[r], answer[r]) =>
        \A i \in DOMAIN answer[r] : LET w == answer[r][i].event.writer IN
            CheckedCall(w) /\ plan[w][1].scope = asked[r].scope =>
                \E j \in DOMAIN answer[r] : /\ answer[r][j].event.writer = w
                                            /\ answer[r][j].event.n = 1

\* An audit returns the most recent matching events, most recent first: of the
\* rows it leaves out none is newer than one it returns, and it leaves out
\* none while there is room (audit.py:10, sort before slice).
MostRecentKept ==
    [][\A r \in Reader :
          answer'[r] # answer[r] /\ reply'[r] = "events" /\ asked'[r].limit >= 0 =>
          LET s == answer'[r]
              left == Hits(asked'[r]) \ {s[i] : i \in DOMAIN s}
          IN  /\ \A i, j \in DOMAIN s : i < j => s[i].event.at >= s[j].event.at
              /\ \A h \in left, i \in DOMAIN s : h.event.at <= s[i].event.at
              /\ left # {} => Len(s) = asked'[r].limit]_vars

\* The same complete audit, made again, returns what it returned before, in
\* the same order, among newer events and late ones.
AuditsGrow ==
    [][\A r \in Reader :
          /\ reply[r] = "events" /\ reply'[r] = "events" /\ asked'[r] = asked[r]
          /\ Complete(asked[r], answer[r]) /\ Complete(asked[r], answer'[r])
          => \A i, j \in DOMAIN answer[r] : i <= j =>
                \E k, l \in DOMAIN answer'[r] : /\ k <= l
                                                /\ answer'[r][k] = answer[r][i]
                                                /\ answer'[r][l] = answer[r][j]]_vars

UpTo(k) == {r \in rows : r.event.at <= k}

\* The time k has passed, and no event of it waits for the lock any more.
Settled(k) == k < clock /\ \A w \in Writer : pc[w] = "append" => Waiting(w).at > k

\* Rows are listed by a time taken before the wait for the lock, so that one
\* may appear behind newer rows; but a settled time stays settled, and its
\* rows are final.
SettledIsFinal ==
    [][\A k \in 0..MaxTime : Settled(k) => Settled(k)' /\ UpTo(k)' = UpTo(k)]_vars

-----------------------------------------------------------------------------
\* The inductive invariant.

\* What call w has recorded is the beginning of its plan; what it waits with
\* has no row yet.
Labelled(w) ==
    /\ pc[w] = "ready" => plan[w] = <<>> /\ ledger[w] = <<>>
    /\ pc[w] = "append" => ledger[w] # <<>> /\ ~Durable(w, Len(ledger[w]))
    /\ Len(ledger[w]) <= Len(plan[w])
    /\ \A n \in DOMAIN ledger[w] : LET e == ledger[w][n] IN
          e.writer = w /\ e.n = n /\ e.body = plan[w][n] /\ e.at <= clock

\* A row is what its call set out to record, and comes after all its earlier
\* events.
Recorded(r) ==
    LET e == r.event IN
    /\ pc[e.writer] # "ready"
    /\ e.n \in DOMAIN plan[e.writer]
    /\ e.body = Kept(plan[e.writer][e.n])
    /\ \A n \in 1..e.n : Durable(e.writer, n)

\* The last answer of reader r is a sorted list of rows that match.
Answered(r) ==
    reply[r] = "events" =>
        /\ asked[r] \in Queries
        /\ \A i \in DOMAIN answer[r] : answer[r][i] \in Hits(asked[r])
        /\ \A i, j \in DOMAIN answer[r] : i < j => InOrder(answer[r][i], answer[r][j])

\* Plans, ledgers, table and answers agree (activity_ledger.py, append_event,
\* list_events), wherever calls wait, raise or die.
Inv ==
    /\ TypeOK
    /\ IsFiniteSet(rows)
    /\ LedgerCovers /\ EffectsShownWithDecision
    /\ \A w \in Writer : Labelled(w)
    /\ \A r \in rows : Recorded(r)
    /\ \A r \in Reader : Answered(r)

-----------------------------------------------------------------------------
\* What documents say of all audits.

\* "start_date: Optional inclusive ISO-8601 start bound on occurred_at"
\* (tools/neuro_core_2_audit.py:40; tests/test_audit_tool.py:233-246).
DateBoundsAnswered == \A r \in Reader : reply[r] # "type_error"

\* "Limits: default 100, maximum cap 1000" (tools/neuro_core_2_audit.py:12-13).
CapRespected == \A r \in Reader : Len(answer[r]) <= MaxLimit

\* "This makes authorization decisions fully inspectable via the existing
\* audit tool" (neuro_core_2_service.py:506-507): an audit lists every one.
DecisionsListed ==
    \A r \in rows : r.event.body.kind = "authorization_decided" => r \in Listed(r.event.body.scope)

\* The same sentence, of "denial reason" (neuro_core_2_service.py:505-507): an
\* audit reports the reason of every denial it was recorded with.
ReasonsReported ==
    \A r \in Reader : \A i \in DOMAIN answer[r] :
        LET e == answer[r][i].event
        IN  "denial_reason" \in plan[e.writer][e.n].evidence =>
                "denial_reason" \in e.body.evidence

=============================================================================
