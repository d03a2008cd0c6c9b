------------------------------ MODULE AuditChain ------------------------------
(* The audit trail of a tenant in the PostgreSQL ledger: every transition of a *)
(* reservation appends, in its own transaction, an entry that commits to the   *)
(* reservation before and after it and to the entry before it (postgres_audit, *)
(* govaraudit).  At the end, the batched chain with checkpoints of the         *)
(* confidential platform (pkg/audit), a pure algorithm.                        *)
(*                                                                             *)
(* A transaction is serializable: it reads what was committed when it began,   *)
(* waits for the tenant's row, and fails there if somebody committed since.    *)
(* A digest is what it commits to: the digest of an entry is the list of the   *)
(* contents up to it.                                                          *)
EXTENDS Integers, FiniteSets, Sequences, SequencesExt

CONSTANTS
    Writers,        \* processes that use the ledger
    AuditRequests,  \* requests of one tenant
    EventIDs,       \* event identifiers, numbered in the order of their first use
    LastWindow,     \* bound: budget windows
    BatchSize       \* of the batched chain

VARIABLES
    reservation,  \* the stored reservation of each request
    window,       \* the tenant's current window
    now,          \* the window of the clock
    inbox,        \* inbox[e]: the request an event identifier is bound to
    entries,      \* the tenant's audit entries
    tx            \* what the open transaction of each writer read

\* A tenant has finitely many requests.
ASSUME AuditAssumption == IsFiniteSet(AuditRequests)

auditVars == <<reservation, window, now, inbox, entries, tx>>

Absent == [last |-> <<"none">>, state |-> "absent", window |-> 0]

NoTx == <<>>

AuditInit ==
    /\ reservation = [r \in AuditRequests |-> Absent]
    /\ window = 1 /\ now = 1
    /\ inbox = [e \in {} |-> 0]
    /\ entries = <<>>
    /\ tx = [w \in Writers |-> NoTx]

-----------------------------------------------------------------------------
(* Entries.                                                                    *)

Content(id, r, before, after) == [id |-> id, req |-> r, before |-> before, after |-> after]

\* BuildEntry: the digest covers the content and the digest of the predecessor.
BuildEntry(sequence, previous, content) ==
    [sequence |-> sequence, previous |-> previous, content |-> content, sha |-> Append(previous, content)]

HeadOf(chain) == IF chain = <<>> THEN <<>> ELSE Last(chain).sha

\* appendAuditTx, in the transaction's view of the chain.
appendAudit(chain, content) == Append(chain, BuildEntry(Len(chain) + 1, HeadOf(chain), content))

\* One entry after the other.
appendAudits(chain, contents) ==
    LET out[k \in 0 .. Len(contents)] ==
            IF k = 0 THEN chain ELSE appendAudit(out[k - 1], contents[k])
    IN out[Len(contents)]

\* A mutant: the predecessor is not compared.
VerifyUnlinked(chain) ==
    /\ chain # <<>>
    /\ \A i, j \in DOMAIN chain : i # j => chain[i].content.id # chain[j].content.id
    /\ \A i \in DOMAIN chain :
        /\ chain[i].sequence = i
        /\ chain[i] = BuildEntry(i, chain[i].previous, chain[i].content)

Verify(chain) ==
    /\ chain # <<>>
    /\ \A i, j \in DOMAIN chain : i # j => chain[i].content.id # chain[j].content.id
    /\ \A i \in DOMAIN chain :
        /\ chain[i].sequence = i
        /\ chain[i].previous = IF i = 1 THEN <<>> ELSE chain[i - 1].sha
        /\ chain[i] = BuildEntry(i, chain[i].previous, chain[i].content)

-----------------------------------------------------------------------------
(* Transactions.  The view of one is what it read and wrote.                   *)

View == [reservation |-> reservation, window |-> window, inbox |-> inbox, entries |-> entries]

\* Tells whether another transaction committed.
Stamp == <<Len(entries), window>>

\* Reservations move to the states, and under the events, that to names, each
\* with an entry of its own.
Moved(v, to) ==
    LET order == SetToSeq(DOMAIN to)
        after(r) == [last |-> to[r].id, state |-> to[r].state, window |-> v.reservation[r].window]
    IN [v EXCEPT !.reservation = [r \in DOMAIN @ |-> IF r \in DOMAIN to THEN after(r) ELSE @[r]],
                 !.entries = appendAudits(@, [k \in DOMAIN order |->
                     Content(to[order[k]].id, order[k], v.reservation[order[k]], after(order[k]))])]

\* rolloverTenantTx: every provisional reservation of the window is guarded, each
\* with an entry of its own, and stays in its state.
Guarded(v) == {r \in AuditRequests : v.reservation[r].state = "provisional"
                                        /\ v.reservation[r].window = v.window}

advanceTenantWindow(v) ==
    IF now = v.window THEN v
    ELSE [Moved(v, [r \in Guarded(v) |-> [id |-> <<"window-rollover", r, now>>, state |-> "provisional"]])
            EXCEPT !.window = now]

\* What a dispatch, settlement or cancellation may make of a reservation.
Successors ==
    [absent |-> {}, reserved |-> {"dispatched", "released"},
     dispatched |-> {"unresolved", "provisional", "final", "released"},
     unresolved |-> {"unresolved", "provisional", "final", "released"},
     provisional |-> {"provisional", "final"}, final |-> {"final"}, released |-> {}]

\* A transaction takes its snapshot.
Begin(w) ==
    /\ tx[w] = NoTx
    /\ tx' = [tx EXCEPT ![w] = Stamp]
    /\ UNCHANGED <<reservation, window, now, inbox, entries>>

\* What a transaction may do.  An event identifier is used once: again, or for
\* another request, it changes nothing.
Operations ==
    {[kind |-> "reserve", req |-> r] : r \in {q \in AuditRequests : reservation[q] = Absent}}
    \cup {[kind |-> "expiry", due |-> S] :
            S \in SUBSET {q \in AuditRequests : reservation[q].state \in {"reserved", "dispatched"}} \ {{}}}
    \cup UNION {{[kind |-> "event", req |-> r, id |-> <<"event", e>>, to |-> t] :
                    t \in Successors[reservation[r].state],
                    e \in EventIDs \cap {Cardinality(DOMAIN inbox) + 1}} : r \in AuditRequests}

\* A mutant: the reservation read before the windows moved is the one that moves.
MutateUnreloaded(v, op) ==
    LET u == advanceTenantWindow(v)
        r == op.req
        after == [last |-> op.id, state |-> op.to, window |-> v.reservation[r].window]
    IN [u EXCEPT !.reservation[r] = after,
                 !.entries = appendAudit(@, Content(op.id, r, v.reservation[r], after)),
                 !.inbox = [e \in DOMAIN @ \cup {op.id} |-> IF e = op.id THEN r ELSE @[e]]]

\* mutateEventOnce: dispatch, settlement or cancellation.
Mutate(v, op) ==
    LET u == Moved(advanceTenantWindow(v), [r \in {op.req} |-> [id |-> op.id, state |-> op.to]])
    IN [u EXCEPT !.inbox = [e \in DOMAIN @ \cup {op.id} |-> IF e = op.id THEN op.req ELSE @[e]]]

\* admitOnce: the window moves, then the reservation is made in it.
Reserve(v, op) ==
    LET u == advanceTenantWindow(v)
        after == [last |-> <<"reserve", op.req>>, state |-> "reserved", window |-> u.window]
    IN [u EXCEPT !.reservation[op.req] = after,
                 !.entries = appendAudit(@, Content(<<"reserve", op.req>>, op.req, Absent, after))]

\* reconcileExpiredOnce: all that are overdue, in one transaction, in whatever window.
Expire(v, due) ==
    Moved(v, [r \in due |-> IF v.reservation[r].state = "reserved"
                            THEN [id |-> <<"expiry", r>>, state |-> "released"]
                            ELSE [id |-> <<"expiry-unresolved", r>>, state |-> "unresolved"]])

Effect(v, op) ==
    CASE op.kind = "reserve" -> Reserve(v, op)
      [] op.kind = "event" -> Mutate(v, op)
      [] op.kind = "expiry" -> Expire(v, op.due)

\* The transaction takes the tenant's row, does its work and commits.
Commit(w, op) ==
    LET v == Effect(View, op)
    IN /\ tx[w] = Stamp
       /\ reservation' = v.reservation /\ window' = v.window
       /\ inbox' = v.inbox /\ entries' = v.entries
       /\ tx' = [tx EXCEPT ![w] = NoTx]
       /\ UNCHANGED now

\* A serialization failure (somebody committed since it began), a lost connection
\* or process, or a refused operation: nothing is written.
Rollback(w) ==
    /\ tx[w] # NoTx
    /\ tx' = [tx EXCEPT ![w] = NoTx]
    /\ UNCHANGED <<reservation, window, now, inbox, entries>>

WindowEnds ==
    /\ now < LastWindow
    /\ now' = now + 1
    /\ UNCHANGED <<reservation, window, inbox, entries, tx>>

AuditNext ==
    \/ \E w \in DOMAIN tx : Begin(w) \/ (\E op \in Operations : Commit(w, op)) \/ Rollback(w)
    \/ WindowEnds

AuditSpec == AuditInit /\ [][AuditNext]_auditVars

-----------------------------------------------------------------------------
(* The batched chain.                                                          *)

BatchRecord(index, previous, batch) ==
    [index |-> index, previous |-> previous, batch |-> batch, hash |-> Append(previous, <<index, batch>>)]

Flush(c) ==
    IF c.pending = <<>> THEN c
    ELSE [records |-> Append(c.records,
                        BatchRecord(Len(c.records),
                                    IF c.records = <<>> THEN <<>> ELSE Last(c.records).hash, c.pending)),
          pending |-> <<>>]

AppendEntry(c, entry) ==
    LET d == [c EXCEPT !.pending = Append(@, entry)]
    IN IF Len(d.pending) >= BatchSize THEN Flush(d) ELSE d

\* The records of a chain that list was appended to.
Sealed(list) ==
    LET chain[k \in 0 .. Len(list)] ==
            IF k = 0 THEN [records |-> <<>>, pending |-> <<>>] ELSE AppendEntry(chain[k - 1], list[k])
    IN Flush(chain[Len(list)]).records

\* VerifyChain finds nothing.
ChainIntact(records) ==
    \A i \in DOMAIN records :
        /\ records[i].previous = IF i = 1 THEN <<>> ELSE records[i - 1].hash
        /\ records[i].hash = BatchRecord(records[i].index, records[i].previous, records[i].batch).hash

\* A mutant: the record at the checkpoint need only be there.
MatchesCheckpointIndex(records, cp) ==
    ChainIntact(records) /\ (records # <<>> => \E i \in DOMAIN records : records[i].index = cp.index)

\* VerifyChainAgainstCheckpoint finds nothing: the first record with the index of
\* the checkpoint has its hash; a chain with no record at all is not looked at.
MatchesCheckpoint(records, cp) ==
    /\ ChainIntact(records)
    /\ records # <<>> =>
        \E i \in DOMAIN records :
            /\ records[i].index = cp.index /\ records[i].hash = cp.hash
            /\ \A j \in 1..(i - 1) : records[j].index # cp.index

\* The check of readiness and of the audit worker: a tenant without entries passes.
VerifyAllTenantAudits == entries # <<>> => Verify(entries)

-----------------------------------------------------------------------------
\* x is what the first n entries of a chain leave of request r: where its last
\* entry ended.
LeftBy(chain, n, r, x) ==
    \/ x = Absent /\ \A i \in 1 .. n : chain[i].content.req # r
    \/ \E i \in 1 .. n : /\ chain[i].content.req = r /\ chain[i].content.after = x
                        /\ \A j \in (i + 1) .. n : chain[j].content.req # r

\* The trail is complete: it verifies, and every entry of a request begins where
\* the request's previous entry ended, the last one at the stored reservation.
\* No transition, a rollover of another transaction's included, escapes it, and
\* one that is rolled back leaves no entry.
AuditIsContinuous ==
    /\ VerifyAllTenantAudits
    /\ \A i \in DOMAIN entries :
        LeftBy(entries, i - 1, entries[i].content.req, entries[i].content.before)
    /\ \A r \in DOMAIN reservation : LeftBy(entries, Len(entries), r, reservation[r])

\* An entry that has a successor cannot change unseen: altered, with its own
\* digest recomputed, or taken out, it makes the verification of the tenant fail.
AlteredEntryIsDetected ==
    \A i \in DOMAIN entries : i < Len(entries) =>
        LET e == entries[i]
            other == BuildEntry(i, e.previous, [e.content EXCEPT !.after = Absent])
        IN ~Verify([entries EXCEPT ![i] = other]) /\ ~Verify(RemoveAt(entries, i))

\* The records with batch i altered and every hash from there on recomputed.
Rewritten(records, i) ==
    LET head(out) == IF out = <<>> THEN <<>> ELSE Last(out).hash
        batch(k) == IF records[k].index = i - 1 THEN <<(<<"altered">>)>> ELSE records[k].batch
        out[k \in 0 .. Len(records)] ==
            IF k = 0 THEN <<>>
            ELSE Append(out[k - 1], BatchRecord(records[k].index, head(out[k - 1]), batch(k)))
    IN out[Len(records)]

\* A checkpoint bounds what can be rewritten: of a chain rewritten from some batch
\* on, all its hashes recomputed, or cut off, what agrees with a checkpoint is
\* unchanged up to it, unless no record is left at all.
CheckpointBoundsRewriting ==
    LET records == Sealed([i \in DOMAIN entries |-> entries[i].content.id])
    IN \A k \in DOMAIN records :
        LET cp == [index |-> records[k].index, hash |-> records[k].hash]
        IN /\ \A i \in DOMAIN records :
                /\ MatchesCheckpoint(Rewritten(records, i), cp) => i > k
                /\ MatchesCheckpoint(SubSeq(records, 1, i), cp) => i >= k
           /\ MatchesCheckpoint(records, cp)

\* The trail holds every transition and shows what was altered in it.
TrailIsEvident == AuditIsContinuous /\ AlteredEntryIsDetected /\ CheckpointBoundsRewriting

=============================================================================
