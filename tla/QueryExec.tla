----------------------------- MODULE QueryExec -----------------------------
(***************************************************************************)
(* PreparedQuery::execute over one immutable snapshot, and the cursor it   *)
(* returns.  A serial execution is one thread that checks the limits and   *)
(* the cancel token as it goes; in the parallel mode up to four            *)
(* std::async workers expand a chunk of the seeds each, and the caller     *)
(* waits for them in order, merges and checks the limits afterwards.       *)
(***************************************************************************)
EXTENDS QueryResult

CONSTANTS
  Queries,     \* the queries that may be executed
  MaxWorkers,  \* 4 in the code
  Budgets,     \* the row budgets a client passes to next()
  Ties         \* the orders in which std::sort may leave equal elements: for
               \* each place before the sort (or some) its rank among its equals

ASSUME QueryExecAssumption ==
  /\ MaxWorkers \in Nat \ {0}
  /\ Budgets \subseteq Nat \ {0}
  /\ Ties # {} /\ \A tie \in Ties : \A i \in DOMAIN tie : tie[i] \in Int
  /\ \A query \in Queries : IsQuery(query)

VARIABLES
  q,          \* the query being executed
  pc,         \* where execute is
  cancelled,  \* the cancel token, which another thread may set
  seeds,      \* the seeds, sorted by id
  parts,      \* the partitions: what each worker still has to do and has done
  outcome,    \* "none", "result", or the kind of error
  rows,       \* ResultCursor::rows_
  offset,     \* ResultCursor::offset_
  delivered,  \* history: the rows of the batches so far
  complete,   \* ResultBatch::complete of the last batch
  closed      \* ResultCursor::cancelled_

vars == <<q, pc, cancelled, seeds, parts, outcome, rows, offset, delivered, complete, closed>>
cursor == <<offset, delivered, complete, closed>>

Init ==
  /\ q \in Queries
  /\ pc = "start" /\ cancelled = FALSE /\ seeds = <<>> /\ parts = <<>>
  /\ outcome = "none" /\ rows = <<>>
  /\ offset = 0 /\ delivered = <<>> /\ complete = FALSE /\ closed = FALSE

-----------------------------------------------------------------------------
CeilDiv(a, b) == (a + b - 1) \div b

\* A mutation: the chunk size is rounded down.
ChunksRoundedDown(s) ==
  LET workers == IF Len(s) < MaxWorkers THEN Len(s) ELSE MaxWorkers
      chunk   == Len(s) \div workers
  IN  [i \in 1..workers |-> SubSeq(s, (i - 1) * chunk + 1, i * chunk)]

\* A mutation: and as many workers are started as there are chunks.
ChunksForAll(s) ==
  LET workers == IF Len(s) < MaxWorkers THEN Len(s) ELSE MaxWorkers
      chunk   == Len(s) \div workers
      end(i)  == IF i * chunk < Len(s) THEN i * chunk ELSE Len(s)
  IN  [i \in 1..CeilDiv(Len(s), chunk) |-> SubSeq(s, (i - 1) * chunk + 1, end(i))]

\* Chunks of equal size, the last one shorter, none of them empty.
Chunks(s) ==
  LET workers == IF Len(s) < MaxWorkers THEN Len(s) ELSE MaxWorkers
      chunk   == CeilDiv(Len(s), workers)
      end(i)  == IF i * chunk < Len(s) THEN i * chunk ELSE Len(s)
  IN  [i \in 1..CeilDiv(Len(s), chunk) |-> SubSeq(s, (i - 1) * chunk + 1, end(i))]

\* The candidates of the label index, sorted by id.
Candidates == Ascending({n \in DOMAIN q.verdict : q.verdict[n] # "other"})

\* Those of an ascending sequence of candidates that the predicate accepts.
Accepted(s) == Ascending({n \in ToSet(s) : q.verdict[n] = "yes"})

Finish(kind) ==
  /\ pc' = "done" /\ outcome' = kind
  /\ UNCHANGED <<q, cancelled, seeds, parts, rows, cursor>>

\* bind_predicate finds no value for the parameter.
Unbound ==
  /\ pc = "start" /\ q.where = "unbound"
  /\ Finish("type")

\* A scanned candidate cannot be compared: the first error is returned, that
\* of the first chunk that has one, when the workers were joined.
FilterFails ==
  /\ pc = "start" /\ q.where = "compare"
  /\ \E i \in DOMAIN Candidates : q.verdict[Candidates[i]] = "error"
  /\ Finish("type")

\* Seeds from the label index, the property index, or the filtered candidates.
FindSeeds ==
  /\ pc = "start" /\ q.where # "unbound"
  /\ \A i \in DOMAIN Candidates : q.verdict[Candidates[i]] # "error"
  /\ pc' = "plan"
  /\ seeds' = IF q.where = "compare" /\ q.parallel /\ Len(Candidates) >= 2
              THEN LET chunks == Chunks(Candidates)
                   IN  FlattenSeq([i \in DOMAIN chunks |-> Accepted(chunks[i])])
              ELSE Accepted(Candidates)
  /\ UNCHANGED <<q, cancelled, parts, outcome, rows, cursor>>

TooManyHops == q.mode = "path" /\ q.hops > q.hopLimit

HopBoundFails ==
  /\ pc = "plan" /\ TooManyHops
  /\ Finish("hops")

\* With fewer than two seeds a parallel execution runs serially.
Concurrent == q.parallel /\ q.mode # "scan" /\ Len(seeds) >= 2

Part(s) == [todo |-> s, queue |-> <<>>, cur |-> Start(0), adj |-> <<>>,
            rows |-> <<>>, work |-> 0, error |-> "none"]

\* The parallel expansion looks at the token once, before it starts.
CancelledBeforeLaunch ==
  /\ pc = "plan" /\ ~TooManyHops /\ Concurrent /\ cancelled
  /\ Finish("cancelled")

Launch ==
  /\ pc = "plan" /\ ~TooManyHops
  /\ pc' = "expand"
  /\ parts' = IF Concurrent THEN [i \in DOMAIN Chunks(seeds) |-> Part(Chunks(seeds)[i])]
              ELSE <<Part(seeds)>>
  /\ UNCHANGED <<q, cancelled, seeds, outcome, rows, cursor>>

-----------------------------------------------------------------------------
(***************************************************************************)
(* The expansion, one step of partition k at a time.  A serial execution   *)
(* polls before each unit of work.  The token is a plain bool shared by    *)
(* threads, so a poll may miss a cancellation: PollSeesCancel is separate. *)
(***************************************************************************)
Exhausted(k) == parts[k].todo = <<>> /\ parts[k].queue = <<>> /\ parts[k].adj = <<>>

Runs(k) == pc = "expand" /\ parts[k].error = "none" /\ ~Exhausted(k)

Become(k, part) ==
  /\ parts' = [parts EXCEPT ![k] = part]
  /\ UNCHANGED <<q, pc, cancelled, seeds, outcome, rows, cursor>>

Fail(k, kind) == Become(k, [parts[k] EXCEPT !.error = kind])

\* A mutation: a work limit that is met exactly is already an error.
OverWorkTooEarly(n) == ~Concurrent /\ n >= q.work

OverWork(n) == ~Concurrent /\ n > q.work

\* A mutation: a row limit that is met exactly is already an error.
OverRowsTooEarly(n) == ~Concurrent /\ n >= q.row

OverRows(n) == ~Concurrent /\ n > q.row

PollSeesCancel(k) ==
  /\ Runs(k) /\ ~Concurrent /\ cancelled
  /\ Fail(k, "cancelled")

\* Scan: one row per seed.
ScanSeed(k) ==
  LET p == parts[k]
  IN  /\ Runs(k) /\ q.mode = "scan"
      /\ \/ OverWork(p.work + 1) /\ Fail(k, "work")
         \/ ~OverWork(p.work + 1) /\ OverRows(Len(p.rows) + 1) /\ Fail(k, "rows")
         \/ /\ ~OverWork(p.work + 1) /\ ~OverRows(Len(p.rows) + 1)
            /\ Become(k, [p EXCEPT !.todo = Tail(@), !.work = @ + 1,
                                   !.rows = Append(@, Start(Head(p.todo)))])

\* Step: the adjacent edges of the next seed.
StepSeed(k) ==
  LET p == parts[k]
  IN  /\ Runs(k) /\ q.mode = "step" /\ p.adj = <<>>
      /\ \/ OverWork(p.work + 1) /\ Fail(k, "work")
         \/ /\ ~OverWork(p.work + 1)
            /\ Become(k, [p EXCEPT !.todo = Tail(@), !.work = @ + 1,
                                   !.cur = Start(Head(p.todo)),
                                   !.adj = Adjacent(q, Head(p.todo))])

\* Both endpoints of a visible edge are visible, so find_node always succeeds.
StepEdge(k) ==
  LET p == parts[k]
  IN  /\ Runs(k) /\ q.mode = "step" /\ p.adj # <<>>
      /\ \/ OverWork(p.work + 2) /\ Fail(k, "work")
         \/ ~OverWork(p.work + 2) /\ OverRows(Len(p.rows) + 1) /\ Fail(k, "rows")
         \/ /\ ~OverWork(p.work + 2) /\ ~OverRows(Len(p.rows) + 1)
            /\ Become(k, [p EXCEPT !.adj = Tail(@), !.work = @ + 2,
                                   !.rows = Append(@, Along(p.cur, Head(p.adj)))])

\* The queue of the current seed, or that of the next one.
Frontier(p) == IF p.queue # <<>> THEN p.queue ELSE <<Start(Head(p.todo))>>

\* Path: the next path of the frontier; one at the hop bound is not expanded.
Dequeue(k) ==
  LET p == parts[k]
      f == Frontier(p)
  IN  /\ Runs(k) /\ q.mode = "path" /\ p.adj = <<>>
      /\ \/ OverWork(p.work + 1) /\ Fail(k, "work")
         \/ ~OverWork(p.work + 1) /\ Len(f) > q.frontier /\ Fail(k, "frontier")
         \/ /\ ~OverWork(p.work + 1) /\ Len(f) <= q.frontier
            /\ Become(k, [p EXCEPT
                 !.todo = IF p.queue = <<>> THEN Tail(@) ELSE @,
                 !.queue = Tail(f), !.work = @ + 1, !.cur = Head(f),
                 !.adj = IF Len(Head(f).edges) >= q.hops THEN <<>>
                         ELSE Adjacent(q, EndOf(q, Head(f)))])

OnPath(p, e) == Target(q, e) \in ToSet(NodesOf(q, p.cur))

UnusableCost(e) == q.costed /\ q.edges[e].cost = BadCost

\* The edge leads back to the path: it is skipped, and costs one unit of work.
SkipEdge(k) ==
  LET p == parts[k]
  IN  /\ Runs(k) /\ q.mode = "path" /\ p.adj # <<>> /\ OnPath(p, Head(p.adj))
      /\ \/ OverWork(p.work + 1) /\ Fail(k, "work")
         \/ ~OverWork(p.work + 1) /\ Become(k, [p EXCEPT !.adj = Tail(@), !.work = @ + 1])

\* The edge extends the path: its cost, the row, then the frontier.
ExtendPath(k) ==
  LET p    == parts[k]
      e    == Head(p.adj)
      next == Along(p.cur, e)
  IN  /\ Runs(k) /\ q.mode = "path" /\ p.adj # <<>> /\ ~OnPath(p, e)
      /\ \/ OverWork(p.work + 1) /\ Fail(k, "work")
         \/ ~OverWork(p.work + 1) /\ UnusableCost(e) /\ Fail(k, "type")
         \/ /\ ~OverWork(p.work + 1) /\ ~UnusableCost(e)
            /\ \/ OverWork(p.work + 2) /\ Fail(k, "work")
               \/ ~OverWork(p.work + 2) /\ OverRows(Len(p.rows) + 1) /\ Fail(k, "rows")
               \/ /\ ~OverWork(p.work + 2) /\ ~OverRows(Len(p.rows) + 1)
                  /\ \/ Len(p.queue) >= q.frontier /\ Fail(k, "frontier")
                     \/ /\ Len(p.queue) < q.frontier
                        /\ Become(k, [p EXCEPT !.adj = Tail(@), !.work = @ + 2,
                                               !.rows = Append(@, next),
                                               !.queue = Append(@, next)])

-----------------------------------------------------------------------------
\* A mutation: a partition that failed is never joined.
FinishedWithoutError(k) == parts[k].error = "none" /\ Exhausted(k)

Finished(k) == parts[k].error # "none" \/ Exhausted(k)

AllFinished == pc = "expand" /\ \A k \in DOMAIN parts : Finished(k)

\* std::sort by cost and key, which is not stable.
SortedByCost(s, tie) ==
  LET cost == [i \in DOMAIN s |-> PathCost(q, s[i])]
      key  == [i \in DOMAIN s |-> NodesOf(q, s[i])]
      rank == [i \in DOMAIN s |-> IF i \in DOMAIN tie THEN tie[i] ELSE i]
      Less(i, j) ==
        \/ cost[i] < cost[j]
        \/ cost[i] = cost[j] /\ KeyLess(key[i], key[j])
        \/ cost[i] = cost[j] /\ key[i] = key[j] /\ rank[i] < rank[j]
        \/ cost[i] = cost[j] /\ key[i] = key[j] /\ rank[i] = rank[j] /\ i < j
      order == Listed(DOMAIN s, [j \in DOMAIN s |-> {i \in DOMAIN s : Less(i, j)}])
  IN  [i \in DOMAIN s |-> s[order[i]]]

Ordered(s, tie) ==
  LET sorted == IF q.mode = "path" /\ q.costed THEN SortedByCost(s, tie) ELSE s
  IN  IF q.desc THEN Reverse(sorted) ELSE sorted

Return(s) ==
  /\ pc' = "done" /\ outcome' = "result" /\ \E tie \in Ties : rows' = Ordered(s, tie)
  /\ UNCHANGED <<q, cancelled, seeds, parts, cursor>>

ReturnSerial ==
  /\ AllFinished /\ ~Concurrent
  /\ \/ parts[1].error # "none" /\ Finish(parts[1].error)
     \/ parts[1].error = "none" /\ Return(parts[1].rows)

FirstError == parts[CHOOSE k \in DOMAIN parts :
                      /\ parts[k].error # "none"
                      /\ \A j \in 1..(k-1) : parts[j].error = "none"].error

MergedWork == Total([k \in DOMAIN parts |-> parts[k].work])
MergedRows == FlattenSeq([k \in DOMAIN parts |-> parts[k].rows])

\* The futures are joined in order; the limits are checked on the sums.
Merge ==
  /\ AllFinished /\ Concurrent
  /\ \/ (\E k \in DOMAIN parts : parts[k].error # "none") /\ Finish(FirstError)
     \/ /\ \A k \in DOMAIN parts : parts[k].error = "none"
        /\ \/ MergedWork > q.work /\ Finish("work")
           \/ MergedWork <= q.work /\ Len(MergedRows) > q.row /\ Finish("rows")
           \/ MergedWork <= q.work /\ Len(MergedRows) <= q.row /\ Return(MergedRows)

\* Another thread cancels the token.
Cancel ==
  /\ pc # "done" /\ ~cancelled
  /\ cancelled' = TRUE
  /\ UNCHANGED <<q, pc, seeds, parts, outcome, rows, cursor>>

Batch(take, last) ==
  /\ outcome = "result" /\ ~closed /\ offset < Len(rows)
  /\ delivered' = delivered \o SubSeq(rows, offset + 1, offset + take)
  /\ offset' = offset + take /\ complete' = last
  /\ UNCHANGED <<q, pc, cancelled, seeds, parts, outcome, rows, closed>>

\* A mutation: complete is taken from the offset before the batch.
NextBatchEarly(budget) ==
  LET left == Len(rows) - offset
      take == IF budget < left THEN budget ELSE left
  IN  Batch(take, offset >= Len(rows))

\* ResultCursor::next; at the end it returns no batch and changes nothing.
NextBatch(budget) ==
  LET left == Len(rows) - offset
      take == IF budget < left THEN budget ELSE left
  IN  Batch(take, offset + take >= Len(rows))

\* ResultCursor::cancel; from then on next() returns Cancelled.
CancelCursor ==
  /\ outcome = "result" /\ ~closed
  /\ closed' = TRUE
  /\ UNCHANGED <<q, pc, cancelled, seeds, parts, outcome, rows, offset, delivered, complete>>

WorkerStep(k) ==
  \/ PollSeesCancel(k)
  \/ ScanSeed(k)
  \/ StepSeed(k)
  \/ StepEdge(k)
  \/ Dequeue(k)
  \/ SkipEdge(k)
  \/ ExtendPath(k)

CallerStep ==
  \/ Unbound
  \/ FilterFails
  \/ FindSeeds
  \/ HopBoundFails
  \/ CancelledBeforeLaunch
  \/ Launch
  \/ ReturnSerial
  \/ Merge

Next ==
  \/ CallerStep
  \/ \E k \in DOMAIN parts : WorkerStep(k)
  \/ Cancel
  \/ \E b \in Budgets : NextBatch(b)
  \/ CancelCursor

\* The calling thread and the workers keep running; nobody must cancel or read.
Fairness == WF_vars(CallerStep) /\ \A k \in 1..MaxWorkers : WF_vars(k \in DOMAIN parts /\ WorkerStep(k))

Spec == Init /\ [][Next]_vars /\ Fairness

-----------------------------------------------------------------------------
Kinds == {"rows", "work", "frontier", "hops", "type", "cancelled"}

(* Type correctness: the one type invariant of this module. *)
TypeOK ==
  /\ pc \in {"start", "plan", "expand", "done"} /\ cancelled \in BOOLEAN
  /\ (outcome = "none" <=> pc # "done") /\ outcome \in Kinds \union {"none", "result"}
  /\ \A i \in DOMAIN seeds : seeds[i] \in DOMAIN q.verdict
  /\ Len(parts) <= MaxWorkers
  /\ \A k \in DOMAIN parts :
       /\ parts[k].error \in Kinds \union {"none"} /\ parts[k].work \in Nat
       /\ \A i \in DOMAIN parts[k].adj : parts[k].adj[i] \in DOMAIN q.edges
  /\ offset \in 0..Len(rows) /\ complete \in BOOLEAN /\ closed \in BOOLEAN

(* Serial and parallel executions return the same rows in the same order,   *)
(* those of the definition of the query: every path once, by seed, length   *)
(* and edge, or by cost and key (PLANS: identical normative ordering).      *)
(* Rows of one cost and key are parallel edges; their order is the sort's.  *)
ResultIsExact == outcome = "result" => IsResult(q, rows)

(* An execution nobody cancels succeeds exactly if the whole query fits     *)
(* each of its limits, so the mode cannot decide whether a query succeeds,  *)
(* although the parallel mode checks work and rows only after the workers.  *)
SucceedsIffFits ==
  pc = "done" /\ ~cancelled =>
    LET fits == Fits(q) IN outcome = "result" <=> \A kind \in DOMAIN fits : fits[kind]

(* An error names a limit that the query really exceeds, whatever other     *)
(* errors it meets and in whichever order the workers end; a result that is *)
(* returned after a missed cancellation fits all limits too.                *)
ErrorHasCause ==
  pc = "done" =>
    LET fits == Fits(q) IN
    /\ outcome \in DOMAIN fits => ~fits[outcome]
    /\ outcome = "result" => \A kind \in DOMAIN fits : fits[kind]
    /\ outcome = "cancelled" => cancelled

(* A client that reads until a batch is complete has every row of the       *)
(* result once and in order, whatever budgets it used.                      *)
CompleteMeansAll ==
  outcome = "result" /\ offset > 0 => (complete <=> delivered = rows)

=============================================================================
