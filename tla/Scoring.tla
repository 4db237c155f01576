------------------------------ MODULE Scoring ------------------------------
(***************************************************************************)
(* How the daemon asks the model (crates/laya-rank/src/retriever.rs        *)
(* laya_gate and call_scorer_bounded, crates/laya-cli/src/daemon.rs        *)
(* MemoScorer, crates/laya-model/src/model.rs noul_ids_within_timed).      *)
(*                                                                         *)
(* A connection thread hands its candidates to a detached worker thread    *)
(* and waits for the budget at most.  The worker, which may outlive the    *)
(* query, reads the probability cache, enters the model if nobody else is  *)
(* in it, scores what is missing while the measured speed says that the    *)
(* next batch fits, caches what it scored and sends the result to whoever  *)
(* still waits.                                                            *)
(*                                                                         *)
(* A task stands for the model tag, the salt and the task text of a cache  *)
(* key; the probability of a chunk for a task is the pair of them, so that *)
(* a value that reached the wrong key or query shows.  A batch is one row. *)
(***************************************************************************)
EXTENDS Integers, Sequences

CONSTANTS
  Caller,      \* connection threads
  Worker,      \* scorer threads that may exist at once
  Task,
  Candidates,  \* Candidates[t]: the chunks offered to the model, best first
  Budget,      \* the scorer's share of laya_budget, in units of time
  Cost,        \* what a batch may take, in the same units
  Nobody,      \* no worker, no task, no probability
  MaxFaults    \* bound of the model: panics, and workers that start late

Chunk == UNION {{Candidates[t][i] : i \in DOMAIN Candidates[t]} : t \in Task}
Prob == (Task \X Chunk) \cup {Nobody}
Count(t) == Len(Candidates[t])

ASSUME ScoringAssumption ==
  /\ Budget \in Nat /\ Cost \subseteq Nat /\ MaxFaults \in Nat
  /\ \A t \in Task : Candidates[t] \in Seq(Chunk) \ {<<>>}
  /\ Nobody \notin Worker \cup Task \cup (Task \X Chunk)

VARIABLES
  loaded,   \* the model is loaded and published
  memo,     \* memo[t][c]: the cached probability
  busy,     \* the worker in the model (MemoScorer.busy and run_lock)
  poisoned, \* a forward pass panicked with run_lock held
  speed,    \* ns_per_token: the estimated cost of a batch, 0 = not measured
  worker,   \* worker[w]: the call it makes
  query,    \* query[c]: what the connection thread waits for, and its result
  faults    \* faults so far

scoring == <<loaded, memo, busy, poisoned, speed, worker, query, faults>>

\* out: the probabilities found so far; miss: the positions the model has to
\* score; ps: its results for them; left: what is left of the time.
Idle == [stage |-> "off", task |-> Nobody, out |-> <<>>, miss |-> <<>>,
         ps |-> <<>>, next |-> 1, left |-> 0]

NoQuery == [stage |-> "idle", task |-> Nobody, worker |-> Nobody,
            mode |-> "none", probs |-> <<>>]

ScoringInit ==
  /\ loaded = FALSE
  /\ memo = [t \in Task |-> [c \in Chunk |-> Nobody]]
  /\ busy = Nobody /\ poisoned = FALSE /\ speed = 0
  /\ worker = [w \in Worker |-> Idle]
  /\ query = [c \in Caller |-> NoQuery]
  /\ faults = 0

Fault == faults < MaxFaults /\ faults' = faults + 1

-----------------------------------------------------------------------------
\* The loader thread has warmed the model up and publishes it.
Load ==
  /\ ~loaded /\ loaded' = TRUE
  /\ UNCHANGED <<memo, busy, poisoned, speed, worker, query, faults>>

Answer(c, mode, probs) ==
  query' = [query EXCEPT ![c].stage = "done", ![c].worker = Nobody,
                         ![c].mode = mode, ![c].probs = probs]

\* laya_gate: without a model (or for a lexical-only request) the lexical order
\* stands; else a worker starts on the candidates.
Ask(c, t) ==
  /\ query[c].stage = "idle"
  /\ \/ /\ query' = [query EXCEPT ![c] =
             [NoQuery EXCEPT !.stage = "done", !.task = t, !.mode = "lexical"]]
        /\ UNCHANGED worker
     \/ /\ loaded
        /\ \E w \in Worker :
             /\ worker[w].stage = "off"
             /\ worker' = [worker EXCEPT ![w] =
                  [Idle EXCEPT !.stage = "read", !.task = t]]
             /\ query' = [query EXCEPT ![c] =
                  [NoQuery EXCEPT !.stage = "waiting", !.task = t,
                                  !.worker = w]]
  /\ UNCHANGED <<loaded, memo, busy, poisoned, speed, faults>>

\* Faulty variant: recv without a time limit.
GiveUpNever(c) ==
  /\ query[c].stage = "waiting" /\ worker[query[c].worker].stage = "off"
  /\ Answer(c, "lexical", <<>>)
  /\ UNCHANGED <<loaded, memo, busy, poisoned, speed, worker, faults>>

\* recv_timeout: the budget is over, the worker is abandoned.
GiveUp(c) ==
  /\ query[c].stage = "waiting"
  /\ Answer(c, "lexical", <<>>)
  /\ UNCHANGED <<loaded, memo, busy, poisoned, speed, worker, faults>>

-----------------------------------------------------------------------------
\* Worker w ends: its result (none after an error) goes to the query that still
\* waits for it, which re-ranks only if some candidate has a probability.
Ends(w, result) ==
  /\ worker' = [worker EXCEPT ![w] = Idle]
  /\ query' = [c \in Caller |->
       IF query[c].worker # w THEN query[c]
       ELSE IF \E i \in DOMAIN result : result[i] # Nobody
         THEN [query[c] EXCEPT !.stage = "done", !.worker = Nobody,
                               !.mode = "laya", !.probs = result]
         ELSE [query[c] EXCEPT !.stage = "done", !.worker = Nobody,
                               !.mode = "lexical"]]

\* MemoScorer::run looks the next candidate up (in a store that is down there
\* is nothing, see Expire).
Lookup(w) ==
  /\ worker[w].stage = "read" /\ worker[w].next <= Count(worker[w].task)
  /\ LET t == worker[w].task
         i == worker[w].next
         p == memo[t][Candidates[t][i]] IN
     worker' = [worker EXCEPT
       ![w].next = i + 1,
       ![w].out = Append(@, p),
       ![w].miss = IF p = Nobody THEN Append(@, i) ELSE @]
  /\ UNCHANGED <<loaded, memo, busy, poisoned, speed, query, faults>>

LookedUp(w) ==
  worker[w].stage = "read" /\ worker[w].next > Count(worker[w].task)

ToModel(w) ==
  /\ busy' = w
  /\ worker' = [worker EXCEPT ![w].stage = "model", ![w].left = Budget]
  /\ UNCHANGED query

\* Everything was cached; or the model is free; or it is busy, which fails the
\* call, cached probabilities and all, as a poisoned run_lock does.
Enter(w) ==
  /\ LookedUp(w)
  /\ CASE worker[w].miss = <<>> -> Ends(w, worker[w].out) /\ UNCHANGED busy
       [] worker[w].miss # <<>> /\ busy = Nobody /\ ~poisoned -> ToModel(w)
       [] OTHER -> Ends(w, <<>>) /\ UNCHANGED busy
  /\ UNCHANGED <<loaded, memo, poisoned, speed, faults>>

\* batch_fits, updated_estimate and decayed_estimate.
Fits(left) == left > 0 /\ speed <= left
Updated(cost) == IF speed = 0 THEN cost ELSE (speed * 3 + cost) \div 4
Decayed == speed - speed \div 4

InModel(w) == worker[w].stage \in {"model", "put"}
Unscored(w) ==
  worker[w].stage = "model" /\ Len(worker[w].ps) < Len(worker[w].miss)

\* The budget that is left after a batch: Duration's saturating difference.
Remaining(left, cost) == IF cost < left THEN left - cost ELSE 0

\* The next batch runs; it may take longer than predicted.
RunBatch(w) ==
  /\ Unscored(w) /\ Fits(worker[w].left)
  /\ LET t == worker[w].task
         i == worker[w].miss[Len(worker[w].ps) + 1] IN
     \E cost \in Cost :
       /\ worker' = [worker EXCEPT
            ![w].ps = Append(@, <<t, Candidates[t][i]>>),
            ![w].left = Remaining(@, cost)]
       /\ speed' = Updated(cost)
  /\ UNCHANGED <<loaded, memo, busy, poisoned, query, faults>>

\* No batch is left, or the next one does not fit; skipped on prediction alone,
\* it lowers the estimate.
StopBatches(w) ==
  /\ worker[w].stage = "model" /\ (Unscored(w) => ~Fits(worker[w].left))
  /\ speed' = IF Unscored(w) /\ worker[w].left > 0 THEN Decayed ELSE speed
  /\ worker' = [worker EXCEPT ![w].stage = "put", ![w].next = 1]
  /\ UNCHANGED <<loaded, memo, busy, poisoned, query, faults>>

\* The time went by before the first batch.
Late(w) ==
  /\ Unscored(w) /\ worker[w].left > 0 /\ Fault
  /\ worker' = [worker EXCEPT ![w].left = 0]
  /\ UNCHANGED <<loaded, memo, busy, poisoned, speed, query>>

\* Worker w leaves the model with nothing, whatever the earlier batches gave:
\* the guard clears busy and the query that waits falls back.
Breaks(w) ==
  /\ Unscored(w) /\ Fault
  /\ busy' = Nobody
  /\ Ends(w, <<>>)
  /\ UNCHANGED <<loaded, memo, speed>>

\* A candidate's sequence cannot be built, or a forward pass returns an error.
RunFails(w) == Breaks(w) /\ UNCHANGED poisoned

\* A panic in a forward pass: the lock stays poisoned, the channel is closed.
Panic(w) == Breaks(w) /\ poisoned' = TRUE

\* Faulty variant: results are put under the first keys of the query, not under
\* those that missed.
PutShifted(w) ==
  /\ worker[w].stage = "put" /\ worker[w].next <= Len(worker[w].ps)
  /\ LET t == worker[w].task
         j == worker[w].next IN
     /\ worker' = [worker EXCEPT ![w].next = j + 1,
                                 ![w].out[worker[w].miss[j]] = worker[w].ps[j]]
     /\ memo' = [memo EXCEPT ![t][Candidates[t][j]] = worker[w].ps[j]]
  /\ UNCHANGED <<loaded, busy, poisoned, speed, query, faults>>

\* One result goes to the output and to the cache.
Put(w) ==
  /\ worker[w].stage = "put" /\ worker[w].next <= Len(worker[w].ps)
  /\ LET t == worker[w].task
         j == worker[w].next
         i == worker[w].miss[j] IN
     /\ worker' = [worker EXCEPT ![w].next = j + 1,
                                 ![w].out[i] = worker[w].ps[j]]
     /\ memo' = [memo EXCEPT ![t][Candidates[t][i]] = worker[w].ps[j]]
  /\ UNCHANGED <<loaded, busy, poisoned, speed, query, faults>>

\* Faulty variant: the result goes to a query that waits, as on a channel that
\* outlives the query it was made for.
FinishLate(w) ==
  /\ worker[w].stage = "put" /\ worker[w].next > Len(worker[w].ps)
  /\ busy' = Nobody
  /\ worker' = [worker EXCEPT ![w] = Idle]
  /\ query' = [c \in Caller |->
       IF query[c].stage # "waiting" THEN query[c]
       ELSE [query[c] EXCEPT !.stage = "done", !.worker = Nobody,
                             !.mode = "laya", !.probs = worker[w].out]]
  /\ UNCHANGED <<loaded, memo, poisoned, speed, faults>>

\* MemoScorer::run returns, the guard clears busy, and the worker ends.
Finish(w) ==
  /\ worker[w].stage = "put" /\ worker[w].next > Len(worker[w].ps)
  /\ busy' = Nobody
  /\ Ends(w, worker[w].out)
  /\ UNCHANGED <<loaded, memo, poisoned, speed, faults>>

\* A cached probability expires after a day, or the store drops it.
Expire(t, c) ==
  /\ memo[t][c] # Nobody
  /\ memo' = [memo EXCEPT ![t][c] = Nobody]
  /\ UNCHANGED <<loaded, busy, poisoned, speed, worker, query, faults>>

WorkerStep(w) ==
  \/ Lookup(w) \/ Enter(w) \/ RunBatch(w) \/ StopBatches(w) \/ Put(w)
  \/ Finish(w)

ScoringNext ==
  \/ Load
  \/ \E w \in Worker : WorkerStep(w) \/ Late(w) \/ RunFails(w) \/ Panic(w)
  \/ \E t \in Task, c \in Chunk : Expire(t, c)
=============================================================================
