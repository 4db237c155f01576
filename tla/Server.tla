------------------------------- MODULE Server -------------------------------
(***************************************************************************)
(* The daemon's socket server (crates/laya-cli/src/daemon.rs serve,        *)
(* ConnSlot, serve_conn, handle_guarded) on top of the scoring of queries: *)
(* the accept loop gives a connection one of Limits::max_conns slots and a *)
(* thread, or refuses it; the thread answers one request line after        *)
(* another until the client goes away, sends too much or nothing at all.   *)
(***************************************************************************)
EXTENDS Scoring, FiniteSets

CONSTANT MaxConns

ASSUME ServerAssumption == MaxConns \in Nat \ {0}

VARIABLES
  active,  \* the number of slots that are taken
  conn     \* conn[c]: what becomes of a client's connection

vars == <<scoring, active, conn>>

Init ==
  /\ ScoringInit
  /\ active = 0
  /\ conn = [c \in Caller |-> "closed"]

Becomes(c, stage) == conn' = [conn EXCEPT ![c] = stage]

-----------------------------------------------------------------------------
\* serve: a client that connects gets a free slot and a thread; without a slot,
\* or when the thread does not start, its connection is closed again.
Accept(c) ==
  /\ conn[c] = "closed" /\ active < MaxConns
  /\ active' = active + 1 /\ Becomes(c, "read")
  /\ UNCHANGED scoring

\* Faulty variant: the connection is closed without giving its slot back.
CloseKeepingSlot(c) ==
  /\ conn[c] = "read"
  /\ Becomes(c, "closed")
  /\ UNCHANGED <<scoring, active>>

\* The client closed, was idle past the read timeout or sent an oversized
\* line: the thread ends and drops its slot.
Close(c) ==
  /\ conn[c] = "read"
  /\ Becomes(c, "closed")
  /\ active' = active - 1
  /\ UNCHANGED scoring

\* A request line that asks for a ranking.
Query(c, t) ==
  /\ conn[c] = "read" /\ Becomes(c, "handle")
  /\ Ask(c, t)
  /\ UNCHANGED active

\* The reply is written; or the client is gone, which ends the thread.
Reply(c) ==
  /\ conn[c] = "handle" /\ query[c].stage = "done"
  /\ query' = [query EXCEPT ![c] = NoQuery]
  /\ \/ Becomes(c, "read") /\ UNCHANGED active
     \/ Becomes(c, "closed") /\ active' = active - 1
  /\ UNCHANGED <<loaded, memo, busy, poisoned, speed, worker, faults>>

\* Shutdown is acknowledged, the process exits with all its threads, and a new
\* daemon starts.  Only the cache, which is in the store, is left.
Shutdown(c) ==
  /\ conn[c] = "read"
  /\ loaded' = FALSE /\ busy' = Nobody /\ poisoned' = FALSE /\ speed' = 0
  /\ worker' = [w \in Worker |-> Idle]
  /\ query' = [d \in Caller |-> NoQuery]
  /\ active' = 0 /\ conn' = [d \in Caller |-> "closed"]
  /\ UNCHANGED <<memo, faults>>

Wait(c) == GiveUp(c) /\ UNCHANGED <<active, conn>>

Background == ScoringNext /\ UNCHANGED <<active, conn>>

Next ==
  \/ \E c \in Caller :
        \/ Accept(c) \/ Close(c) \/ Reply(c) \/ Shutdown(c) \/ Wait(c)
        \/ \E t \in Task : Query(c, t)
  \/ Background

Spec == Init /\ [][Next]_vars

\* The connection threads, whose waits all have a time limit, go on.  Nothing
\* is assumed of the clients, the store or the model.
FairSpec ==
  Spec /\ \A c \in Caller : WF_vars(Reply(c)) /\ WF_vars(Wait(c))

-----------------------------------------------------------------------------
Served == {c \in Caller : conn[c] # "closed"}

WorkerState ==
  [stage : {"off", "read", "model", "put"},
   task : Task \cup {Nobody}, out : Seq(Prob), miss : Seq(Nat),
   ps : Seq(Prob), next : Nat, left : 0..Budget]

QueryState ==
  [stage : {"idle", "waiting", "done"}, task : Task \cup {Nobody},
   worker : Worker \cup {Nobody}, mode : {"none", "lexical", "laya"},
   probs : Seq(Prob)]

ServerTypeOK ==
  /\ memo \in [Task -> [Chunk -> Prob]]
  /\ busy \in Worker \cup {Nobody} /\ speed \in Nat
  /\ worker \in [Worker -> WorkerState]
  /\ query \in [Caller -> QueryState]
  /\ {loaded, poisoned} \subseteq BOOLEAN /\ faults \in 0..MaxFaults
  /\ conn \in [Caller -> {"closed", "read", "handle"}]
  /\ active \in Nat

\* The slot counter is the number of connection threads, whatever ends them,
\* and never exceeds Limits::max_conns: no slot leaks and none is given twice.
SlotsExact == active = Cardinality(Served) /\ active <= MaxConns

\* At most one worker is in the model or caches its results, busy says so while
\* it is there, and no panic, error or abandoned query leaves busy set.
OneInModel == \A w \in Worker : InModel(w) <=> busy = w

\* A cached probability is what the model gave for that very task and chunk,
\* although a call scores only the candidates that missed and stops anywhere
\* among them.
CacheTruthful ==
  \A t \in Task, c \in Chunk : memo[t][c] \in {Nobody, <<t, c>>}

\* A query that is answered as re-ranked carries, at each candidate's place,
\* that candidate's probability for its own task or none, and at least one: an
\* abandoned worker's late result never reaches a later query.
ResultsOwn ==
  \A c \in Caller : query[c].mode = "laya" =>
    LET t == query[c].task
        probs == query[c].probs IN
    /\ Len(probs) = Count(t)
    /\ \A i \in 1..Count(t) : probs[i] \in {Nobody, <<t, Candidates[t][i]>>}
    /\ \E i \in 1..Count(t) : probs[i] # Nobody

\* Every request that was read gets its reply, even if the model hangs for ever
\* with the worker in it.
Answered == \A c \in Caller : conn[c] = "handle" ~> conn[c] # "handle"
=============================================================================
