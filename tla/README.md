# A TLA+ verification of laya-codex

laya-codex indexes a repository locally and hands Claude Code the code a prompt
needs. This directory holds TLA+ specifications of its parts, TLC configurations
that check them on small instances, and proofs that TLAPS checks. Paths below
are relative to `src/crates/`; a bare file name is a file of the crate that the
text is about.

## 1. The system

```
 hooks, MCP, CLI  --unix socket-->  daemon  --RESP, pool + breaker-->  Moon
 (short processes,                  (threads:   store.rs, conn.rs     (sidecar
  client.rs, hook.rs)                connections,                      server, spawned
                                     index job,                        by supervisor.rs)
                                     scoring worker, model loader)
```

| Component | State | Operations | Interacts with | Hard behaviour | Correct when |
|---|---|---|---|---|---|
| MoonStore writes (`laya-store/src/store.rs`) | in Moon: file record, chunk hashes, identifier sets, document frequencies, set of files | `put_file`, `delete_file`, their reads | Executor; indexer; queries | read-modify-write over a non-transactional pipeline; refusals, resends, half-done writes; pipelines of other paths in between | a write that returned Ok replaced the path; frequencies count what is indexed |
| MoonStore queries (`store.rs`, `query.rs`) | none | `bm25`, `ident_matches` | retriever | costs that overflow; foreign and vanished keys | the plan holds its budget and takes the rarest terms; the fusion is right |
| Executor (`conn.rs`) | slots, generation | `run`, `attempt`, `slot`, `verify_server` | breaker; Moon | restart leaves stale connections; late answers; panics holding a slot | one restart costs a call one attempt |
| CircuitBreaker (`breaker.rs`) | closed / open / half open | `try_acquire`, `on_success`, `on_failure` | Executor | stragglers, lost probes, instants read early | dead server probed once per cooldown; closes again |
| Supervisor, secrets (`supervisor.rs`, `secure.rs`) | pidfile, ACL file, child | `ensure_running`, `stop`, `load_or_create_acl` | Moon; other processes of the home | spawn races, legacy servers, slow probes, deaths in between | one password, nobody settles for an unprotected server, a stop stops |
| Indexer (`laya-cli/src/indexer.rs`) | the walk, the changed and parsed files | `index_repo`, `index_file` | store; daemon; working tree | acts on what it read earlier | index = working tree |
| Chunker (`laya-parse`) | the cursor of each walk | `chunk_tree`, `chunk_text`, `collect_symbols` | indexer | shared rows, comments, giant and tiny nodes | every line in one chunk, sizes kept, right parents |
| Daemon, index requests (`daemon.rs`) | `indexing` set | `ReindexFile`, `IndexRepo` | hooks; indexer | both write, unserialised | no lost chunks; a job ends |
| Daemon, sessions (`daemon.rs`, `session.rs`) | sessions: `sent`, `full_reads`, `last`, `working_set`, `topic` | `Query`, `NoteRead`, `Session` | hooks; retriever; files | overlapping prompts under three locks, edits, lost replies, eviction | nothing twice; "already provided" is true; a follow-up is about its topic |
| Retriever (`laya-rank/src/retriever.rs`, `fusion.rs`, `span.rs`, `related.rs`) | none | `query_with_capture` | store; scoring | many limits, partial answers | order, completeness claims |
| Sizing, rendering (`sizing.rs`, `render.rs`, `daemon.rs` `render`) | none | pure | sessions | caps, budgets | text under its cap, claims about what is in it true |
| Scoring (`daemon.rs` MemoScorer, `retriever.rs`, `laya-model/src/model.rs`) | busy flag, memo, lock, speed | `run`, `call_scorer_bounded`, `laya_gate` | model | a worker that outlives its deadline; panics | busy is released; cached = computed; results are one's own |
| Model inputs (`laya-model/src/sequence.rs`, `model.rs`) | none | `build_from_state_ids`, `plan_batches` | model | nested token budgets | no input too long, none lost |
| Socket server (`daemon.rs`) | connection slots | `serve`, `serve_conn`, `handle_guarded` | clients | panics, refusals, idle clients | slots never leak; a request is answered |
| Daemon lifetime (`daemon.rs`, `client.rs`, `sys.rs`) | lock file, pidfile, socket | autostart, bind, stop | clients | racing starts and stops | one daemon that owns its files; hooks get one back |
| Hooks (`hook.rs`, `main.rs`) | none | one process per event, with a time limit | daemon | fail open: any request or reply may be lost | |
| MCP server (`mcp.rs`) | none | `search` by name or in words | files; daemon | deadlines, caps, changing files | "complete" is true |
| init, doctor (`init.rs`, `doctor.rs`, `serving.rs`) | settings files, backups | `init`, `doctor` | editors; the machine | failed calls, kills, second runs | the user's settings survive; exit 0 means it can serve |
| Traces (`trace.rs`, `capture.rs`) | jsonl files | append, rotate, clear, show | all processes | racing rotation | a writer's entries are shown in order |
| Model inference (`laya-model`) | weights | floating point | | | out of reach |
| Configuration, fine-tuning, benchmarks, packaging | | | | | not part of the running core |

`PROJECT.json` gives for each component what is modelled, and under "hazards"
each thing that can go wrong with its source line.

## 2. Modules

| Module | Models | How |
|---|---|---|
| `FileStore` | `put_file`, `delete_file` | One write per client, in `op[c]`: two reads, then the pipeline as sections of commands in the order the code queues them: drop removed chunks, remove all old names, insert all new chunks with their names, count frequencies, record, list, reply. One action per kind of command. `Refuse`: Moon answers one command with an error and runs the next. `Resend`: the connection broke anywhere, the pipeline runs again from its start. `GiveUp`: the call returned an error, or the process died. |
| `StoreContract` | `FileStore` under the contract of `MoonStore` (writes of a path are serialised by the caller) | adds two history variables: paths ever scarred by a failure, and whether a HINCRBY was replayed or lost |
| `FileIndex` | what the `Store` trait promises | abstract: a map from paths to contents; while a write is changing a path, and after one that failed, there is no content to rely on |
| `RepoIndex` | `index_repo`, `index_file`, `ReindexFile`, `IndexRepo`, edits | over `FileStore` *without* the contract; the job's phases compare / parse / put / list / delete hold what was read earlier, as the code's locals do |
| `Breaker` | `CircuitBreaker` | instants become "ticks left"; the caller's instant may be `Skew` ticks old because it is read before the lock |
| `Executor` | `Executor::run` over `Breaker` | slots are mutexes held for one attempt; a connection is fresh (of the current generation) and alive (its server still runs), or not |
| `Supervisor` | `ensure_moon`, `ensure_running`, `replace_legacy`, `terminate`, `stop`, `write_pidfile`, `load_or_create_acl` | one action per system call, of any number of processes; they meet in the port, the ACL file, `moon.pid` and `moon.pid.tmp`; the Moons are external processes that start, answer, crash and leave in their own time |
| `Lifetime` | autostart (`connect`, `claim_spawn`), `cmd_daemon`, `bind_single`, the shutdown callback, `stop_daemon`, `remove_stale` | processes that meet in three files: `lock`, `pidfile` and `socket` each hold the process they name; one action per system call that another process can come between |
| `Scoring` | `laya_gate`, `call_scorer_bounded`, `MemoScorer::run`, `noul_ids_within_timed` | connection threads and detached workers; a worker reads the cache, enters the model if it is free, scores batches while the measured speed says the next one fits, caches, sends |
| `Server` | `serve`, `ConnSlot`, `serve_conn`, `handle_guarded` | extends `Scoring`: what a connection thread waits for is a query of it |
| `Injection` | `render`, `already`, `mark_sent`, `note_read`, `reset_context`, eviction, the hooks around them | the agent's context is a set of <span, version> blocks, the daemon's belief is `sent` and `fullReads` |
| `Topics` | `has_topic`, `is_follow_up`, `effective_query`, `task_focus`, `record_query`, `view`, `Sessions::get` | the three critical sections of a query as three actions; a prompt is its sets of words |
| `Chunker` | `chunk_tree`, `chunk_text`, `chunk_source_with` | a pass, or one step of a walk, is an action: walk with a stack of calls, trim, cover, merge, describe |
| `Symbols` | `collect_symbols`, `chunk_refs` | the cursor and the three stacks beside it |
| `Queries` | `bm25`, `prepare_terms`, `select_terms`, `parse_search_reply`, `fuse_scores`, `ident_matches`, `rank_matches` | a stage is an action, Moon answers what it likes |
| `Inputs` | `build_from_state_ids`, `build_checked`, `plan_batches`, `plan_batches_in_order` | numbers of tokens |
| `Corpus`, `Loops` | the indexed chunks; shapes of loop | used by the next five and others |
| `Ranking`, `Spans` | `rrf`, cap per file, prose behind code, the gate's fusion; span merging and the line budget | operators |
| `Related`, `Sizing` | `expand_related`, `test_pointers`, `usage_list`; `size_context_opts`, `render_*` | operators over sizes |
| `Retrieval` | `query_with_capture` and the daemon's `Query` and `render` | composes the four; a prompt is taken through pool, gate, shape, list, render, an action each |
| `Lookup` | `laya-codex mcp`: `serve`, `call_tool`, `find`'s walk, scan, sort, parse deadline, summary | one process, a file at a time, over files that change |
| `Doctor`, `Setup` | the checks of `doctor` and `serving.rs`; `init` | `Doctor` is operators over what a machine is; `Setup` has one action per call of `init` that can fail, and extends `Doctor`, which judges each result |
| `TraceLog` | `Tracer`, `trace on/off/show/clear`, captures | a file is an inode with lines; a writer keeps one open through a rename |
| `IndexProofs`, `MoonProofs`, `SupervisorProofs`, `DaemonProofs`, `InjectionProofs`, `CommandProofs`, `RetrievalProofs`, `LoopProofs` | theorems | section 5. `IndexProofs` is about `StoreContract`, `RepoIndex` and `Chunker`, `DaemonProofs` about `Lifetime` and `Server`, `InjectionProofs` about `Injection` and `Topics`, `CommandProofs` about `Setup`, `Doctor`, `TraceLog` and `Lookup`, `RetrievalProofs` about `Retrieval`, the four modules it composes and `Inputs`, `MoonProofs` about `Executor` (with `Breaker`) and `Queries`; `LoopProofs` holds the lemmas about the operators of `Loops` that the others cite |
| `MC*` | instances for TLC | constants as model values or small functions |

`MCAlgorithms`, `MCCommands`, `MCInjection` and `MCStoreContract` put several
instances into one run. Those of the first three share no state, so a variable
`subject` says which of them a behaviour is about; `mode` of the last says which
of two sets of bounds applies.

What stands for what, where it is not one to one:

- A file content is a model value; `BodiesOf`, `TermsOf`, `IdentsOf` are the
  chunker. A chunk id (hash of path, lines, text) is the pair of path and body.
  Terms depend on content *and* body because `index_terms` also indexes the
  enclosing symbol, which the id does not contain.
- The commands of one chunk (HSET "" and DEL; HSET and SADDs) are one step and
  the chunks of a section go in any order. `delete_file` is a put without
  chunks: same pipeline, DEL/SREM at the end.
- A refused command is remembered in `refused` and makes the call fail at its
  end, as redis-rs reports the first error of a pipeline's replies.
- When a client gives a pipeline up, its remaining commands are dropped (section 6).
- In `Executor`, query and bulk operations differ in the retry of late answers
  only. `ConnectLate` covers what `probe_addr` makes of a slow server: Down, a
  wrong password, or a timeout of the connect that follows. A foreign server
  answers at once.
- In `Lifetime`, a process id is reused once no file and no stop names it; that
  a recycled pid may be another `laya-codex` process is not modelled. The marker
  of `claim_spawn` is recent or not. SIGTERM ends a daemon at once: it installs no
  handler. An acknowledgement may be late while the request is still read later
  (a daemon that is starting has it in its backlog). Daemons of older versions,
  which take no lock, are left out.
- In `Supervisor`, a password is named by the process that generated it, and
  pids are not reused. A Moon that leaves closes its port and ends in one step
  (`terminate` waits for the port alone); a probe that misses a late `AUTH` is
  `AuthLate` where the answer ends the call, and any other missed probe elsewhere.
- In `RepoIndex`, reading a file and hashing what was read are one step:
  `Compare` only decides whether `ParseFile` reads the file again.
- In `Lookup`, a file may be there and unreadable (`Garbled`, counted as skipped)
  or not be there (`Gone`, which no walk lists).
- In `Doctor`, a settings file that is JSON of another shape is what its fields
  read as (`Odd`); one that `init` refuses, such as a symlink, `doctor` reads
  through (`through`).
- In `Scoring`, the probability of a chunk for a task *is* the pair of them, so
  that a value at a wrong place shows. That the cache keeps five decimals of it
  (`{p:.5}`) is left out: the text stands for the pair. A batch is one row, and
  time passes where the code measures it: in batches and in waiting.
- In `Injection`, ranking, caps, prose rule, related lists and token budget only
  restrict which spans are listed or inlined; every choice within the limits is
  allowed. Reads of the agent that are not noted (ranged reads, an unreachable
  daemon) only add to its context and are left out.
- In `Retrieval` and what it is made of, scores are whole numbers (`RrfUnit` is
  divisible by every sum of a rank and `RrfK` that occurs), probabilities are
  whole numbers that any chunk may get, and text is its number of lines.
- In `Chunker` and `Symbols`, the syntax tree is given: which node of a language
  is a comment, a definition or a reference is tree-sitter's and the tables'.

Each operator marked "faulty variant" in its comment is a plausible bug; with it
in place of the correct definition TLC finds the property it belongs to violated
("mutants" in `PROJECT.json`). No specification uses them.

## 3. Runs

| Run | Instance and bounds | Checks | Result |
|---|---|---|---|
| `store_contract` | alone: 1 path, 1 client, 2 contents sharing a chunk, 2 terms, 2 identifiers, 1 resend, df within +/-2; side by side: 2 paths, 2 clients, the same contents, no faults but failed reads | `SettledComplete`, `SettledExact`, `DfExact`, refinement of `FileIndex` | holds, 1.1M states |
| `repo_index` | 1 path, contents full / empty / unparsable, 2 edits, 1 fault, 1 handler and the job, fairness | `UnracedInSync`, `UnracedComplete`, `QuietIndexSyncs`, `IndexEnds` | holds, 670,000 states |
| `executor` | 2 callers, 2 slots, threshold 2, cooldown 2, skew 1, 2 retries, 2 faults, fairness | `BurnsOneRetry`, `ProbesSpaced`, `Recovers` | holds, 1.3M states |
| `supervisor` | 2 processes, one of which may stop Moon, 2 Moons, 1 fault, fairness | `OnePassword`, `ReadyIsOurs`, `PidfileNamesMoon`, `StopStops`, `CallsEnd` | holds, 210,000 states |
| `lifetime` | 3 daemon processes, 2 stops, a hook that keeps calling, 1 fault, fairness | `OwnsFiles`, `StopEndsIt`, `ComesBack` | holds, 970,000 states |
| `serving` | 2 clients, 1 slot, 2 workers, 2 tasks that share a candidate, batches that take 1 or more of a budget of 3, 1 fault, fairness | `SlotsExact`, `CacheTruthful`, `ResultsOwn`, `Answered` | holds, 490,000 states |
| `injection` | 2 files, 3 spans (2 overlap), 2 request threads, 2 prompts, 1 edit, 1 mishap, MaxSent 1; and 2 sessions in a table of 1, 6 prompts, 4 results, 3 queries by 2 threads, working set of 2 | `ProvidedReachesContext`, `NothingInlinedTwice`; `FollowsTopic`, `WorkingBest` | holds, 1.5M states |
| `algorithms` | files of 6 rows, chunks of 2 to 4 rows, trees of up to 3 levels, `MAX_DEPTH` 2; queries of up to 5 words with unknown, affordable and dear terms, a cost that saturates at 15; 5 token budgets from the smallest that is loaded, up to 4 options of every length and 3 inputs; trees of every kind of node at 3 levels | `ChunksSound`, `PlanBest`, `InputsSound`, `SymbolsRight` | holds, 250,000 states |
| `retrieval` | 5 chunks in 3 files, every probability, 2 prompts of a session, a vanished chunk, a changed file | `RespectsBoth`, `UsesClaimTrue`, `WithinCap` | holds, 67,000 states |
| `lookup` | 6 files of every kind, 3 of them code, 2 directories, 1 edit, 1 walk error, a deadline anywhere | `CompleteTrue`, `CountedNeverFits` | holds, 220,000 states |
| `commands` | `init` twice over every kind of settings file, 2 faults, 1 edit, machines that differ from a working one in one respect or two; a trace of 2 writers, 3 lines, a rotation at every line, 1 command | `NothingLost`, `AllOrNothing`, `ExitZeroServable`; `WriterOrder` | holds, 550,000 states |
| `overlap` | as `repo_index`, no faults | `FaultlessComplete` | **violated** |

Why the bounds suffice. Store: two contents that share one chunk give every
relation a chunk can have to a write (added, removed, kept, kept with a shared
name or term); one resend makes every command run twice; the theorems of section
5 remove the bounds for all of this, except that a frequency must have room to
count every chunk. A frequency moves by at most 2
in one attempt of a write; where `DfExact` speaks no HINCRBY was replayed, so the
sums stay within the bound and saturation does not hide an error there.
Repo: failures, overlaps and the job's decisions concern one path at a time, and
interference across paths is what the second mode of `store_contract` is for; two
edits give "change and change back" and "change during the job and again".
Executor: two faults give crash + late answer, crash + panic, two crashes; two
slots make a stale connection that survives another's failure; with 2 retries a
call could burn two. Supervisor: two processes race for the password, for the
port and for the pidfile; a third Moon would only repeat what the second does to
the first. Lifetime: three daemon processes give one that serves or exits and two
that race; the two stops overlap each other and the starts; one fault is a kill,
a failed start or a late acknowledgement. Serving: one slot makes the second
client wait or be refused; two workers are an abandoned one and the one of the
next query; the shared candidate makes cached and missing positions mix; a
budget of three batches stops anywhere. Injection: `MaxSent` 1 makes the list
overflow at the second span; two threads make prompts overlap; a table of one
session makes every second session evict. Algorithms: every relation of two
neighbours (apart, adjacent, sharing a row) at every size around the limits.
Retrieval: more chunks than any limit lets through, at least two per file for the
cap per file, a test, a prose file. Lookup: a file for each kind, and code in three files, so that two of
them use up the cap and the third, which has code too, is only counted; cuts at
every point. Commands: rotation needs two writers; an edit at every point of
`init`, one failed call and then one of its rollback, or a failed call in each
of two runs.

Fairness. `RepoFairness`: threads the daemon started run on (store steps, store
errors that are due, handlers, the job); edits, new index jobs and faults are
never forced. `Executor!Fairness`: time passes, a call in progress goes on, and
calls keep coming (`Recovers` needs a caller: without calls nothing ever probes).
Nothing forces Moon to restart; `Recovers` assumes it stays up from some time on.
`Lifetime!Fairness`: processes run on, time passes, hooks keep calling; kills,
failed starts and stops are never forced, and their bounds make them end, so
`ComesBack` speaks of what follows. `Supervisor!FairSpec`: a process that is not
killed goes on with its call, and the deadline of the wait loop passes (strongly
fair, since each probe of the loop is a step between two looks at the clock);
nothing is assumed of the Moons, one may never answer or ignore SIGTERM.
`Server!FairSpec`: the connection threads, whose waits all have a time limit, go
on; nothing is assumed of clients, store or model, so `Answered` also holds with a
model that hangs.

`CHECK_DEADLOCK` is off where a system may come to rest: `lifetime` (a daemon
serves and nobody stops or kills it any more), and the runs of algorithms and
commands that end (`algorithms`, `retrieval`, `commands`).

## 4. Where code and comments disagree

`overlap` is checked: `store.rs:28` says same-path writes "must be serialized by
the caller"; the daemon's `ReindexFile` and `IndexRepo` are not, and without any
failure the interleaved pipelines leave a file record some of whose chunks were
deleted.

The properties of the other runs are stated so that they hold. These are the
exceptions written into them, each met as a counterexample of the form without
it:

- `store.rs:331`, "content-addressed ids make unchanged chunks cancel out": they
  do not when the enclosing symbol changes. The method chunk of a renamed class
  keeps its id and is indexed under the new name, df is not touched. After a later
  edit drops the chunk, df of the new name is lower than the number of chunks
  indexed under it and can reach 0; `select_terms` drops the term and search does
  not find what is there. (`DfExact` has `NothingRenamed` as its condition.)
- `store.rs:405`, "if anything above fails, the stale hash makes the indexer
  retry": not if the file has the old content again. The failed put removed chunks
  of the old content, its hash still matches. (`UnracedComplete` speaks of writes
  that returned Ok.)
- `breaker.rs:25,55`, "exactly one probe": a slow bulk probe (up to three attempts
  of 5 s) outlives the 10 s cooldown and is joined by another. What holds, and is
  proved, is the distance in time (`ProbesSpaced`).
- `sizing.rs:275`, "Already provided earlier in this session": sent spans and read
  files are remembered without a version, so code changed since then is withheld.
  (`ProvidedReachesContext` is about spans in any version.)
- `client.rs:163`, a stop removes pidfile and socket "unless a daemon holds the
  lock (it owns them)": it looks once and removes later. A daemon that took the
  lock in between loses them; if it loses the socket it serves unreachably and its
  lock keeps every other daemon from starting. (`OwnsFiles`, `StopEndsIt` and
  `ComesBack` name this exception.)
- `supervisor.rs:244-250`: the loser of a spawn race may see the winner's Moon
  answer before its own child has exited, and then writes its own child's pid; two
  writers also share `moon.pid.tmp`, so that one renames what the other wrote.
  (`PidfileNamesMoon` holds for calls that did not overlap.)
- `supervisor.rs:281-305`: `stop` prefers its own child to the pidfile. If that
  child has died and another process's Moon serves, it signals nobody that is
  there; and when the probe before the signals times out on a slow Moon, the
  signals are skipped and the wait for the child is not. (`StopStops`, `CallsEnd`
  name both.)
- `model.rs:242`: a forward pass that panics poisons `run_lock`; every later
  query is answered lexically until the daemon restarts. Answered it is
  (`Answered`).
- `laya-model/src/config.rs:226` admits `head_max_len + 3 = max_len`; then an input with a full
  head and any state loses its closing separator. (`InputsSound` asks for one
  token more.)
- `trace.rs:106`: two processes that find the trace full both rename it; the
  second renames the new, short file over the rotated one and its entries are
  gone. (`WriterOrder` is about the order of what is left.)
- `init.rs`: both files are planned before either is written; a change that an
  editor makes in between is overwritten. The backup is of the planned text. (`NothingLost`
  excepts that edit.)
- `init.rs:504-519`: the rollback loses settings when a second call fails. A file
  that could not be read just before (`fs::read(..).ok()`) is taken for an absent
  one, and the rollback removes it; and a write of the rollback that fails is not
  heard of (`let _`). (`NothingLost` and `AllOrNothing` speak of runs in which at
  most one call failed.)

## 5. Proofs

TLAPS proves these for every value of the constants that satisfies the named
`ASSUME`s (finite sets of bodies, spans, results and matching lines, natural
bounds, `Skew` at most `Cooldown`, sentinels outside their sets; TLC evaluates
them in the runs). One theorem has a hypothesis of its own, `Roomy`, explained
below.

| Theorem | States |
|---|---|
| `IndexProofs!TypeCorrect` | `ContractSpec => []ContractTypeOK` |
| `IndexProofs!SettledPathsComplete` | `ContractSpec => []SettledComplete` |
| `IndexProofs!SettledPathsExact` | `ContractSpec => []SettledExact` |
| `IndexProofs!FrequenciesExact` | `Roomy` implies `ContractSpec => []DfExact` |
| `IndexProofs!PipelinesImplementMap` | `ContractSpec => ImplementsFileIndex` |
| `IndexProofs!RepoTypeCorrect` | types of `RepoIndex` and of the store under it |
| `IndexProofs!RecordsFollowEdits` | `RepoSpec => []UnracedInSync` |
| `IndexProofs!NoOverlapNoLoss` | `RepoSpec => []UnracedComplete` |
| `IndexProofs!QuietIndexRepairs` | `RepoSpec => QuietIndexSyncs` |
| `IndexProofs!ChunksAreSound` | `ChunkerSpec => []ChunksSound` |
| `MoonProofs!TypeCorrect` | `Spec => []ExecutorTypeOK` |
| `MoonProofs!RestartCostsOneAttempt` | `Spec => []BurnsOneRetry` |
| `MoonProofs!ProbesKeepDistance` | `Spec => ProbesSpaced` |
| `MoonProofs!BestPlan` | `QueriesSpec => []PlanBest` |
| `DaemonProofs!LifetimeTypeCorrect` | `LifetimeSpec => []LifetimeTypeOK` |
| `DaemonProofs!ServersOwnFiles` | `LifetimeSpec => []OwnsFiles` |
| `DaemonProofs!StopsEndDaemons` | `LifetimeSpec => []StopEndsIt` |
| `DaemonProofs!TypeCorrect` | types of `Server` and `Scoring` |
| `DaemonProofs!SlotsCounted` | `Spec => []SlotsExact` |
| `DaemonProofs!OneWorkerInModel` | at most one worker is in the model, and `busy` names it |
| `DaemonProofs!CacheHoldsTruth` | `Spec => []CacheTruthful` |
| `DaemonProofs!QueriesGetTheirOwn` | `Spec => []ResultsOwn` |
| `SupervisorProofs!TypeCorrect` | types of `Supervisor` |
| `SupervisorProofs!HomeHasOnePassword` | `Spec => []OnePassword` |
| `SupervisorProofs!CallsSettleForOurs` | `Spec => []ReadyIsOurs` |
| `SupervisorProofs!PidfileFindsMoon` | `Spec => []PidfileNamesMoon` |
| `SupervisorProofs!StopHasStopped` | `Spec => []StopStops` |
| `InjectionProofs!TypeCorrect` | `Spec => []InjectionTypeOK` |
| `InjectionProofs!ProvidedIsProvided` | `Spec => []ProvidedReachesContext` |
| `InjectionProofs!InlinedOnce` | `Spec => NothingInlinedTwice` |
| `InjectionProofs!FollowUpsFollow` | `TopicsSpec => []FollowsTopic` |
| `InjectionProofs!WorkingSetIsBest` | `TopicsSpec => []WorkingBest` |
| `RetrievalProofs!ModelOverrulesNobody` | `Spec => []RespectsBoth` |
| `RetrievalProofs!AllShownIsTrue` | `Spec => []UsesClaimTrue` |
| `RetrievalProofs!InjectionWithinCap` | `Spec => []WithinCap` |
| `RetrievalProofs!InputsAreSound` | `InputsSpec => []InputsSound` |
| `CommandProofs!CompleteAnswers` | `LookupSpec => []CompleteTrue` |
| `CommandProofs!OnlyWhatFits` | `LookupSpec => []CountedNeverFits` |
| `CommandProofs!InitAllOrNothing` | `SetupSpec => []AllOrNothing` |
| `CommandProofs!InitLosesNothing` | `SetupSpec => []NothingLost` |
| `CommandProofs!DoctorIsRight` | `SetupSpec => []ExitZeroServable` |
| `CommandProofs!TraceInOrder` | `LogSpec => []WriterOrder` |

*Store.* `SettledComplete` and `SettledExact` say nothing about a path while it
is written, so they are not inductive. `Inv` adds: torn paths are scarred; a path
has one writer (the contract); a path at rest is as the two properties say
(`AtRest`); and, for a write under way (`Underway`), per stage of its pipeline,
what is already *written* (chunks and names of the new content inserted so far),
*cleared* (removed chunks and old names gone, unless a command was refused) and
that nothing else is stored (*confined* to old and new content, on paths never
scarred). The proof has a lemma per action; `LocalStep` reduces each to the path
and the client it concerns, so two clients never have to be considered together.
A resend is one lemma: going back to "drop" weakens what is claimed.

*Document frequencies.* `DfExact` speaks of moments without writes; between them
each term's frequency changes at its own moment in `count`. `Ledger` says what it
is meanwhile: the number of chunks under the term in the contents it *stands for*,
which is the old content of a path before its HINCRBY and the new one after
(`Booked`, `Agrees`, `Exactly`). A pipeline's increments are what its two contents
differ by (`Balanced`, which is where `NothingRenamed` is needed), and a chunk
without a hash is indexed under nothing (`Unindexed`). A write whose HINCRBY was
refused may be off; it is `Doomed` to be sent again or given up, and then
frequencies are skewed and nothing is claimed. `Roomy`: the model's counters
saturate at `DfBound`; where it is at least the number of chunks there can be,
saturation never bites. Moon's counters have 64 bits.

*Chunks.* `ChunksSound` speaks of the end; `ChunkInv` says what each pass hands on.
During the walk (`Walking`) the segments given out, what the calls under way are
filling and the units they have still to take lie one after another, from the
innermost call to the outermost, and every segment has at most `MaxLines` rows:
a header or comments that are carried into a piece end where it begins, and a
call's units begin after the rows of earlier siblings. Rows may be missing and
trimming leaves gaps, but what is left ends on rows that are not blank (`Apart`),
and `Cover` adds only runs of rows that nobody has. Windows of a file without a
tree have all rows read so far (`ReadSoFar`). While undersized segments merge
(`Merging`), those already passed stay alone: a neighbour only grows, so what did
not fit with it never will. No induction over the tree is needed, since the
stack of calls is part of the state. What `ChunkerAssumption` asks of a tree is
that no node ends after its parent. The code takes the last row off a node that
ends at column 0 (`defs.rs:247`), so that a child of no width at that very point
lies a row below its parent; the trees considered have no such child, and about
one that has, nothing is claimed.

*Indexer.* Every write that no other write can have interfered with (`Trusted`)
has, unless refused, written what its stage says (`WritesSound`); overlaps are
noted where they happen (`OverlapsNoted`), so a path at rest that was never raced
is complete (`RestComplete`). `InSync` follows a path on which every request was
served: what the index has of it, what a write of it is to put there, and what
the job read of it, is what is on disk. `AloneOk` says how far a job that runs
alone has come, phase by phase; at its end that is `QuietIndexSyncs`. The lemmas
about the pipeline are those of the store's proofs, of which this needs the local
part, without the contract.

*Refinement.* A write whose pipeline was sent maps to `Nothing` (no content to
rely on), the rest to the record. `Begin` maps to `Start`; `ReadTerms` (the moment
the pipeline goes out) and each command to `Change`, `Reply` to `Finish`, `FailRead`
to `FailUnchanged`, `GiveUp` to `FailHalfWay`, all else stutters. That `Finish` is
enabled at `Reply` is what the invariant is for.

*Executor.* `BurnsOneRetry` rests on four facts: slots are held exclusively;
once a failure after a restart has bumped the generation, whatever is fresh in
the pool is alive; a call begun while the server is up ("steady") has lost at
most one attempt; and if it lost one, the generation was bumped and the connection
it now uses is alive. `ProbesSpaced` rests on `Spacing`: while the breaker is not
closed, the ticks to the next probe and those since the last one add up to at
least the cooldown less the skew.

*Lifetime.* The lock is held by exactly the daemon that believes so (`Locks`); a
stop that is past its look at the lock meets only daemons that took the lock after
it (`LateComers`); hence the other daemons keep their pidfile from the moment they
wrote it and their socket from the bind on (`Files`). `Asked` follows a stop through
its stages: the daemon it was asked to end is ending, or is the one it will
signal, which is where it needs that the pidfile names it.

*Server and scoring.* `SlotsExact` counts: taking and dropping a slot changes the
number of live connection threads by one, a fact about cardinalities.
`ScoringInv` follows a worker's call: what it found so far is right at the
positions it found it for (`WorkersOk`), its misses are the other positions in
order, its model results are right for as many of them as there are; the waiting
query and its worker agree on the task (`Queries`, `Waits`), so a result that is
sent to who waits is the right one (`Results`); the flag names the one worker in
the model (`OneInModel`), also when a batch fails or panics (`BreaksKeeps`).
`CacheTruthful` and `ResultsOwn` then follow wherever a
call stops.

*Supervisor.* Whoever is past the creation of the ACL file has the password in
it, because the link either creates the file or fails and the file is read; hence
so has every Moon that was started (`OnePassword`). What a probe saw is remembered
with its password, and a call ends well only after it saw the right one
(`ReadyIsOurs`). `PidfileNamesMoon` and `StopStops` except calls that overlapped
and probes that were missed; `CalmInv` is what holds without these: one call at
a time; the Moon it raises is the only one that lives, and has the port once it
was seen (`Raised`); what a stop or a replacement aims at is what has the port,
and it goes on only when the port is free (`Aimed`); and when nobody is raising
one, the only Moon is the one with the port, and the pidfile, if there is one,
names it, unless it is a stranger's (`Settled`).

*Injection.* `MarkSent` says what `mark_sent` does to the list: no span twice,
within the bound, and nothing forgotten when the new spans fit. Behind
`ProvidedReachesContext`, `Serving`: only a finished reply carries code, and
without mishaps every prompt in progress still has its hook. Behind
`NothingInlinedTwice`, `Remembers`: as long as no more spans were inlined than
`MAX_SENT`, the list holds every one of them; the step from one prompt to the next
compares the list's length with the number of its spans.

*Topics.* `AskOK` follows a prompt through its three critical sections: what was
judged a follow-up belongs to a session that still has a topic, unless that was
evicted meanwhile, so it is retrieved as the topic and starts none. For
`WorkingBest`, `KnownOK`: the working set is a best choice among the best scores
of all spans recorded since the session is in the table. That it survives
`record_query` is `BestMerges`: the best of what was kept and the new results are
the best of everything, although what did not fit was forgotten.

*Retrieval.* Each property is about what one action computes, so `RetrievalInv`
says what the stages hand on, and the work is in the lemmas about the operators.
`RankedInv`: the candidates and the ranking have each chunk once. For
`RespectsBoth`, a chunk that is ahead in the lexical order and not less probable
has a place in both orders that is not behind (`AheadInBoth`, by inclusion of the
sets that are counted), so with either fusion its score is not lower
(`ScoreRespects`; for the reciprocal ranks because `Points` does not grow, which is
about integer division), a tie is broken by the lexical order, and the threshold
leaves out elements without moving the others (`KeptIs`). For `UsesClaimTrue`,
`UsageSound`: if a line of the list says that its name has no other uses, each
chunk that has the name has its line in the list, under the name or *before* that
line under another name. It holds of the list after each name (`MoreUsages`),
because a chunk is skipped only if a name before has its line, and because
nothing was cut off by the limits of the lookups. The cap cuts the list at an
index, and lines that are visible in a span are left out: the line that carries
the claim is then still shown only if all those of its name are, and those before
it are shown as it is (`ClaimsHold`). For `WithinCap`, the blocks inlined leave
`Spare` (`InlinedIs`, by `TakenKeeps`), the locations leave room because sizing
bounds their number (`SizedIs`) and moving those of changed files keeps the sum
(`OnlyCurrentIs`), and each list takes at most what is left (`FitIs`).

What these theorems assume of the constants: no two chunks of a file start on the
same line (`CorpusAssumption`; true of one version of a file, by `ChunksSound`,
and so of paths whose last write did not fail); each list of the store has a chunk
once; the room kept behind the code is not zero (it is 400); and header, footer
and as many locations as the caps allow fit under the cap. The last one is not
checked by the code: `append_ranked_locations` adds a line per location without
comparing with `MAX_INJECT_CHARS`. With `DEFAULT_CAPS` they fit unless paths are
hundreds of characters long.

*Queries.* `PlanBest` compares the plan with every other set of known terms.
What the loop adds up saturates at each step; that is the sum saturated once
(`SaturatedSum`, `RunningIs`), and because the budget is below `u64::MAX` it
compares with the budget as the true sum does. The squares of the frequencies rise
along `Rarest` (`CostsRise`), so the first `k` of them weigh least of all sets of
`k` terms: a set of `k` has a member that is not before place `k`, and
without it weighs no less than the first `k - 1` (`FirstAreLightest`). The
loop stops at the first term that does not fit, and sums of squares never fall
(`SumsGrow`).

*Model inputs.* `BuiltIs` follows one input through its three budgets and needs
`OptionsFit`: options that are cut to the size `Shrunk` gives them, which divides
what is left among them, fit the head; a mark then lies before the end of the
input for every option. A question that fails is remembered with its options, and
those then do not fit. `InputsInv` says that every input built is whole, and
`WellPlanned` of the batches that each is in rows and tokens what
`MaxRows` and `MaxTokens` say, that each was ended because the next input
did not fit, and that no input is in two; the loop over the inputs, in either
order, keeps it row by row (`RowPlanned`, `BatchedIs`).

*Lookup.* From the walk on, as long as the answer could still claim to be
complete and no file changed (`Claimable`), each file that the claim is about is
either still to be read, or was read and has none of the names, or is among the
hits with all its lines (`Scanning`); the same, of what is still to be shown, in
the loop that shows (`Showing`); and a claim is made only if what is shown of
each listed file is all of it. The sorts on the way must lose nothing: `At` (the
elements at a set of indices, in order) and `SortedHits` are proved to keep every
element from one fact, that in a finite total order every place is taken
(`PlacesTaken`), which needs that `sort_hits` compares as a total order
(`HitsOrdered`). `CountedNeverFits` compares two sums: the room that `lookup`
counts down while it reads files, and the text that `match_body` counts up when
it renders them. `Counting` keeps the first exact until the room is used up: room
and uses make up the cap, and a file is only counted if those before it use all
of it. Somewhere the sum crosses the cap (`Crossing`); the file at which it does
is rendered, and its last line no longer fits (`LastIsCut`), because prose uses no
room exactly when it is not rendered (`RenderedIsUsed`). That a file is not read
twice (`OnceRanked`) is what `ranked_paths` and the walk guarantee.

*init and doctor.* `SetupInv`: until the first write both files are as planned,
at the second the other one still is (so that a run that ended well has left both
as planned, which `PlannedContent` says of the content); and the rollback knows the first one's
original, unless a call failed already. `SavedInv` adds that what a file held is
in it or in its backup (`Kept`), that plans replace only what does not parse, and
that the backup is made before the write. That merging itself loses nothing is
`MergeKeeps`: what is left of the groups without laya-codex's handlers, taken from
the groups that were kept (`AtOfAt`: taking in two steps is taking at once), is
what was left of all of them. It needs that a file that parses has the form of a
settings file (`Json`, and `TextInv` for what is planned and rolled back).
`ExitZeroServable` has no induction: it goes through the checks of `doctor`.

*Traces.* A writer's lines are numbered in the order of the inodes it wrote to,
and within each (`Numbered`), because a writer that has an inode open has not
written to a later one (`Opened`); the file is the last inode made and never the
rotated one (`Names`). A reader that has the rotated file has the beginning of an
inode that is not the file (`Reading`), so what it reads then is later.

*Loops.* What a loop over data computes is a recursive function of its index
(`PartSums`), so that its proof needs induction. The library's induction theorem
takes a predicate as an operator, which the provers cannot instantiate;
`LoopInduction` takes the set of the indices for which the claim holds, and is
itself proved from the fact that a finite set of numbers that is not empty has a
least member.  `LoopRuns` gives the existence of the function that such a
definition chooses, `Sums` the recursion of `PartSums`, `TakenKeeps` the invariant of a
loop that takes or leaves each index by what it took before.

Model-checked only: liveness (`IndexEnds`, `Recovers`, `ComesBack`, `CallsEnd`,
`Answered`; the prover does not handle ENABLED);
`SymbolsRight`, which compares a walk over a tree with what a recursive reading of
the tree says, so that its proof needs induction over trees.

## 6. Not modelled

- **Pipelines that run on in the server after their client gave up**
  (`conn.rs:204`). Moon may still hold the commands of a connection whose client
  timed out. Following them would need, per connection, the queue of what Moon has
  not run, which multiplies the states of `FileStore` beyond what can be
  enumerated and falsifies every property of a path that was once timed out.
- **Model inference** (`nn.rs`, `encoder.rs`, `head.rs`, `metal_ops.rs`): floating
  point arithmetic.
- **Language tables, tree-sitter queries, word extraction** (`lang.rs`, parts of
  `defs.rs`, `refs.rs`, `signals.rs`): matching of text; what they find is given
  to the models by constants.
- **Command line and configuration** (`main.rs`, `config.rs` except what the
  modules use): parsing and printing, without state.
- **What hooks and MCP print**: JSON and wording. Sizes, claims and order are
  modelled, words are not.
- **Recycled pids** (`sys.rs`, `supervisor.rs`): a pid that names a later process of
  the same name.
- **Daemons of versions without the lock**, and Moons of versions without a
  password beyond being refused or replaced.
- Fine-tuning, benchmarks, packaging, vendored code.

## 7. Running

```
tlc -workers 2 -config MCStoreContract.cfg MCStoreContract
tlapm IndexProofs.tla
```
