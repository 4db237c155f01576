------------------------------ MODULE RepoIndex ------------------------------
(***************************************************************************)
(* The daemon's two writers of the index over one working tree:            *)
(*                                                                         *)
(*   - ReindexFile, sent by the PostToolUse hook after an edit, is handled *)
(*     on the connection's thread by indexer::index_file;                  *)
(*   - IndexRepo starts indexer::index_repo on a thread of its own, one    *)
(*     per repo at a time (Daemon::indexing, IndexingSlot).                *)
(*                                                                         *)
(* (crates/laya-cli/src/indexer.rs, daemon.rs, hook.rs.)  Both call the    *)
(* store of FileStore; nothing in the daemon makes one wait for the other, *)
(* so FileStore's contract that the writes of a path are serialised is not *)
(* assumed here.  The file contents the chunker refuses (binary, minified, *)
(* not UTF-8) are the set Unparsable; a path that is missing, ignored or   *)
(* too large reads as NoFile.                                              *)
(***************************************************************************)
EXTENDS FileStore

CONSTANTS
  Handler,     \* connection threads that serve ReindexFile
  Indexer,     \* the thread that runs index_repo
  Unparsable,  \* contents parse_file rejects
  MaxEdits,    \* bound of the model: edits of the working tree
  MaxFaults    \* bound of the model: failures of the store and of requests

ASSUME ThreadAssumption ==
  /\ Client = Handler \cup {Indexer}
  /\ Indexer \notin Handler
  /\ Unparsable \subseteq Content
  /\ MaxEdits \in Nat /\ MaxFaults \in Nat

VARIABLES
  disk,     \* disk[p]: the content of p in the working tree, or NoFile
  edits,    \* edits made so far
  faults,   \* failures so far
  pending,  \* paths the agent edited and whose ReindexFile is not handled yet
  job,      \* the state of index_repo
  unseen,   \* paths edited by somebody else (no hook fires) (history)
  lost,     \* paths for which a request or a write failed (history)
  raced,    \* paths whose two writers overlapped (history)
  quiet     \* nothing but the job touched disk or store since it started

tree == <<disk, edits>>
notes == <<unseen, lost, raced, quiet>>
repoVars == <<vars, disk, edits, faults, pending, job, notes>>

Phase == {"off", "compare", "parse", "put", "delete"}

\* walk: the files the walk found; todo: the files of the phase still to be
\* done; read[p]: what chunk_files read of a changed file.
NoJob == [phase |-> "off", walk |-> {}, todo |-> {}, changed |-> {},
          read |-> [p \in Path |-> NoFile]]

\* What parse_file makes of a content: NoFile when there is nothing to index.
Parsed(v) == IF v \in Unparsable THEN NoFile ELSE v

RepoInit ==
  /\ Init
  /\ disk \in [Path -> Version]
  /\ edits = 0 /\ faults = 0
  /\ pending = {}
  /\ job = NoJob
  /\ unseen = {p \in Path : disk[p] # NoFile}
  /\ lost = {} /\ raced = {} /\ quiet = FALSE

-----------------------------------------------------------------------------
\* The agent edits, creates or deletes a file; post_edit sends ReindexFile.
AgentEdit(p, v) ==
  /\ edits < MaxEdits /\ disk[p] # v
  /\ disk' = [disk EXCEPT ![p] = v]
  /\ edits' = edits + 1
  /\ pending' = pending \cup {p}
  /\ unseen' = unseen \ {p}
  /\ quiet' = FALSE
  /\ UNCHANGED <<vars, faults, job, lost, raced>>

\* Another program does: no hook runs.
OutsideEdit(p, v) ==
  /\ edits < MaxEdits /\ disk[p] # v
  /\ disk' = [disk EXCEPT ![p] = v]
  /\ edits' = edits + 1
  /\ unseen' = unseen \cup {p}
  /\ quiet' = FALSE
  /\ UNCHANGED <<vars, faults, pending, job, lost, raced>>

\* The hook fails open: its request may never reach the daemon.
LoseRequest(p) ==
  /\ p \in pending /\ faults < MaxFaults
  /\ pending' = pending \ {p}
  /\ faults' = faults + 1
  /\ lost' = lost \cup {p}
  /\ UNCHANGED <<vars, tree, job, unseen, raced, quiet>>

\* The job acts later on what it saw of p earlier: a content it has read to
\* put, or the absence of p from the walk.
JobHolds(p) ==
  \/ job.phase \in {"parse", "put"} /\ p \in job.todo /\ job.read[p] # NoFile
  \/ job.phase # "off" /\ p \notin job.walk

\* Faulty variant: a file that no longer parses keeps its record.
ReindexFileIfParsed(h, p) ==
  /\ p \in pending
  /\ IF disk[p] \in Unparsable THEN UNCHANGED vars ELSE Begin(h, p, disk[p])
  /\ pending' = pending \ {p}
  /\ raced' = IF Busy(p) \/ JobHolds(p) THEN raced \cup {p} ELSE raced
  /\ quiet' = FALSE
  /\ UNCHANGED <<tree, faults, job, unseen, lost>>

\* index_file: walk_admits and parse_file read the file, then put_file, or
\* delete_file if there is nothing to index.
ReindexFile(h, p) ==
  /\ p \in pending
  /\ Begin(h, p, Parsed(disk[p]))
  /\ pending' = pending \ {p}
  /\ raced' = IF Busy(p) \/ JobHolds(p) THEN raced \cup {p} ELSE raced
  /\ quiet' = FALSE
  /\ UNCHANGED <<tree, faults, job, unseen, lost>>

-----------------------------------------------------------------------------
\* IndexRepo while no index job runs; while one does, the request is
\* answered Ok and dropped.  ensure_index, then the walk.
StartIndex ==
  LET walk == {p \in Path : disk[p] # NoFile} IN
  /\ job.phase = "off" /\ Idle(Indexer)
  /\ job' = [NoJob EXCEPT !.phase = "compare", !.walk = walk, !.todo = walk]
  /\ quiet' = (\A h \in Handler : Idle(h))
  /\ UNCHANGED <<vars, tree, faults, pending, unseen, lost, raced>>

\* The hash of the file on disk against the recorded one: equal, unchanged.
Compare(p) ==
  /\ job.phase = "compare" /\ p \in job.todo
  /\ job' = [job EXCEPT !.todo = @ \ {p},
               !.changed = IF disk[p] # NoFile /\ disk[p] = record[p]
                             THEN @ ELSE @ \cup {p}]
  /\ UNCHANGED <<vars, tree, faults, pending, notes>>

\* chunk_files reads and parses the changed files, all before the first put.
ParseChanged ==
  /\ job.phase = "compare" /\ job.todo = {}
  /\ job' = [job EXCEPT !.phase = "parse", !.todo = job.changed, !.changed = {}]
  /\ UNCHANGED <<vars, tree, faults, pending, notes>>

\* A file that cannot be read or parsed counts as failed and is left alone.
ParseFile(p) ==
  /\ job.phase = "parse" /\ p \in job.todo /\ job.read[p] = NoFile
  /\ job' = IF Parsed(disk[p]) = NoFile
              THEN [job EXCEPT !.todo = @ \ {p}]
              ELSE [job EXCEPT !.read[p] = disk[p]]
  /\ UNCHANGED <<vars, tree, faults, pending, notes>>

PutAll ==
  /\ job.phase = "parse" /\ \A p \in job.todo : job.read[p] # NoFile
  /\ job' = [job EXCEPT !.phase = "put"]
  /\ UNCHANGED <<vars, tree, faults, pending, notes>>

\* put_file of the next parsed file; the previous put has returned Ok.
PutNext(p) ==
  /\ job.phase = "put" /\ p \in job.todo
  /\ Begin(Indexer, p, job.read[p])
  /\ job' = [job EXCEPT !.todo = @ \ {p}]
  /\ raced' = IF Busy(p) THEN raced \cup {p} ELSE raced
  /\ UNCHANGED <<tree, faults, pending, unseen, lost, quiet>>

\* Faulty variant: deleted files stay indexed.
ListNoFiles ==
  /\ job.phase = "put" /\ job.todo = {} /\ Idle(Indexer)
  /\ job' = [job EXCEPT !.phase = "delete"]
  /\ UNCHANGED <<vars, tree, faults, pending, notes>>

\* list_files: the indexed paths the walk did not find are to be deleted.
ListFiles ==
  /\ job.phase = "put" /\ job.todo = {} /\ Idle(Indexer)
  /\ job' = [job EXCEPT !.phase = "delete", !.todo = files \ job.walk]
  /\ UNCHANGED <<vars, tree, faults, pending, notes>>

DeleteNext(p) ==
  /\ job.phase = "delete" /\ p \in job.todo
  /\ Begin(Indexer, p, NoFile)
  /\ job' = [job EXCEPT !.todo = @ \ {p}]
  /\ raced' = IF Busy(p) THEN raced \cup {p} ELSE raced
  /\ UNCHANGED <<tree, faults, pending, unseen, lost, quiet>>

\* index_repo returned Ok; the IndexingSlot clears the flag.
EndIndex ==
  /\ job.phase = "delete" /\ job.todo = {} /\ Idle(Indexer)
  /\ job' = NoJob
  /\ UNCHANGED <<vars, tree, faults, pending, notes>>

\* Faulty variant: a failure leaves the repo marked as indexing.
AbortIndexMarked ==
  /\ job.phase \in {"compare", "put"} /\ Idle(Indexer) /\ faults < MaxFaults
  /\ faults' = faults + 1
  /\ job' = [NoJob EXCEPT !.phase = "failed"]
  /\ quiet' = FALSE
  /\ UNCHANGED <<vars, tree, pending, unseen, lost, raced>>

\* A read of the job (ensure_index, file_hash, list_files) failed, or the
\* job panicked: index_repo ends there and the slot clears the flag.
AbortIndex ==
  /\ job.phase \in {"compare", "put"} /\ Idle(Indexer) /\ faults < MaxFaults
  /\ faults' = faults + 1
  /\ job' = NoJob
  /\ quiet' = FALSE
  /\ UNCHANGED <<vars, tree, pending, unseen, lost, raced>>

-----------------------------------------------------------------------------
\* A store call makes progress, or meets a failure it survives.
StoreStep(c) ==
  /\ \/ Progress(c) /\ UNCHANGED faults
     \/ Refuse(c) /\ faults < MaxFaults /\ faults' = faults + 1
     \/ Resend(c) /\ faults < MaxFaults /\ faults' = faults + 1
  /\ UNCHANGED <<tree, pending, job, notes>>

\* All replies are in, and one of them is an error.
Refused(c) == op[c].stage = "reply" /\ op[c].refused

\* A store call returns an error: index_file passes it on, index_repo ends.
StoreError(c) ==
  /\ \/ FailRead(c) /\ faults < MaxFaults /\ faults' = faults + 1
     \/ GiveUp(c) /\ Refused(c) /\ UNCHANGED faults
     \/ GiveUp(c) /\ ~Refused(c) /\ faults < MaxFaults /\ faults' = faults + 1
  /\ lost' = lost \cup {op[c].path}
  /\ job' = IF c = Indexer THEN NoJob ELSE job
  /\ quiet' = IF c = Indexer THEN FALSE ELSE quiet
  /\ UNCHANGED <<tree, pending, unseen, raced>>

JobStep ==
  \/ \E p \in Path : Compare(p) \/ ParseFile(p) \/ PutNext(p) \/ DeleteNext(p)
  \/ ParseChanged \/ PutAll \/ ListFiles \/ EndIndex

RepoNext ==
  \/ \E p \in Path, v \in Version : AgentEdit(p, v) \/ OutsideEdit(p, v)
  \/ \E p \in Path : LoseRequest(p)
  \/ \E h \in Handler, p \in Path : ReindexFile(h, p)
  \/ StartIndex \/ JobStep \/ AbortIndex
  \/ \E c \in Client : StoreStep(c) \/ StoreError(c)

RepoSpec == RepoInit /\ [][RepoNext]_repoVars

\* Threads the daemon started run on; nobody has to edit, and no session has
\* to start an index.
RepoFairness ==
  /\ \A c \in Client : WF_repoVars(StoreStep(c) /\ UNCHANGED faults)
  /\ \A c \in Client : WF_repoVars(StoreError(c) /\ Refused(c))
  /\ \A p \in Path : WF_repoVars(\E h \in Handler : ReindexFile(h, p))
  /\ WF_repoVars(JobStep)

FairRepoSpec == RepoSpec /\ RepoFairness

-----------------------------------------------------------------------------

Calm == job.phase = "off" /\ \A c \in Client : Idle(c)

(* Overlap is the only thing that makes the index stale: when both writers *)
(* are at rest, a path edited only by the agent, whose requests all got    *)
(* through and whose writes never overlapped, is recorded as it is on disk.*)
UnracedInSync ==
  Calm => \A p \in Path \ (pending \cup unseen \cup lost \cup raced) :
            record[p] = Parsed(disk[p])

(* ... and the only thing, besides a failed write, that loses chunks.      *)
UnracedComplete ==
  \A p \in Path \ raced : Settled(p) =>
    \A b \in Bodies(record[p]) : StoredAs(p, b, record[p])

Indexable(p) == disk[p] # NoFile /\ disk[p] \notin Unparsable

(* index_repo that ran alone leaves the record of every indexable file at  *)
(* its content on disk and no listed path that is gone, whatever state     *)
(* races and failures before it left the index in.                         *)
QuietIndexSyncs ==
  [][EndIndex /\ quiet =>
       \A p \in Path : /\ Indexable(p) => record[p] = disk[p]
                       /\ disk[p] = NoFile => p \notin files]_repoVars

(* An index job ends, and with it the `indexing` mark that makes further   *)
(* requests no-ops, also when the store fails it.                          *)
IndexEnds == job.phase # "off" ~> job.phase = "off"

(* NOT satisfied.  store.rs, struct MoonStore: the writes of one path "must *)
(* be serialized by the caller"; the Store trait: put_file replaces "all   *)
(* chunks" of a path.  Where no store call and no request ever failed, a   *)
(* path at rest has the chunks of the content it is recorded with.         *)
FaultlessComplete == faults = 0 => SettledComplete
=============================================================================
