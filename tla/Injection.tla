------------------------------ MODULE Injection ------------------------------
(***************************************************************************)
(* What the daemon believes to be in the agent's context, and what is      *)
(* (crates/laya-cli/src/session.rs, daemon.rs, hook.rs; the sizing is      *)
(* crates/laya-rank/src/sizing.rs).                                        *)
(*                                                                         *)
(* A UserPromptSubmit hook sends its prompt to the daemon, which ranks     *)
(* spans, inlines the code of the best ones that the session does not      *)
(* have yet, records those as sent, and replies; the hook prints the reply *)
(* into the context.  Hooks are processes with a time limit, each served   *)
(* by a thread of its own: prompts overlap, a hook may be gone when its    *)
(* reply is ready, files change at any moment.                             *)
(*                                                                         *)
(* A span is a range of lines of a file, whatever code stands there; the   *)
(* content of a file is a version number.  A block is the code of a span   *)
(* in a version.  There is one session; the others only matter because     *)
(* they may push it out of the table.  Ranking, caps and the token budget  *)
(* choose among the spans: any choice they can make is allowed.  The       *)
(* session's ranking memory (last result, working set, topic) shapes only  *)
(* those choices and is not kept.                                          *)
(***************************************************************************)
EXTENDS Integers, Sequences, FiniteSets, SequencesExt

CONSTANTS
  Path, Span,
  PathOf,       \* [Span -> Path]
  Overlap,      \* pairs of spans of one file that share a line
  Request,      \* connection threads that serve the session's prompts
  FullSpans,    \* SizingCaps::full_spans
  MaxSent,      \* MAX_SENT
  MaxEdits,     \* bound of the model: [Path -> Nat], edits of each file
  MaxPrompts,   \* bound of the model: prompts
  MaxMishaps    \* bound of the model: lost replies, lost resets, failed reads

ASSUME InjectionAssumption ==
  /\ IsFiniteSet(Span) /\ PathOf \in [Span -> Path]
  /\ Overlap \subseteq Span \X Span
  /\ \A s \in Span : <<s, s>> \in Overlap
  /\ \A o \in Overlap :
       PathOf[o[1]] = PathOf[o[2]] /\ <<o[2], o[1]>> \in Overlap
  /\ MaxEdits \in [Path -> Nat]
  /\ {FullSpans, MaxSent, MaxPrompts, MaxMishaps} \subseteq Nat

VARIABLES
  disk, indexed,  \* versions of each file on disk and in the index
  sent,           \* Session::sent
  fullReads,      \* Session::full_reads
  req,            \* req[r]: the prompt thread r serves
  context,        \* the blocks in the agent's context
  reading,        \* files whose Read was noted and is still to run
  compacted,      \* the context was compacted, its hook has not run yet
  prompts,        \* prompts so far
  mishaps,        \* replies, resets and reads that failed so far
  inlinedOnce     \* spans inlined since the session last forgot them (history)

files == <<disk, indexed>>
session == <<sent, fullReads>>
agent == <<context, reading, compacted>>
vars == <<files, session, req, agent, prompts, mishaps, inlinedOnce>>

Version == UNION {0..MaxEdits[p] : p \in Path}
Block == Span \X Version
SpansOf(p) == {s \in Span : PathOf[s] = p}
DiskBlocks(S) == {<<s, disk[PathOf[s]]>> : s \in S}

\* waiting: the hook is still there; full: the blocks inlined; listed: the
\* spans reported as already provided.
NoRequest == [phase |-> "idle", waiting |-> FALSE, full |-> {}, listed |-> {}]

Init ==
  /\ disk = [p \in Path |-> 0] /\ indexed = disk
  /\ sent = <<>> /\ fullReads = {}
  /\ req = [r \in Request |-> NoRequest]
  /\ context = {} /\ reading = {} /\ compacted = FALSE
  /\ prompts = 0 /\ mishaps = 0
  /\ inlinedOnce = {}

-----------------------------------------------------------------------------
\* The user or another program changes a file; the index follows later.
Edit(p) ==
  /\ disk[p] < MaxEdits[p]
  /\ disk' = [disk EXCEPT ![p] = @ + 1]
  /\ UNCHANGED <<indexed, session, req, agent, prompts, mishaps, inlinedOnce>>

Reindex(p) ==
  /\ indexed[p] # disk[p]
  /\ indexed' = [indexed EXCEPT ![p] = disk[p]]
  /\ UNCHANGED <<disk, session, req, agent, prompts, mishaps, inlinedOnce>>

-----------------------------------------------------------------------------
\* user_prompt: the hook sends Query.
Prompt(r) ==
  /\ req[r].phase = "idle" /\ ~compacted /\ prompts < MaxPrompts
  /\ prompts' = prompts + 1
  /\ req' = [req EXCEPT ![r] = [NoRequest EXCEPT !.phase = "query",
                                                 !.waiting = TRUE]]
  /\ UNCHANGED <<files, session, agent, mishaps, inlinedOnce>>

\* Faulty variant: only a span sent with the very same lines is known.
InContextExactly(s) == s \in ToSet(sent) \/ PathOf[s] \in fullReads

\* Sessions::already, as size_context_opts uses it: a span is in the context
\* if it shares a line with one sent, or its file was read as a whole.
InContext(s) ==
  \/ \E t \in ToSet(sent) : <<s, t>> \in Overlap
  \/ PathOf[s] \in fullReads

\* mark_sent: deduplicated, bounded to the newest MAX_SENT.
Appended(q, new) ==
  LET all == q \o SetToSeq(new \ ToSet(q))
  IN  SubSeq(all, Max({1, Len(all) - MaxSent + 1}), Len(all))

Current(s) == indexed[PathOf[s]] = disk[PathOf[s]]

\* Faulty variant: the spans chosen for inlining are recorded as sent, also
\* those that were demoted to a location because their file changed.
RenderMarkingDemoted(r) ==
  /\ req[r].phase = "query"
  /\ \E listed \in SUBSET {s \in Span : InContext(s)},
        chosen \in SUBSET {s \in Span : ~InContext(s)} :
       /\ Cardinality(chosen) <= FullSpans
       /\ \A s, t \in chosen : PathOf[s] = PathOf[t] => s = t
       /\ sent' = Appended(sent, chosen)
       /\ inlinedOnce' = inlinedOnce \cup {s \in chosen : Current(s)}
       /\ req' = [req EXCEPT ![r].phase = "reply", ![r].listed = listed,
                    ![r].full = DiskBlocks({s \in chosen : Current(s)})]
  /\ UNCHANGED <<files, fullReads, agent, prompts, mishaps>>

\* Daemon::render of a ranking, under one session lock: size_context_opts
\* sets aside what is in the context and picks at most FullSpans spans of
\* distinct files; keep_only_current_code demotes those whose file does not
\* match the index; the token budget may demote more; the rest is inlined and
\* marked sent.
Render(r) ==
  /\ req[r].phase = "query"
  /\ \E listed \in SUBSET {s \in Span : InContext(s)},
        inlined \in SUBSET {s \in Span : ~InContext(s)} :
       /\ Cardinality(inlined) <= FullSpans
       /\ \A s, t \in inlined : PathOf[s] = PathOf[t] => s = t
       /\ \A s \in inlined : Current(s)
       /\ sent' = Appended(sent, inlined)
       /\ inlinedOnce' = inlinedOnce \cup inlined
       /\ req' = [req EXCEPT ![r].phase = "reply", ![r].listed = listed,
                    ![r].full = DiskBlocks(inlined)]
  /\ UNCHANGED <<files, fullReads, agent, prompts, mishaps>>

\* The reply reaches the hook, which prints it, or nobody.
Deliver(r) ==
  /\ req[r].phase = "reply"
  /\ context' = IF req[r].waiting THEN context \cup req[r].full ELSE context
  /\ req' = [req EXCEPT ![r] = NoRequest]
  /\ UNCHANGED <<files, session, reading, compacted, prompts, mishaps,
                 inlinedOnce>>

\* The hook's time limit passes (or the user interrupts the prompt); the
\* daemon's thread goes on.
HookGone(r) ==
  /\ req[r].waiting /\ mishaps < MaxMishaps
  /\ req' = [req EXCEPT ![r].waiting = FALSE]
  /\ mishaps' = mishaps + 1
  /\ UNCHANGED <<files, session, agent, prompts, inlinedOnce>>

-----------------------------------------------------------------------------
\* pre_read: a Read without offset and limit is noted before it runs.
NoteRead(p) ==
  /\ p \notin reading /\ ~compacted
  /\ fullReads' = fullReads \cup {p}
  /\ reading' = reading \cup {p}
  /\ UNCHANGED <<files, sent, req, context, compacted, prompts,
                 mishaps, inlinedOnce>>

Read(p) ==
  /\ p \in reading
  /\ reading' = reading \ {p}
  /\ context' = context \cup DiskBlocks(SpansOf(p))
  /\ UNCHANGED <<files, session, req, compacted, prompts, mishaps, inlinedOnce>>

\* The Read is denied, or fails.
ReadFails(p) ==
  /\ p \in reading /\ mishaps < MaxMishaps
  /\ reading' = reading \ {p}
  /\ mishaps' = mishaps + 1
  /\ UNCHANGED <<files, session, req, context, compacted, prompts, inlinedOnce>>

-----------------------------------------------------------------------------
\* The agent compacts or clears its context, between prompts and tools.
Compact ==
  /\ ~compacted /\ reading = {} /\ context # {}
  /\ \A r \in Request : ~req[r].waiting
  /\ compacted' = TRUE /\ context' = {}
  /\ UNCHANGED <<files, session, req, reading, prompts, mishaps, inlinedOnce>>

\* session_start: reset_context; after a compaction (not a clear) the hook
\* injects the working set again, with the text it was ranked with, which
\* nothing records as sent.
Reset ==
  /\ compacted
  /\ compacted' = FALSE
  /\ sent' = <<>> /\ fullReads' = {}
  /\ \E again \in SUBSET Span, v \in Version :
       context' = context \cup {<<s, v>> : s \in {t \in again : v <= disk[PathOf[t]]}}
  /\ inlinedOnce' = {}
  /\ UNCHANGED <<files, req, reading, prompts, mishaps>>

\* The daemon is not reached: the hook fails open.
LoseReset ==
  /\ compacted /\ mishaps < MaxMishaps
  /\ compacted' = FALSE
  /\ mishaps' = mishaps + 1
  /\ UNCHANGED <<files, session, req, context, reading, prompts, inlinedOnce>>

\* The least recently touched of MAX_SESSIONS sessions gives way to another
\* one (Sessions::get), also while this one is being served; a restart of the
\* daemon between prompts looks the same.
Forget ==
  /\ sent' = <<>> /\ fullReads' = {}
  /\ inlinedOnce' = {}
  /\ UNCHANGED <<files, req, agent, prompts, mishaps>>

Next ==
  \/ \E p \in Path : Edit(p) \/ Reindex(p) \/ NoteRead(p) \/ Read(p) \/ ReadFails(p)
  \/ \E r \in Request : Prompt(r) \/ Render(r) \/ Deliver(r) \/ HookGone(r)
  \/ Compact \/ Reset \/ LoseReset \/ Forget

Spec == Init /\ [][Next]_vars

-----------------------------------------------------------------------------
InjectionTypeOK ==
  /\ disk \in [Path -> Version] /\ indexed \in [Path -> Version]
  /\ sent \in Seq(Span) /\ Len(sent) <= MaxSent
  /\ fullReads \subseteq Path /\ reading \subseteq Path
  /\ context \subseteq Block
  /\ req \in [Request -> [phase : {"idle", "query", "reply"},
                          waiting : BOOLEAN,
                          full : SUBSET Block, listed : SUBSET Span]]
  /\ compacted \in BOOLEAN
  /\ prompts \in 0..MaxPrompts /\ mishaps \in 0..MaxMishaps
  /\ inlinedOnce \subseteq Span

Has(S, s) == \E b \in S : b[1] = s

(* What the daemon counts as provided, and will not send again, has        *)
(* reached the agent's context or is on its way, as long as no reply, no   *)
(* reset and no read was lost (daemon.rs, render: what is dropped because  *)
(* "everything relevant is already in context").                           *)
ProvidedReachesContext ==
  mishaps = 0 /\ ~compacted =>
    /\ \A s \in ToSet(sent) :
         Has(context, s) \/ \E r \in Request : req[r].waiting /\ Has(req[r].full, s)
    /\ \A p \in fullReads : p \in reading \/ \A s \in SpansOf(p) : Has(context, s)

(* daemon.rs, render: "under one session lock so concurrent prompts cannot *)
(* both send the same span".  No line is inlined twice before the session  *)
(* is reset or forgotten, while MAX_SENT spans suffice to remember.        *)
NothingInlinedTwice ==
  [][\A r \in Request :
       Render(r) /\ Cardinality(inlinedOnce) <= MaxSent =>
         \A b \in req'[r].full, t \in inlinedOnce : <<b[1], t>> \notin Overlap]_vars
=============================================================================
