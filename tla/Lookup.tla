------------------------------- MODULE Lookup -------------------------------
(***************************************************************************)
(* The MCP server (crates/laya-cli/src/mcp.rs, crates/laya-rank/src/       *)
(* render.rs render_matches): one process that answers one message after   *)
(* the other.  A search for names walks and reads the files on disk, which *)
(* change meanwhile, within a deadline, and says whether its answer is     *)
(* complete; a search in words is the daemon's.                            *)
(*                                                                         *)
(* A query is a set of tokens; the matching lines of a file are given for  *)
(* each of its versions.  Text is measured in lines: a heading and a line  *)
(* count 1, a line that carries the header of its group 2.                 *)
(***************************************************************************)
EXTENDS Loops, Sequences, SequencesExt, FiniteSetsExt

CONSTANTS
  File,
  Kind,        \* [File -> {"indexed", "big", "other"}]: what walk_admits says
  Prose,       \* files that is_prose_path accepts
  Dir,         \* [directory -> the files under it]; a file is a scope too
  WalkOrder,   \* the files in the walk's order
  Matches,     \* [File -> [version -> [name -> its lines]]]
  Headed,      \* [File -> lines that a group's header precedes]
  Message,     \* the messages the client may send, see Receive
  Framing, NoNames, Shaped, \* tokens: FRAMING_WORDS, no names, code_shaped
  Rankings,    \* lists of files the daemon may answer a query with
  NoScope, Missing, Outside,  \* values of the path argument besides a scope
  Nothing,     \* no message, no reply
  Gone,        \* the version of a file that is not there
  Garbled,     \* the version of a file that cannot be read as text
  MaxIdents,   \* MAX_IDENTS
  MaxChars,    \* MATCH_MAX_CHARS
  SummaryMax,  \* MATCH_SUMMARY_MAX
  TailMax,     \* MATCH_TAIL_MAX
  FileLines,   \* MATCH_FILE_LINES
  MaxWalk,     \* MAX_WALK_FILES
  MaxChanges,  \* bound of the model: changes of files
  MaxErrors    \* bound of the model: files one walk fails to list

ASSUME LookupAssumption ==
  /\ {MaxIdents, MaxChars, SummaryMax, TailMax, FileLines, MaxWalk, MaxChanges, MaxErrors}
       \subseteq Nat
  /\ SummaryMax + TailMax \in 1..MaxChars /\ FileLines > 0
  /\ WalkOrder \in Seq(File) /\ ToSet(WalkOrder) = File /\ IsInjective(WalkOrder)
  /\ Rankings \subseteq Seq(File)
  /\ \A r \in Rankings : IsInjective(r)   \* ranked_paths names no path twice
  /\ \A f \in File : Kind[f] \in {"indexed", "big", "other"}
  /\ {NoScope, Missing, Outside} \cap File = {}
  /\ \A f \in File : {Gone, Garbled} \cap DOMAIN Matches[f] = {}

VARIABLES
  disk,    \* disk[f]: the version of f
  changes, \* changes so far
  msg,     \* the message being handled
  phase,   \* where its handling is
  late,    \* the deadline of the lookup has passed
  work,    \* what the lookup has found so far
  reply    \* the reply to msg

lookupVars == <<disk, changes, msg, phase, late, work, reply>>

\* names: those looked up; ranked: the daemon's order; todo: files to be read;
\* hits: files with matching lines, then those still to be shown; files: what
\* is shown of them; missed, edited: what the walk did not list, and whether
\* a file changed meanwhile (the code knows neither).
NoWork == [names |-> {}, ranked |-> <<>>, todo |-> <<>>, skipped |-> 0, complete |-> TRUE,
           hits |-> <<>>, files |-> <<>>, room |-> MaxChars, missed |-> {}, edited |-> FALSE]

LookupInit ==
  /\ disk \in {d \in [File -> UNION {DOMAIN Matches[f] : f \in File}] :
                 \A f \in File : d[f] \in DOMAIN Matches[f]}
  /\ changes = 0
  /\ msg = Nothing /\ phase = "idle" /\ late = FALSE
  /\ work = NoWork /\ reply = Nothing

-----------------------------------------------------------------------------
Readable(f) == disk[f] \notin {Gone, Garbled}

\* Another program changes, deletes or restores a file.
Change(f) ==
  /\ changes < MaxChanges
  /\ changes' = changes + 1
  /\ \E v \in (DOMAIN Matches[f] \cup {Gone, Garbled}) \ {disk[f]} : disk' = [disk EXCEPT ![f] = v]
  /\ work' = [work EXCEPT !.edited = phase # "idle"]
  /\ UNCHANGED <<msg, phase, late, reply>>

\* Time passes: the deadline counts from the start of the lookup.
Delay ==
  /\ phase \in {"walk", "scan", "show"} /\ ~late
  /\ late' = TRUE
  /\ UNCHANGED <<disk, changes, msg, phase, work, reply>>

-----------------------------------------------------------------------------
\* identifier_query: the names an exact lookup searches for; none if the query
\* describes code in words.
IdentifierQuery(m) ==
  LET names == IF m.listed THEN m.tokens ELSE m.tokens \ Framing IN
  IF /\ names \cap NoNames = {}
     /\ Cardinality(names) \in 1..MaxIdents
     /\ Cardinality(names) = 1 \/ m.listed \/ names \subseteq Shaped
  THEN names ELSE {}

OneFile(m) == m.scope \in File
InScope(f, m) ==
  CASE m.scope = NoScope -> TRUE
    [] OneFile(m) -> f = m.scope
    [] OTHER -> f \in Dir[m.scope]

ReplyOf(kind) == [kind |-> kind, shown |-> <<>>, files |-> <<>>, claim |-> FALSE]

\* A call looks up finitely many names, each of them on finitely many lines.
ASSUME MessageAssumption ==
  /\ \A k \in {"parse error", "method not found", "result", "error"} : ReplyOf(k) # Nothing
  /\ \A m \in {n \in Message : n.method = "call" /\ n.search} :
       /\ IsFiniteSet(m.tokens)
       /\ \A f \in File : \A v \in DOMAIN Matches[f] : \A x \in IdentifierQuery(m) :
            IsFiniteSet(Matches[f][v][x]) /\ Matches[f][v][x] \subseteq Nat

\* handle_message up to what is answered at once; a call is answered, or its
\* query ranked by the daemon, or looked up.
Receive(m) ==
  /\ phase = "idle"
  /\ msg' = m
  /\ IF m.method # "call"
       THEN reply' = ReplyOf(CASE m.method = "unparsed" -> "parse error"
                              [] m.method = "unknown" -> "method not found"
                              [] OTHER -> "result")
     ELSE IF \/ ~m.search \/ m.tokens = {} \/ m.scope \in {Missing, Outside}
             \/ OneFile(m) /\ disk[m.scope] = Gone   \* resolve_scope
       THEN reply' = ReplyOf("error")
     ELSE reply' = Nothing
  /\ phase' = IF reply' # Nothing THEN "write"
             ELSE IF IdentifierQuery(m) = {} THEN "describe"
             ELSE IF OneFile(m) THEN "walk" ELSE "rank"
  /\ late' = FALSE
  /\ work' = [NoWork EXCEPT !.names = IF phase' \in {"walk", "rank"} THEN IdentifierQuery(m) ELSE {}]
  /\ UNCHANGED <<disk, changes>>

\* ranked_paths: the daemon's order of the files, nothing if it fails.
RankedPaths ==
  /\ phase = "rank"
  /\ \E r \in Rankings \cup {<<>>} : work' = [work EXCEPT !.ranked = r]
  /\ phase' = "walk"
  /\ UNCHANGED <<disk, changes, msg, late, reply>>

\* The rest of call_tool for a description; the daemon may be down.
Describe ==
  /\ phase = "describe"
  /\ \/ reply' = ReplyOf("error")
     \/ \E r \in Rankings \cup {<<>>} :
          reply' = ReplyOf(IF \E f \in ToSet(r) : InScope(f, msg) THEN "ranking" ELSE "none")
  /\ phase' = "write"
  /\ work' = NoWork
  /\ UNCHANGED <<disk, changes, msg, late>>

-----------------------------------------------------------------------------
\* ranked_first: the ranked files in rank order, then the rest in walk order.
RankedFirst(files, ranked) ==
  At(ranked, {i \in DOMAIN ranked : ranked[i] \in ToSet(files)})
    \o At(files, {i \in DOMAIN files : files[i] \notin ToSet(ranked)})

Scanned(files, skipped, complete, missed) ==
  /\ work' = [work EXCEPT !.todo = RankedFirst(files, work.ranked), !.skipped = skipped,
                          !.complete = complete, !.missed = missed]
  /\ phase' = "scan"

\* scan for a named file: searched only if the indexer would index it; one that
\* is gone since is a directory without files to walk_scope.
WalkOneFile ==
  /\ phase = "walk" /\ OneFile(msg)
  /\ IF disk[msg.scope] = Gone
       THEN late' \in {late, TRUE} /\ Scanned(<<>>, 0, ~late', {}) /\ reply' = reply
     ELSE IF Kind[msg.scope] = "indexed"
       THEN Scanned(<<msg.scope>>, 0, TRUE, {}) /\ UNCHANGED <<late, reply>>
     ELSE reply' = ReplyOf("error") /\ phase' = "write" /\ work' = NoWork /\ UNCHANGED late
  /\ UNCHANGED <<disk, changes, msg>>

\* walk_scope.  An entry that cannot be listed is dropped (`flatten`); a file
\* after MaxWalk others, or after the deadline, ends the walk.
IndexedUpTo(entries, n) == {i \in 1..n : Kind[entries[i]] = "indexed"}
StopsAt(entries, n) ==
  /\ Cardinality(IndexedUpTo(entries, n)) <= MaxWalk
  /\ n < Len(entries) => Cardinality(IndexedUpTo(entries, n)) = MaxWalk
  /\ \A k \in 0..(n - 1) : Cardinality(IndexedUpTo(entries, k)) < MaxWalk

Entries(unlisted) ==
  At(WalkOrder, {i \in DOMAIN WalkOrder :
                   /\ InScope(WalkOrder[i], msg) /\ disk[WalkOrder[i]] # Gone
                   /\ WalkOrder[i] \notin unlisted})
WalkEnd(entries, cut) ==
  LET reached == CHOOSE n \in 0..Len(entries) : StopsAt(entries, n) IN
  IF late' THEN Min({cut, reached}) ELSE reached
WalkUpTo(unlisted, cut) ==
  LET entries == Entries(unlisted)
      end == WalkEnd(entries, cut) IN
  /\ IF late' THEN cut <= Len(entries) /\ (late => cut = 0) ELSE cut = 0
  /\ \A f \in unlisted : InScope(f, msg)
  /\ Scanned(At(entries, IndexedUpTo(entries, end)),
             Cardinality({i \in 1..end : Kind[entries[i]] = "big"}),
             end = Len(entries), unlisted)

Walk ==
  /\ phase = "walk" /\ ~OneFile(msg)
  /\ late' \in {late, TRUE}
  /\ \E unlisted \in UNION {kSubset(n, File) : n \in 0..MaxErrors},
        cut \in 0..Len(WalkOrder) : WalkUpTo(unlisted, cut)
  /\ UNCHANGED <<disk, changes, msg, reply>>

HitLines(f, names) == UNION {Matches[f][disk[f]][x] : x \in names}

\* sort_hits: ranked files first, then by match count, then by path.
PlaceIn(q, f) == CHOOSE i \in DOMAIN q : q[i] = f
SortsBefore(ranked, g, h) ==
  LET place(x) == IF x.file \in ToSet(ranked) THEN PlaceIn(ranked, x.file) ELSE Len(ranked) + 1
      count(x) == Cardinality(x.lines) IN
  \/ place(g) < place(h)
  \/ /\ place(g) = place(h)
     /\ \/ count(g) > count(h)
        \/ count(g) = count(h) /\ PlaceIn(WalkOrder, g.file) < PlaceIn(WalkOrder, h.file)
SortedHits(hits, ranked) == InOrder(ToSet(hits), LAMBDA g, h : SortsBefore(ranked, g, h))

\* One file of scan's loop, or its end; nothing found for one plain word is
\* described after all (call_tool).
ScanFile ==
  /\ phase = "scan" /\ work.todo # <<>> /\ ~late
  /\ LET f == Head(work.todo)
         rest == [work EXCEPT !.todo = Tail(@)] IN
     work' = IF ~Readable(f) THEN [rest EXCEPT !.skipped = @ + 1]
             ELSE IF HitLines(f, work.names) = {} THEN rest
             ELSE [rest EXCEPT !.hits =
                     Append(@, [file |-> f, lines |-> HitLines(f, work.names)])]
  /\ UNCHANGED <<disk, changes, msg, phase, late, reply>>

\* A mutant: the deadline ends the loop and nothing else.
ScanEndsSilently ==
  /\ phase = "scan" /\ (work.todo = <<>> \/ late)
  /\ phase' = "show"
  /\ work' = [work EXCEPT !.todo = <<>>, !.ranked = <<>>, !.hits = SortedHits(@, work.ranked)]
  /\ UNCHANGED <<disk, changes, msg, late, reply>>

ScanEnds ==
  /\ phase = "scan" /\ (work.todo = <<>> \/ late)
  /\ IF work.hits = <<>> /\ Cardinality(work.names) = 1 /\ work.names \cap Shaped = {}
       THEN phase' = "describe" /\ work' = NoWork
       ELSE /\ phase' = "show"
            /\ work' = [work EXCEPT !.complete = @ /\ work.todo = <<>>,
                                    !.todo = <<>>, !.ranked = <<>>,
                                    !.hits = SortedHits(@, work.ranked)]
  /\ UNCHANGED <<disk, changes, msg, late, reply>>

-----------------------------------------------------------------------------
\* The lines group_lines and match_body may show of a file: the first ones.
Offered(f) == {n \in f.lines : Cardinality({k \in f.lines : k <= n}) <= FileLines}

\* The size of a file's heading and of lines of it, with the headers before them.
SizeOf(f, lines) == 1 + Cardinality(lines) + Cardinality(lines \cap f.headers)
SizeTo(f, n) == SizeOf(f, {k \in Offered(f) : k <= n})
RenderedChars(f) == SizeOf(f, Offered(f))

\* What a file takes of the cap: nothing if it is prose, only counted next to
\* code.  (UsedByAll: a mutant.)
UsedByAll(f) == IF f.listing = "counted" THEN 0 ELSE RenderedChars(f)
Used(f) == IF f.listing = "counted" \/ f.file \in Prose THEN 0 ELSE RenderedChars(f)

\* One file of lookup's loop: it is read again, as it now is, and parsed if
\* that fits the clock; once the cap is full it is only counted.
ShowFile ==
  /\ phase = "show" /\ work.hits # <<>>
  /\ \E listing \in IF work.room = 0 THEN {"counted"} ELSE IF late THEN {"flat"}
                     ELSE {"flat", "grouped"} :
       LET h == Head(work.hits)
           f == [file |-> h.file, lines |-> h.lines, listing |-> listing,
                 headers |-> IF listing = "grouped" /\ Readable(h.file)
                               THEN Headed[h.file] \cap h.lines ELSE {}] IN
       work' = [work EXCEPT !.hits = Tail(@), !.files = Append(@, f),
                            !.room = IF Used(f) > @ THEN 0 ELSE @ - Used(f)]
  /\ UNCHANGED <<disk, changes, msg, phase, late, reply>>

\* match_body: how many lines of each file fit, one file after the other.
Listed(files, i) ==
  files[i].file \notin Prose \/ \A j \in DOMAIN files : files[j].file \in Prose
MatchBody(files) ==
  LET rendered(i) == Listed(files, i) /\ files[i].listing # "counted"
      upTo == PartSums([i \in DOMAIN files |->
                         IF rendered(i) THEN RenderedChars(files[i]) ELSE 0]) IN
  [i \in DOMAIN files |->
     IF ~rendered(i) THEN 0
     ELSE Cardinality({n \in Offered(files[i]) :
            upTo[i - 1] + SizeTo(files[i], n) <= MaxChars - SummaryMax - TailMax})]

\* match_summary: what "complete" is said of.
Complete(files, shown) ==
  /\ \A i \in DOMAIN files : Listed(files, i) => shown[i] = Cardinality(files[i].lines)
  /\ work.complete /\ work.skipped = 0
  /\ ~\E i \in DOMAIN files : shown[i] > 0 /\ files[i].listing = "flat"

\* render_matches.  Without a hit the answer is that there is no match; it has
\* notes on what was not covered.
RenderMatches ==
  /\ phase = "show" /\ work.hits = <<>>
  /\ LET shown == MatchBody(work.files) IN
     reply' = [kind |-> "matches", shown |-> shown, files |-> work.files,
               claim |-> IF work.files = <<>> THEN work.complete /\ work.skipped = 0
                         ELSE Complete(work.files, shown)]
  /\ phase' = "write"
  /\ UNCHANGED <<disk, changes, msg, late, work>>

\* serve writes the reply: none to a message without an id.
Write ==
  /\ phase = "write"
  /\ msg' = Nothing /\ phase' = "idle" /\ late' = FALSE
  /\ work' = NoWork /\ reply' = Nothing
  /\ UNCHANGED <<disk, changes>>

-----------------------------------------------------------------------------
Handle ==
  \/ RankedPaths \/ Describe \/ WalkOneFile \/ Walk
  \/ ScanFile \/ ScanEnds \/ ShowFile \/ RenderMatches \/ Write

LookupNext == Handle \/ Delay \/ (\E m \in Message : Receive(m)) \/ (\E f \in File : Change(f))

LookupSpec == LookupInit /\ [][LookupNext]_lookupVars

-----------------------------------------------------------------------------
\* The files that a claim to be complete is about.
Claimed == {f \in File : Kind[f] # "other" /\ disk[f] # Gone /\ InScope(f, msg)}

(* render.rs: "the summary says 'complete' only when every listed line is   *)
(* shown, every file in scope was read ...", and an answer without a match  *)
(* that has no note means that there is none.  So it is, if no file changed *)
(* during the lookup and the walk listed all: every file of the scope that  *)
(* has the names is listed with all its lines, or is prose next to code.    *)
(* Over the deadlines and caps of four loops.                               *)
CompleteTrue ==
  phase = "write" /\ reply.kind = "matches" /\ reply.claim /\ ~work.edited /\ work.missed = {} =>
    \A f \in Claimed :
      /\ Kind[f] = "indexed" /\ Readable(f)
      /\ HitLines(f, work.names) # {} =>
           \E i \in DOMAIN reply.files :
             /\ reply.files[i].file = f
             /\ \/ reply.shown[i] = Cardinality(HitLines(f, work.names))
                \/ f \in Prose /\ \E j \in DOMAIN reply.files : reply.files[j].file \notin Prose

(* mcp.rs, lookup: "once the files taken so far fill the cap ..., later     *)
(* files can only be counted".  A file that was not read again would not    *)
(* have been shown, for the text ends before it.                            *)
CountedNeverFits ==
  phase = "write" /\ reply.kind = "matches" =>
    \A j \in DOMAIN reply.files :
      reply.files[j].listing = "counted" /\ Listed(reply.files, j) =>
        \E i \in 1..(j - 1) :
          /\ reply.files[i].listing # "counted" /\ Listed(reply.files, i)
          /\ reply.shown[i] < Cardinality(Offered(reply.files[i]))
=============================================================================
