----------------------------- MODULE Retrieval -----------------------------
(***************************************************************************)
(* A prompt's way through the retriever and the renderer (crates/          *)
(* laya-rank/src/retriever.rs query_with_capture, laya_gate; crates/       *)
(* laya-cli/src/daemon.rs, Request::Query and render): from the lists the  *)
(* store answers with to the text injected, for one prompt of a session    *)
(* after the other, over an index that does not change.  What the model    *)
(* answers, and when, is Scoring's; here any of the chunks offered to it   *)
(* may have got any probability.  Sessions, and what reaches the agent's   *)
(* context, are Injection's.                                               *)
(***************************************************************************)
EXTENDS Ranking, Spans, Sizing

CONSTANTS
  Answers,      \* triples of lists: BM25 hits, defining chunks, path hits
  Gone,         \* sets of chunks that are deleted before they are fetched
  Named,        \* lists of names a prompt may mention
  ScoreTop,     \* RetrieverConfig::score_top
  TopN,         \* RetrieverConfig::top_n
  MaxLines,     \* RetrieverConfig::max_total_lines
  MaxRelated,   \* RetrieverConfig::max_related
  PromptLimit,  \* usage_lines, usage_per_ident of a prompt,
  CallersLimit, \* and of one that asks for callers
  TestRefs,     \* FOLLOW_UP_TEST_REFS
  DefaultCaps,  \* DEFAULT_CAPS
  FollowUpCaps, \* follow_up_caps of a follow-up that asks for neither list
  Stale,        \* sets of files that no longer match the index
  MaxPrompts    \* bound of the model: prompts of the session

ASSUME RetrievalAssumption ==
  /\ {ScoreTop, TopN, MaxLines, MaxRelated, TestRefs, MaxPrompts} \subseteq Nat
  /\ Answers \subseteq Seq(Seq(Chunk))
  /\ \A a \in Answers : Len(a) = 3 /\ \A j \in 1..3 : IsInjective(a[j])
  /\ Named \subseteq Seq(Name)
  /\ {DefaultCaps, FollowUpCaps} \subseteq [map : Nat, full : Nat, related : Nat]
  \* The cap leaves room for the locations, which are not checked against it.
  /\ \A caps \in {DefaultCaps, FollowUpCaps} :
       Header + caps.map + Footer < MaxChars /\ Header + caps.full + Footer < MaxChars

VARIABLES
  stage,    \* idle, pooled, ranked, shaped, listed, replied
  docs,     \* the prompt asks for documentation
  answer,   \* the lists, and what of them is gone
  pool,     \* the candidates, in lexical order
  p,        \* their probabilities
  scored,   \* what laya_gate leaves of them, with scores, best first
  spans,    \* what shape_spans makes of it
  lists,    \* the lists that come with them, and what the prompt asks for
  reply,    \* what is injected, and what the retriever listed
  prompts,  \* prompts so far; with the first the session has a topic
  sent      \* Session::sent

vars == <<stage, docs, answer, pool, p, scored, spans, lists, reply, prompts, sent>>

NoAnswer == [lists |-> <<>>, gone |-> {}]
NoIntent == [followUp |-> FALSE, callers |-> FALSE, tests |-> FALSE]
NoLists == [related |-> <<>>, usages |-> <<>>, intent |-> NoIntent]

Init ==
  /\ stage = "idle"
  /\ docs = FALSE /\ answer = NoAnswer
  /\ pool = <<>> /\ p = <<>> /\ scored = <<>> /\ spans = <<>>
  /\ lists = NoLists /\ reply = NothingRendered
  /\ prompts = 0 /\ sent = {}

-----------------------------------------------------------------------------
\* The candidates: the lists are fused, fetched (without what is gone),
\* capped, and prose is moved behind code.
Pool(found, gone, asksForDocs) ==
  LET ranked == Fetched(Fused(found)) IN
  Demoted(Capped(At(ranked, {i \in DOMAIN ranked : ranked[i] \notin gone})), asksForDocs)

\* A prompt is the session's topic, or is retrieved as it.
Ask ==
  /\ stage = "idle" /\ prompts < MaxPrompts
  /\ prompts' = prompts + 1
  /\ docs' \in BOOLEAN
  /\ \E found \in Answers, gone \in Gone :
       /\ answer' = [lists |-> found, gone |-> gone]
       /\ pool' = Pool(found, gone, docs')
  /\ stage' = "pooled"
  /\ UNCHANGED <<p, scored, spans, lists, reply, sent>>

\* laya_gate got probabilities for some of the first ScoreTop candidates.
Gate ==
  /\ stage = "pooled" /\ pool # <<>>
  /\ \E probs \in [ToSet(pool) -> {None} \cup 0..MaxP] :
       /\ \E c \in ToSet(pool) : probs[c] # None
       /\ \A c \in ToSet(pool) : probs[c] # None /\ ScoreTop # 0 => Rank(pool, c) <= ScoreTop
       /\ p' = probs
       /\ LET score == GateScores(pool, probs)
              kept == Kept(Reranked(pool, probs, score), probs) IN
          scored' = [i \in DOMAIN kept |-> [id |-> kept[i], score |-> score[kept[i]]]]
  /\ stage' = "ranked"
  /\ answer' = NoAnswer
  /\ UNCHANGED <<docs, pool, spans, lists, reply, prompts, sent>>

\* laya_gate got none, or there is no model: the lexical order stands.
GateLexically ==
  /\ stage = "pooled"
  /\ p' = [c \in ToSet(pool) |-> None]
  /\ scored' = [i \in DOMAIN pool |->
                  [id |-> pool[i], score |-> LexicalScore(answer.lists, pool[i], docs)]]
  /\ stage' = "ranked"
  /\ answer' = NoAnswer
  /\ UNCHANGED <<docs, pool, spans, lists, reply, prompts, sent>>

Shape ==
  /\ stage = "ranked"
  /\ LET chunks == {[path |-> Info[s.id].path, start |-> Info[s.id].start,
                     end |-> Info[s.id].end, score |-> s.score] : s \in ToSet(scored)} IN
     \E fileOrder \in SetToSeqs({c.path : c \in chunks}) :
       spans' = Shaped(chunks, TopN, MaxLines, fileOrder)
  /\ stage' = "shaped"
  /\ UNCHANGED <<docs, answer, pool, p, scored, lists, reply, prompts, sent>>

-----------------------------------------------------------------------------
Seeds == First([i \in DOMAIN scored |-> scored[i].id], 3)

\* The names looked up: those of the query, then those the best chunks define.
Idents(names) ==
  LET all == names \o FlatMap(Seeds, LAMBDA c : Info[c].defines) IN
  At(all, {i \in DOMAIN all : \A j \in 1..(i - 1) : all[j] # all[i]})

\* What a follow-up that names no code asks for on top of its topic.
Intents ==
  {NoIntent} \cup
    (IF prompts > 1 THEN [followUp : {TRUE}, callers : BOOLEAN, tests : BOOLEAN] ELSE {})

\* The rest of query_with_capture: the lists are looked up, each of them empty
\* if the store fails.
List ==
  /\ stage = "shaped"
  /\ \E intent \in Intents, names \in Named, fails \in SUBSET {"near", "uses", "tests"} :
       LET idents == Idents(names)
           none(list) == list \in fails \/ scored = <<>> \/ (MaxRelated = 0 /\ list # "near")
           near == IF none("near") THEN <<>> ELSE Neighbours(Seeds, ToSet(spans), MaxRelated)
           tests == IF none("tests") \/ ~intent.tests THEN <<>> ELSE Tests(idents, TestRefs)
           limit == IF intent.callers THEN CallersLimit ELSE PromptLimit IN
       lists' = [related |-> tests \o near, intent |-> intent,
                 usages |-> IF none("uses") THEN <<>> ELSE Usages(idents, limit)]
  /\ stage' = "listed"
  /\ pool' = <<>> /\ p' = <<>> /\ scored' = <<>>
  /\ UNCHANGED <<docs, answer, spans, reply, prompts, sent>>

Caps(intent) ==
  IF ~intent.followUp THEN DefaultCaps
  ELSE [FollowUpCaps EXCEPT !.full = IF intent.callers \/ intent.tests THEN 0 ELSE @]

\* Daemon::render: the result is sized and rendered, and the spans inlined are
\* recorded as sent.
Render ==
  /\ stage = "listed"
  /\ \E stale \in Stale :
       LET ctx == OnlyCurrent(Sized(spans, lists.related, lists.usages,
                                    Caps(lists.intent), docs, sent), stale) IN
       reply' = IF ctx.full \o ctx.map = <<>> /\ ctx.related = <<>> /\ ctx.usages = <<>>
                  THEN NothingRendered ELSE Rendered(ctx)
  /\ sent' = sent \cup {SpanKey(s) : s \in ToSet(reply'.inlined)}
  /\ stage' = "replied"
  /\ docs' = FALSE
  /\ spans' = <<>> /\ lists' = NoLists
  /\ UNCHANGED <<answer, pool, p, scored, prompts>>

\* The next prompt.
Done ==
  /\ stage = "replied"
  /\ stage' = "idle"
  /\ reply' = NothingRendered
  /\ UNCHANGED <<docs, answer, pool, p, scored, spans, lists, prompts, sent>>

Next == Ask \/ Gate \/ GateLexically \/ Shape \/ List \/ Render \/ Done

Spec == Init /\ [][Next]_vars

-----------------------------------------------------------------------------

(* The model reranks and never overrules: of two chunks it scored, the one *)
(* that is ahead both in the lexical order and by its probability stays    *)
(* ahead (laya_gate, both fusions; fusion.rs).                             *)
RespectsBoth ==
  stage = "ranked" =>
    LET ids == [i \in DOMAIN scored |-> scored[i].id] IN
    \A c, d \in ToSet(ids) :
      /\ p[c] # None /\ p[d] # None
      /\ Rank(pool, c) < Rank(pool, d) /\ p[c] >= p[d]
      => Rank(ids, c) < Rank(ids, d)

Uses(x) ==
  {[path |-> Info[c].path, line |-> Info[c].line[x]] :
     c \in {d \in Chunk : x \in ToSet(Info[d].defines) \cup ToSet(Info[d].refs)}}

(* render.rs, COMPLETE_USES: "all indexed uses shown" is said of a name     *)
(* only if each chunk that defines or uses it has a line in the list or in  *)
(* a span that is reported as provided; through the caps of usage_list, the *)
(* limits of the store's answers, lines shared by names, and the cut.       *)
UsesClaimTrue ==
  \A x \in reply.claims : \A u \in Uses(x) :
    \/ \E v \in reply.usages : SameLine(u, v)
    \/ Visible(u, reply.provided)

(* render.rs, MAX_INJECT_CHARS: "Hard cap on everything a hook injects".    *)
WithinCap == reply.size <= MaxChars
=============================================================================
