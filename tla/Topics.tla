------------------------------- MODULE Topics -------------------------------
(***************************************************************************)
(* What a session is about (crates/laya-cli: session.rs effective_query,   *)
(* record_query, has_topic, view, get; daemon.rs, handle of Query and      *)
(* Session; hook.rs; crates/laya-rank: signals.rs is_follow_up,            *)
(* task_focus, extract_signals).                                           *)
(*                                                                         *)
(* "Now find its tests" is retrieved as the prompt before it.  The daemon  *)
(* decides under one lock of the sessions whether to answer a prompt as a  *)
(* follow-up, under another what to retrieve, under a third it records     *)
(* the result; other prompts of the same session, and sessions that push   *)
(* it out of the table, come in between.                                   *)
(*                                                                         *)
(* A prompt is a record: the words (without the stoplist's) of its task,   *)
(* of its instructions about the answer and of its quoted passages, what   *)
(* it names of the code, whether it refers back, and what it asks for.  A  *)
(* span is a range of lines; a result is a set of spans with scores.       *)
(***************************************************************************)
EXTENDS Integers, SequencesExt

CONSTANTS
  Sessions,      \* sessions of the agents
  NoSession,     \* a search of the MCP server
  Asker,         \* connection threads
  Prompts,       \* [task, wrap, quoted, code, back, intent, skipped]
  Results,       \* sets of [span, score], a span once
  Nothing,
  MaxSessions,   \* MAX_SESSIONS
  MaxWorking,    \* MAX_WORKING_SET
  FollowUpWords, \* 4, in is_follow_up
  QuotedWords,   \* MIN_QUOTED_TASK_TERMS
  MaxAsked       \* bound of the model: prompts

ASSUME TopicsAssumption ==
  /\ {MaxSessions, MaxWorking} \subseteq Nat \ {0} /\ MaxAsked \in Nat
  /\ NoSession \notin Sessions /\ Nothing \notin Prompts
  /\ \A p \in Prompts :
       p = [task |-> p.task, wrap |-> p.wrap, quoted |-> p.quoted, code |-> p.code,
            back |-> p.back, intent |-> p.intent, skipped |-> p.skipped]
  /\ \A result \in Results : IsFiniteSet(result)
       /\ \A x \in result : x = [span |-> x.span, score |-> x.score] /\ x.score \in Int

VARIABLES
  table,   \* Sessions::map, the session touched last at the end
  ask,     \* ask[a]: the query that thread a serves
  asked,   \* queries so far
  known    \* what was recorded of each session since it is in the table (history)

topicVars == <<table, ask, asked, known>>

NoAsk == [phase |-> "idle", session |-> Nothing, prompt |-> Nothing, follow |-> Nothing,
          topic |-> Nothing, named |-> {}, terms |-> {}, starts |-> FALSE,
          forgotten |-> FALSE]

TopicsInit ==
  /\ table = <<>> /\ asked = 0
  /\ ask = [a \in Asker |-> NoAsk]
  /\ known = [s \in Sessions |-> {}]

-----------------------------------------------------------------------------
\* extract_signals: a name's words are terms too.
Signals(p) ==
  [terms |-> p.task \cup p.wrap \cup UNION p.quoted \cup p.code, names |-> p.code]
Words(p) == Signals(p).terms
NamesCode(p) == Signals(p).names # {}
IsFollowUp(p) ==
  Cardinality(Words(p)) < FollowUpWords \/ (p.back /\ ~NamesCode(p))

\* task_focus: the quoted passages that are a task, or else what is not an
\* instruction about the answer, or else everything.
Focus(p) ==
  LET tasks == {q \in p.quoted : Cardinality(q) >= QuotedWords}
      rest == p.task \cup UNION p.quoted \cup p.code IN
  IF tasks # {} THEN UNION tasks ELSE IF rest # {} THEN rest ELSE Words(p)

\* Of a topic with names appended: they are a line of their own.
QueryTerms(topic, named) ==
  Focus([topic EXCEPT !.task = @ \cup named])

-----------------------------------------------------------------------------
Row(s) == CHOOSE i \in DOMAIN table : table[i].id = s
InTable(s) == \E i \in DOMAIN table : table[i].id = s
Fresh(s) == [id |-> s, topic |-> Nothing, last |-> Nothing, working |-> {}]

\* Sessions::get: the session comes last; a new one pushes out the first if the
\* table is full.
Others(s) ==
  CASE InTable(s) -> RemoveAt(table, Row(s))
    [] ~InTable(s) /\ Len(table) < MaxSessions -> table
    [] OTHER -> Tail(table)
Got(s) == IF InTable(s) THEN table[Row(s)] ELSE Fresh(s)
Put(s, entry) == table' = Append(Others(s), entry)
Out(s) == {t \in Sessions : InTable(t) /\ t # s /\ \A i \in DOMAIN Others(s) : Others(s)[i].id # t}
Forgotten(s, asks) ==
  [a \in Asker |->
     IF asks[a].session \in Out(s) THEN [asks[a] EXCEPT !.forgotten = TRUE] ELSE asks[a]]
Known(s, more) ==
  [t \in Sessions |->
     IF t \in Out(s) THEN {} ELSE IF t = s THEN known[t] \cup more ELSE known[t]]

\* user_prompt sends Query; skip_prompt leaves out commands and the shortest.
Asks(a, s, p) ==
  /\ ask[a].phase = "idle" /\ asked < MaxAsked
  /\ s # NoSession => ~p.skipped
  /\ ask' = [ask EXCEPT ![a] = [NoAsk EXCEPT !.phase = "judge", !.session = s, !.prompt = p]]
  /\ asked' = asked + 1
  /\ UNCHANGED <<table, known>>

HasTopic(s) == InTable(s) /\ table[Row(s)].topic # Nothing

\* Faulty variant: any follow-up is answered as one.
FollowUpOfAnyKind(s, p) == s # NoSession /\ HasTopic(s) /\ IsFollowUp(p)

\* A follow-up that names no code is answered as one.
FollowUp(s, p) ==
  s # NoSession /\ HasTopic(s) /\ IsFollowUp(p) /\ ~NamesCode(p)

\* has_topic, under a lock of its own; a search asks for itself.
Judge(a) ==
  /\ ask[a].phase = "judge"
  /\ LET p == ask[a].prompt IN
     ask' = [ask EXCEPT ![a].phase = "retrieve",
               ![a].follow = IF FollowUp(ask[a].session, p) THEN p.intent ELSE Nothing]
  /\ UNCHANGED <<table, asked, known>>

\* effective_query.
Retrieve(a) ==
  /\ ask[a].phase = "retrieve"
  /\ LET p == ask[a].prompt
         s == ask[a].session
         retrieves(topic, named, starts) ==
           [ask EXCEPT ![a].phase = "record", ![a].topic = topic, ![a].named = named,
                       ![a].terms = QueryTerms(topic, named), ![a].starts = starts] IN
     IF s = NoSession
       THEN ask' = retrieves(p, {}, FALSE) /\ UNCHANGED <<table, known>>
       ELSE /\ known' = Known(s, {})
            /\ IF Got(s).topic # Nothing /\ IsFollowUp(p)
                 THEN /\ Put(s, Got(s))
                      /\ ask' = Forgotten(s, retrieves(Got(s).topic, Signals(p).names, FALSE))
                 ELSE /\ Put(s, [Got(s) EXCEPT !.topic = p])
                      /\ ask' = Forgotten(s, retrieves(p, {}, TRUE))
  /\ UNCHANGED asked

\* The retrieval fails: nothing is recorded.
RetrievalFails(a) ==
  /\ ask[a].phase = "record"
  /\ ask' = [ask EXCEPT ![a] = NoAsk]
  /\ UNCHANGED <<table, asked, known>>

\* Of S, the MaxWorking best; of equal scores, any (the sort is stable).
BestOf(S) ==
  {T \in SUBSET S :
     /\ Cardinality(T) = IF Cardinality(S) < MaxWorking THEN Cardinality(S) ELSE MaxWorking
     /\ \A x \in T, y \in S \ T : x.score >= y.score}

\* Faulty variant: the newest score of a span replaces the better one it had.
MergedNewest(working, result) ==
  result \cup {w \in working : \A r \in result : r.span # w.span}

\* record_query: a span that is already there keeps its better score.
BestOfEach(all) ==
  {x \in all : \A y \in all : y.span = x.span => y.score <= x.score}
Merged(working, result) == BestOfEach(working \cup result)

Record(a) ==
  /\ ask[a].phase = "record"
  /\ \E result \in Results :
       IF ask[a].session = NoSession
         THEN UNCHANGED <<table, known>> /\ ask' = [ask EXCEPT ![a].phase = "reply"]
         ELSE LET s == ask[a].session IN
              /\ \E working \in BestOf(Merged(Got(s).working, result)) :
                   Put(s, [Got(s) EXCEPT !.last = result, !.working = working])
              /\ known' = Known(s, result)
              /\ ask' = Forgotten(s, [ask EXCEPT ![a].phase = "reply"])
  /\ UNCHANGED asked

\* The result is rendered, with the sessions locked (already touches the
\* session), and the reply sent.
Respond(a) ==
  /\ ask[a].phase = "reply"
  /\ LET s == ask[a].session
         served == [ask EXCEPT ![a] = NoAsk] IN
     IF s = NoSession THEN ask' = served /\ UNCHANGED <<table, known>>
     ELSE Put(s, Got(s)) /\ known' = Known(s, {}) /\ ask' = Forgotten(s, served)
  /\ UNCHANGED asked

\* pre_agent and session_start read the session, pre_read notes a Read in it.
View(s) ==
  /\ s \in Sessions
  /\ Put(s, Got(s)) /\ known' = Known(s, {}) /\ ask' = Forgotten(s, ask)
  /\ UNCHANGED asked

\* The daemon is restarted.
Restart ==
  /\ table' = <<>>
  /\ ask' = [a \in Asker |-> NoAsk]
  /\ known' = [s \in Sessions |-> {}]
  /\ UNCHANGED asked

TopicsNext ==
  \/ \E a \in Asker, s \in Sessions \cup {NoSession}, p \in Prompts : Asks(a, s, p)
  \/ \E a \in Asker :
       Judge(a) \/ Retrieve(a) \/ RetrievalFails(a) \/ Record(a) \/ Respond(a)
  \/ \E s \in Sessions : View(s)
  \/ Restart

TopicsSpec == TopicsInit /\ [][TopicsNext]_topicVars

-----------------------------------------------------------------------------
\* "Only a follow-up that names no code is retrieved as the bare topic"
\* (daemon.rs, handle): a prompt that is answered as a follow-up was retrieved
\* as the topic that its session had, with nothing added, and did not become the
\* topic itself, although the two are decided under different locks; unless the
\* session was pushed out of the table since.
FollowsTopic ==
  \A a \in Asker :
    LET q == ask[a] IN
    q.phase \in {"record", "reply"} /\ q.follow # Nothing /\ ~q.forgotten =>
      ~q.starts /\ q.named = {} /\ q.terms = Focus(q.topic)

\* "Most relevant first" (protocol.rs, SessionView): a session's working set has
\* the best-scored of all the spans recorded since it is in the table, each with
\* its best score, although it forgets all others and prompts overlap.
WorkingBest ==
  \A i \in DOMAIN table : table[i].working \in BestOf(BestOfEach(known[table[i].id]))
=============================================================================
