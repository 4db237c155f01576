--------------------------- MODULE InjectionProofs ---------------------------
(***************************************************************************)
(* Proofs about the two halves of a session, for any spans, prompts,       *)
(* threads and bounds.  Injection is type correct, what counts as provided *)
(* did reach the agent's context, and no line is inlined twice.  Topics:   *)
(* a follow-up is retrieved as its session's topic, and the working set    *)
(* has the best of all that was found.                                     *)
(***************************************************************************)
EXTENDS Injection, Topics, FiniteSetTheorems, TLAPS

-----------------------------------------------------------------------------
(* The list of sent spans.                                                 *)

\* A finite set as a sequence: each member is in it once.
LEMMA OneOfEach ==
  ASSUME NEW S, IsFiniteSet(S)
  PROVE  /\ SetToSeq(S) \in Seq(S) /\ Len(SetToSeq(S)) = Cardinality(S)
         /\ IsInjective(SetToSeq(S)) /\ ToSet(SetToSeq(S)) = S
<1> DEFINE n == Cardinality(S)
           f == SetToSeq(S)
<1>1. n \in Nat /\ ExistsBijection(1..n, S)
  BY FS_CardinalityType
<1>2. \E g \in [1..n -> S] : IsInjective(g)
  BY <1>1 DEF ExistsBijection, Bijection, Injection
<1>3. f \in [1..n -> S] /\ IsInjective(f)
  BY <1>2 DEF SetToSeq
<1>4. f \in Injection(1..n, S)
  BY <1>3 DEF Injection
<1>5. Cardinality(1..n) = Cardinality(S)
  BY <1>1, FS_Interval
<1>6. f \in Surjection(1..n, S)
  BY <1>4, <1>5, FS_Injection
<1>7. ToSet(f) = S
  BY <1>3, <1>6 DEF Surjection, ToSet
<1>8. f \in Seq(S) /\ Len(f) = n
  <2> HIDE DEF f, n
  <2> QED BY <1>1, <1>3
<1> QED BY <1>3, <1>7, <1>8

\* mark_sent keeps a list of spans within its bound, each there once, and adds
\* what is new; as long as they all fit it forgets none.
LEMMA MarkSent ==
  ASSUME NEW q \in Seq(Span), NEW new \in SUBSET Span, IsInjective(q),
         IsFiniteSet(Span), MaxSent \in Nat
  PROVE  /\ Appended(q, new) \in Seq(Span) /\ Len(Appended(q, new)) <= MaxSent
         /\ IsInjective(Appended(q, new))
         /\ ToSet(Appended(q, new)) \subseteq ToSet(q) \cup new
         /\ Len(q) + Cardinality(new \ ToSet(q)) <= MaxSent
              => ToSet(Appended(q, new)) = ToSet(q) \cup new
<1> DEFINE more == SetToSeq(new \ ToSet(q))
           all == q \o more
           from == Max({1, Len(all) - MaxSent + 1})
<1> HIDE DEF from
<1>1. IsFiniteSet(new \ ToSet(q))
  BY FS_Subset
<1>2. /\ more \in Seq(Span) /\ Len(more) = Cardinality(new \ ToSet(q))
      /\ IsInjective(more) /\ ToSet(more) = new \ ToSet(q)
  <2> DEFINE D == new \ ToSet(q)
  <2>1. D \in SUBSET Span
    OBVIOUS
  <2>2. /\ more \in Seq(D) /\ Len(more) = Cardinality(D)
        /\ IsInjective(more) /\ ToSet(more) = D
    BY <1>1, OneOfEach
  <2> HIDE DEF more, D
  <2>3. more \in Seq(Span)
    BY <2>1, <2>2
  <2> QED BY <2>2, <2>3 DEF D
<1> HIDE DEF more
<1>3. all \in Seq(Span) /\ Len(all) = Len(q) + Len(more)
  BY <1>2
<1>4. /\ \A i \in 1..Len(q) : all[i] = q[i]
      /\ \A i \in 1..Len(all) : i > Len(q) => i - Len(q) \in 1..Len(more) /\ all[i] = more[i - Len(q)]
  BY <1>2
<1> HIDE DEF all
<1>5. ToSet(q) = {q[i] : i \in 1..Len(q)} /\ ToSet(more) = {more[i] : i \in 1..Len(more)}
  BY <1>2 DEF ToSet
<1>6. ToSet(all) = ToSet(q) \cup new
  <2>1. ToSet(all) = {all[i] : i \in 1..Len(all)}
    BY <1>3 DEF ToSet
  <2>2. ASSUME NEW i \in 1..Len(all)
        PROVE  all[i] \in ToSet(q) \cup ToSet(more)
    <3>1. CASE i <= Len(q)
      <4>1. i \in 1..Len(q)
        BY <3>1, <1>3
      <4> QED BY <4>1, <1>4, <1>5
    <3>2. CASE i > Len(q)
      BY <3>2, <1>4, <1>5
    <3> QED BY <3>1, <3>2, <1>3
  <2>3. ASSUME NEW i \in 1..Len(q)
        PROVE  q[i] \in ToSet(all)
    <3>1. i \in 1..Len(all)
      BY <1>2, <1>3
    <3> QED BY <3>1, <2>1, <1>4
  <2>4. ToSet(more) \subseteq ToSet(all)
    <3>1. SUFFICES ASSUME NEW i \in 1..Len(more)
                   PROVE  more[i] \in ToSet(all)
      BY <1>5
    <3>2. Len(q) + i \in 1..Len(all) /\ Len(q) + i > Len(q) /\ Len(q) + i - Len(q) = i
      BY <1>2, <1>3
    <3> QED BY <3>2, <2>1, <1>4
  <2> QED BY <2>1, <2>2, <2>3, <2>4, <1>2, <1>5
<1>7. \A i, j \in 1..Len(all) : all[i] = all[j] => i = j
  <2> TAKE i, j \in 1..Len(all)
  <2> HAVE all[i] = all[j]
  <2>1. CASE i <= Len(q) /\ j <= Len(q)
    <3>1. i \in DOMAIN q /\ j \in DOMAIN q /\ q[i] = q[j]
      BY <2>1, <1>4
    <3> QED BY <3>1 DEF IsInjective
  <2>2. CASE i > Len(q) /\ j > Len(q)
    <3>1. /\ i - Len(q) \in 1..Len(more) /\ j - Len(q) \in 1..Len(more)
          /\ more[i - Len(q)] = more[j - Len(q)]
      BY <2>2, <1>4
    <3>2. DOMAIN more = 1..Len(more)
      BY <1>2
    <3>3. i - Len(q) = j - Len(q)
      BY <3>1, <3>2, <1>2, Zenon DEF IsInjective
    <3> QED BY <3>3, <1>2, <1>3
  <2>3. ASSUME NEW k \in 1..Len(all), k <= Len(q), NEW l \in 1..Len(all), l > Len(q)
        PROVE  all[k] # all[l]
    <3>1. k \in 1..Len(q)
      BY <2>3, <1>3
    <3>2. all[k] \in ToSet(q)
      BY <3>1, <1>4, <1>5
    <3>3. all[l] \in ToSet(more)
      BY <2>3, <1>4, <1>5
    <3> QED BY <3>2, <3>3, <1>2
  <2> QED BY <2>1, <2>2, <2>3, <1>3
<1>8. /\ from \in 1..(Len(all) + 1)
      /\ from >= Len(all) - MaxSent + 1
      /\ Len(all) <= MaxSent => from = 1
  <2> USE DEF from
  <2> DEFINE a == Len(all) - MaxSent + 1
  <2>1. a \in Int
    BY <1>3
  <2> HIDE DEF a
  <2>2. Max({1, a}) = IF a <= 1 THEN 1 ELSE a
    BY <2>1 DEF Max
  <2> USE DEF a
  <2> QED BY <2>2, <1>3
<1>9. Appended(q, new) = SubSeq(all, from, Len(all))
  BY DEF Appended, all, from, more
<1> DEFINE out == SubSeq(all, from, Len(all))
<1>10. /\ out \in Seq(Span) /\ Len(out) = Len(all) - from + 1
       /\ \A i \in 1..Len(out) : from + i - 1 \in 1..Len(all) /\ out[i] = all[from + i - 1]
  BY <1>3, <1>8
<1>11. from = 1 => out = all
  BY <1>3, <1>8, <1>10
<1> HIDE DEF out
<1>12. IsInjective(out)
  <2>1. SUFFICES ASSUME NEW i \in 1..Len(out), NEW j \in 1..Len(out), out[i] = out[j]
                 PROVE  i = j
    BY <1>10 DEF IsInjective
  <2>2. /\ from + i - 1 \in 1..Len(all) /\ from + j - 1 \in 1..Len(all)
        /\ all[from + i - 1] = all[from + j - 1]
    BY <2>1, <1>10
  <2>3. from + i - 1 = from + j - 1
    BY <2>2, <1>7
  <2> QED BY <2>3, <1>8
<1>13. ToSet(out) \subseteq ToSet(all)
  BY <1>10, <1>3 DEF ToSet
<1>14. Appended(q, new) = out
  BY <1>9 DEF out
<1>15. Len(out) <= MaxSent
  BY <1>3, <1>8, <1>10
<1>16. Len(q) + Cardinality(new \ ToSet(q)) <= MaxSent => ToSet(out) = ToSet(all)
  BY <1>2, <1>3, <1>8, <1>11
<1> QED
  BY <1>6, <1>10, <1>12, <1>13, <1>14, <1>15, <1>16

-----------------------------------------------------------------------------
(* Types.  Beyond InjectionTypeOK: no file is edited more often than its   *)
(* bound says, and the list of sent spans has none of them twice.          *)

RequestState == [phase : {"idle", "query", "reply"}, waiting : BOOLEAN,
                 full : SUBSET Block, listed : SUBSET Span]

Typed ==
  /\ InjectionTypeOK
  /\ \A p \in Path : disk[p] \in 0..MaxEdits[p] /\ indexed[p] \in 0..MaxEdits[p]
  /\ IsInjective(sent)

LEMMA Versions ==
  ASSUME NEW p \in Path, NEW v \in 0..MaxEdits[p]
  PROVE  v \in Version
BY DEF Version

LEMMA BlocksTyped ==
  ASSUME Typed, NEW S \in SUBSET Span
  PROVE  DiskBlocks(S) \in SUBSET Block
<1>1. SUFFICES ASSUME NEW s \in S
               PROVE  <<s, disk[PathOf[s]]>> \in Block
  BY DEF DiskBlocks
<1>2. PathOf[s] \in Path
  BY InjectionAssumption
<1> QED BY <1>2 DEF Typed, InjectionTypeOK, Block

\* What an action makes of the request it is about.
LEMMA RequestMoves ==
  ASSUME Typed, NEW r \in Request, NEW new \in RequestState,
         req' = [req EXCEPT ![r] = new]
  PROVE  /\ req' \in [Request -> RequestState]
         /\ req'[r] = new
         /\ \A other \in Request : other # r => req'[other] = req[other]
BY DEF Typed, InjectionTypeOK, RequestState

LEMMA PromptMoves ==
  ASSUME Typed, NEW r \in Request, Prompt(r)
  PROVE  /\ req' \in [Request -> RequestState]
         /\ req'[r].phase = "query" /\ req'[r].waiting /\ req'[r].full = {}
         /\ \A other \in Request : other # r => req'[other] = req[other]
<1> DEFINE new == [NoRequest EXCEPT !.phase = "query", !.waiting = TRUE]
<1>1. new \in RequestState /\ new.phase = "query" /\ new.waiting /\ new.full = {}
  BY DEF RequestState, NoRequest
<1>2. req' = [req EXCEPT ![r] = new]
  BY DEF Prompt
<1> HIDE DEF new
<1>3. /\ req' \in [Request -> RequestState] /\ req'[r] = new
      /\ \A other \in Request : other # r => req'[other] = req[other]
  BY <1>1, <1>2, RequestMoves
<1> QED BY <1>1, <1>3

LEMMA DeliverMoves ==
  ASSUME Typed, NEW r \in Request, Deliver(r)
  PROVE  /\ req' \in [Request -> RequestState]
         /\ req'[r] = NoRequest
         /\ \A other \in Request : other # r => req'[other] = req[other]
<1>1. NoRequest \in RequestState
  BY DEF RequestState, NoRequest
<1> QED BY <1>1, RequestMoves DEF Deliver

LEMMA HookGoneMoves ==
  ASSUME Typed, NEW r \in Request, HookGone(r)
  PROVE  /\ req' \in [Request -> RequestState]
         /\ req'[r].phase = req[r].phase /\ req'[r].full = req[r].full
         /\ ~req'[r].waiting
         /\ \A other \in Request : other # r => req'[other] = req[other]
<1> DEFINE no == FALSE
           new == [req[r] EXCEPT !.waiting = no]
<1>1. req[r] \in RequestState /\ req \in [Request -> RequestState] /\ no \in BOOLEAN
  BY DEF Typed, InjectionTypeOK, RequestState
<1>2. req' = [req EXCEPT ![r].waiting = no]
  BY DEF HookGone
<1> HIDE DEF no
<1>3. req' = [req EXCEPT ![r] = new]
  BY <1>1, <1>2
<1>4. new \in RequestState /\ new.phase = req[r].phase /\ new.full = req[r].full
      /\ new.waiting = no
  BY <1>1 DEF RequestState
<1> HIDE DEF new
<1>5. /\ req' \in [Request -> RequestState] /\ req'[r] = new
      /\ \A other \in Request : other # r => req'[other] = req[other]
  BY <1>3, <1>4, RequestMoves
<1>6. ~no
  BY DEF no
<1> QED BY <1>4, <1>5, <1>6

\* What render does, whichever spans it chooses.
LEMMA RenderMoves ==
  ASSUME Typed, NEW r \in Request, Render(r)
  PROVE  \E inlined \in SUBSET {s \in Span : ~InContext(s)} :
           /\ sent' = Appended(sent, inlined)
           /\ inlinedOnce' = inlinedOnce \cup inlined
           /\ req' \in [Request -> RequestState]
           /\ req'[r].phase = "reply" /\ req'[r].waiting = req[r].waiting
           /\ req'[r].full = DiskBlocks(inlined)
           /\ \A other \in Request : other # r => req'[other] = req[other]
<1>1. PICK listed \in SUBSET {s \in Span : InContext(s)},
           inlined \in SUBSET {s \in Span : ~InContext(s)} :
        /\ sent' = Appended(sent, inlined)
        /\ inlinedOnce' = inlinedOnce \cup inlined
        /\ req' = [req EXCEPT ![r].phase = "reply", ![r].listed = listed,
                     ![r].full = DiskBlocks(inlined)]
  BY DEF Render
<1> DEFINE blocks == DiskBlocks(inlined)
           new == [req[r] EXCEPT !.phase = "reply", !.listed = listed, !.full = blocks]
<1>2. req[r] \in RequestState /\ req \in [Request -> RequestState]
  BY DEF Typed, InjectionTypeOK, RequestState
<1>3. blocks \in SUBSET Block
  BY BlocksTyped
<1> HIDE DEF blocks
<1>4. new \in RequestState
  BY <1>2, <1>3 DEF RequestState
<1>5. req' = [req EXCEPT ![r] = new]
  BY <1>1, <1>2 DEF blocks
<1>6. /\ new.phase = "reply" /\ new.waiting = req[r].waiting
      /\ new.full = DiskBlocks(inlined)
  BY <1>2 DEF RequestState, blocks
<1> HIDE DEF new
<1>7. /\ req' \in [Request -> RequestState] /\ req'[r] = new
      /\ \A other \in Request : other # r => req'[other] = req[other]
  BY <1>4, <1>5, RequestMoves
<1> QED BY <1>1, <1>6, <1>7

LEMMA InitTyped == Init => Typed
<1> SUFFICES ASSUME Init PROVE Typed
  OBVIOUS
<1>1. \A p \in Path : MaxEdits[p] \in Nat
  BY InjectionAssumption
<1>2. \A p \in Path : 0 \in 0..MaxEdits[p] /\ 0 \in Version
  BY <1>1, Versions
<1>3. /\ disk \in [Path -> Version] /\ indexed \in [Path -> Version]
      /\ \A p \in Path : disk[p] \in 0..MaxEdits[p] /\ indexed[p] \in 0..MaxEdits[p]
  BY <1>2 DEF Init
<1>4. NoRequest \in RequestState
  BY DEF RequestState, NoRequest
<1>5. req \in [Request -> RequestState]
  BY <1>4 DEF Init
<1>6. sent \in Seq(Span) /\ Len(sent) = 0 /\ DOMAIN sent = {}
  BY DEF Init
<1>7. IsInjective(sent)
  BY <1>6 DEF IsInjective
<1>8. MaxSent \in Nat /\ MaxPrompts \in Nat /\ MaxMishaps \in Nat
  BY InjectionAssumption
<1>9. compacted \in BOOLEAN
  BY Zenon DEF Init
<1> QED
  BY <1>3, <1>5, <1>6, <1>7, <1>8, <1>9 DEF Typed, InjectionTypeOK, RequestState, Init

LEMMA NextTyped == Typed /\ [Next]_vars => Typed'
<1> SUFFICES ASSUME Typed, [Next]_vars
             PROVE  Typed'
  OBVIOUS
<1> USE DEF Typed, InjectionTypeOK
<1>1. ASSUME NEW p \in Path, Edit(p)
      PROVE  Typed'
  <2> MaxEdits[p] \in Nat /\ disk[p] \in 0..MaxEdits[p] /\ disk[p] < MaxEdits[p]
    BY <1>1, InjectionAssumption DEF Edit
  <2>1. disk[p] + 1 \in 0..MaxEdits[p]
    OBVIOUS
  <2>2. disk[p] + 1 \in Version
    BY <2>1, Versions
  <2>3. /\ disk' \in [Path -> Version]
        /\ \A q \in Path : disk'[q] \in 0..MaxEdits[q]
    BY <1>1, <2>1, <2>2 DEF Edit
  <2> QED
    BY <1>1, <2>3 DEF Edit, session, agent
<1>2. ASSUME NEW p \in Path, Reindex(p)
      PROVE  Typed'
  BY <1>2 DEF Reindex, session, agent
<1>3. ASSUME NEW r \in Request, Prompt(r)
      PROVE  Typed'
  <2>1. prompts' \in 0..MaxPrompts
    BY <1>3, InjectionAssumption DEF Prompt
  <2>2. req' \in [Request -> RequestState]
    BY <1>3, PromptMoves
  <2> QED
    BY <1>3, <2>1, <2>2 DEF Prompt, RequestState, files, session, agent
<1>4. ASSUME NEW r \in Request, Render(r)
      PROVE  Typed'
  <2>1. PICK inlined \in SUBSET {s \in Span : ~InContext(s)} :
          /\ sent' = Appended(sent, inlined)
          /\ inlinedOnce' = inlinedOnce \cup inlined
          /\ req' \in [Request -> RequestState]
    BY <1>4, RenderMoves
  <2>2. inlined \in SUBSET Span
    OBVIOUS
  <2>3. sent' \in Seq(Span) /\ Len(sent') <= MaxSent /\ IsInjective(sent')
    BY <2>1, <2>2, MarkSent, InjectionAssumption
  <2> QED
    BY <1>4, <2>1, <2>2, <2>3 DEF Render, RequestState, files, agent
<1>5. ASSUME NEW r \in Request, Deliver(r)
      PROVE  Typed'
  <2>1. req' \in [Request -> RequestState]
    BY <1>5, DeliverMoves
  <2>2. context' \subseteq Block
    BY <1>5 DEF Deliver
  <2> QED
    BY <1>5, <2>1, <2>2 DEF Deliver, RequestState, files, session
<1>6. ASSUME NEW r \in Request, HookGone(r)
      PROVE  Typed'
  <2>1. req' \in [Request -> RequestState]
    BY <1>6, HookGoneMoves
  <2>2. mishaps' \in 0..MaxMishaps
    BY <1>6, InjectionAssumption DEF HookGone
  <2> QED
    BY <1>6, <2>1, <2>2 DEF HookGone, RequestState, files, session, agent
<1>7. ASSUME NEW p \in Path, NoteRead(p)
      PROVE  Typed'
  BY <1>7 DEF NoteRead, files
<1>8. ASSUME NEW p \in Path, Read(p)
      PROVE  Typed'
  <2>1. SpansOf(p) \in SUBSET Span
    BY DEF SpansOf
  <2>2. context' \subseteq Block
    BY <1>8, <2>1, BlocksTyped DEF Read
  <2> QED
    BY <1>8, <2>2 DEF Read, files, session
<1>9. ASSUME NEW p \in Path, ReadFails(p)
      PROVE  Typed'
  <2>1. mishaps' \in 0..MaxMishaps
    BY <1>9, InjectionAssumption DEF ReadFails
  <2> QED
    BY <1>9, <2>1 DEF ReadFails, files, session
<1>10. ASSUME Compact
       PROVE  Typed'
  <2>1. compacted' \in BOOLEAN
    BY <1>10, Zenon DEF Compact
  <2> QED
    BY <1>10, <2>1 DEF Compact, files, session
<1>11. ASSUME <<>> = sent', fullReads' = {}, inlinedOnce' = {}
       PROVE  /\ sent' \in Seq(Span) /\ Len(sent') <= MaxSent /\ IsInjective(sent')
              /\ fullReads' \subseteq Path /\ inlinedOnce' \subseteq Span
  <2>1. sent' \in Seq(Span) /\ Len(sent') = 0 /\ DOMAIN sent' = {}
    BY <1>11
  <2> QED
    BY <1>11, <2>1, InjectionAssumption DEF IsInjective
<1>12. ASSUME Reset
       PROVE  Typed'
  <2>1. PICK again \in SUBSET Span, v \in Version :
          context' = context \cup {<<s, v>> : s \in {t \in again : v <= disk[PathOf[t]]}}
    BY <1>12 DEF Reset
  <2>2. context' \subseteq Block
    BY <2>1 DEF Block
  <2>3. compacted' \in BOOLEAN
    BY <1>12, Zenon DEF Reset
  <2> QED
    BY <1>11, <1>12, <2>2, <2>3 DEF Reset, files
<1>13. ASSUME LoseReset
       PROVE  Typed'
  <2>1. mishaps' \in 0..MaxMishaps
    BY <1>13, InjectionAssumption DEF LoseReset
  <2>2. compacted' \in BOOLEAN
    BY <1>13, Zenon DEF LoseReset
  <2> QED
    BY <1>13, <2>1, <2>2 DEF LoseReset, files, session
<1>14. ASSUME Forget
       PROVE  Typed'
  BY <1>11, <1>14 DEF Forget, files, agent
<1>15. ASSUME UNCHANGED vars
       PROVE  Typed'
  BY <1>15 DEF vars, files, session, agent
<1> QED
  BY <1>1, <1>2, <1>3, <1>4, <1>5, <1>6, <1>7, <1>8, <1>9, <1>10, <1>12, <1>13,
     <1>14, <1>15 DEF Next

(* Every state is as its types say: among them, the list of sent spans is  *)
(* bounded by MAX_SENT (session.rs, mark_sent).                            *)
THEOREM TypeCorrect == Spec => []InjectionTypeOK
<1>1. Typed => InjectionTypeOK
  BY DEF Typed
<1> QED
  BY <1>1, InitTyped, NextTyped, PTL DEF Spec

-----------------------------------------------------------------------------
(* What counts as provided has reached the context.                        *)

\* Only a finished reply carries code; as long as nothing went wrong the hook
\* of every prompt is still there.
Serving ==
  \A r \in Request :
    /\ req[r].phase # "reply" => req[r].full = {}
    /\ mishaps = 0 /\ req[r].phase # "idle" => req[r].waiting

LEMMA HasBlocks ==
  ASSUME NEW S, NEW s \in S
  PROVE  Has(DiskBlocks(S), s)
<1>1. <<s, disk[PathOf[s]]>> \in DiskBlocks(S) /\ <<s, disk[PathOf[s]]>>[1] = s
  BY DEF DiskBlocks
<1> QED BY <1>1 DEF Has

LEMMA HasMore ==
  ASSUME NEW S, NEW T, S \subseteq T, NEW s, Has(S, s)
  PROVE  Has(T, s)
BY DEF Has

LEMMA NextServing == Typed /\ Serving /\ [Next]_vars => Serving'
<1> SUFFICES ASSUME Typed, Serving, [Next]_vars
             PROVE  Serving'
  OBVIOUS
<1>0. mishaps \in Nat
  BY InjectionAssumption DEF Typed, InjectionTypeOK
<1>1. ASSUME NEW r \in Request, Prompt(r)
      PROVE  Serving'
  BY <1>1, PromptMoves DEF Prompt, Serving
<1>2. ASSUME NEW r \in Request, Render(r)
      PROVE  Serving'
  <2>1. /\ req'[r].phase = "reply" /\ req'[r].waiting = req[r].waiting
        /\ \A other \in Request : other # r => req'[other] = req[other]
    BY <1>2, RenderMoves
  <2> QED
    BY <1>2, <2>1 DEF Render, Serving
<1>3. ASSUME NEW r \in Request, Deliver(r)
      PROVE  Serving'
  BY <1>3, DeliverMoves DEF Deliver, Serving, NoRequest
<1>4. ASSUME NEW r \in Request, HookGone(r)
      PROVE  Serving'
  <2>1. mishaps' # 0
    BY <1>0, <1>4 DEF HookGone
  <2> QED
    BY <1>4, <2>1, HookGoneMoves DEF Serving
<1>5. ASSUME req' = req, mishaps' = mishaps \/ mishaps' # 0
      PROVE  Serving'
  BY <1>5 DEF Serving
<1>6. ASSUME NEW p \in Path,
             Edit(p) \/ Reindex(p) \/ NoteRead(p) \/ Read(p) \/ ReadFails(p)
      PROVE  Serving'
  BY <1>0, <1>5, <1>6 DEF Edit, Reindex, NoteRead, Read, ReadFails
<1>7. ASSUME Compact \/ Reset \/ LoseReset \/ Forget
      PROVE  Serving'
  BY <1>0, <1>5, <1>7 DEF Compact, Reset, LoseReset, Forget
<1>8. ASSUME UNCHANGED vars
      PROVE  Serving'
  BY <1>5, <1>8 DEF vars
<1> QED
  BY <1>1, <1>2, <1>3, <1>4, <1>6, <1>7, <1>8 DEF Next

\* Nothing is provided: no span sent, no file read.
LEMMA NothingProvided ==
  ASSUME sent' = <<>>, fullReads' = {}
  PROVE  ProvidedReachesContext'
<1>1. ToSet(sent') = {}
  BY DEF ToSet
<1> QED BY <1>1 DEF ProvidedReachesContext

\* The context loses nothing, and no request that has code changes.
LEMMA NothingLost ==
  ASSUME ProvidedReachesContext, Serving, context \subseteq context',
         sent' = sent, fullReads' = fullReads, reading' = reading,
         mishaps' = mishaps, compacted' = compacted,
         \A r \in Request : req[r].full # {} =>
             req'[r].waiting = req[r].waiting /\ req'[r].full = req[r].full
  PROVE  ProvidedReachesContext'
BY DEF ProvidedReachesContext, Has

LEMMA NextProvided ==
  Typed /\ Serving /\ ProvidedReachesContext /\ [Next]_vars => ProvidedReachesContext'
<1> SUFFICES ASSUME Typed, Serving, ProvidedReachesContext, [Next]_vars
             PROVE  ProvidedReachesContext'
  OBVIOUS
<1>0. mishaps \in Nat
  BY InjectionAssumption DEF Typed, InjectionTypeOK
<1>1. ASSUME NEW p \in Path, Edit(p) \/ Reindex(p)
      PROVE  ProvidedReachesContext'
  BY <1>1, NothingLost DEF Edit, Reindex, session, agent
<1>2. ASSUME NEW r \in Request, Prompt(r)
      PROVE  ProvidedReachesContext'
  <2>1. /\ req[r].full = {}
        /\ \A other \in Request : other # r => req'[other] = req[other]
    BY <1>2, PromptMoves DEF Prompt, Serving
  <2> QED
    BY <1>2, <2>1, NothingLost DEF Prompt, session, agent
<1>3. ASSUME NEW r \in Request, Render(r)
      PROVE  ProvidedReachesContext'
  <2>1. PICK inlined \in SUBSET {s \in Span : ~InContext(s)} :
          /\ sent' = Appended(sent, inlined)
          /\ req'[r].waiting = req[r].waiting
          /\ req'[r].full = DiskBlocks(inlined)
          /\ \A other \in Request : other # r => req'[other] = req[other]
    BY <1>3, RenderMoves
  <2>2. inlined \in SUBSET Span
    OBVIOUS
  <2>3. ToSet(sent') \subseteq ToSet(sent) \cup inlined
    BY <2>1, <2>2, MarkSent, InjectionAssumption DEF Typed, InjectionTypeOK
  <2>4. req[r].full = {} /\ (mishaps = 0 => req[r].waiting)
    BY <1>3 DEF Render, Serving
  <2>5. ASSUME mishaps = 0, ~compacted, NEW s \in ToSet(sent')
        PROVE  Has(context, s) \/ \E x \in Request : req'[x].waiting /\ Has(req'[x].full, s)
    <3>1. CASE s \in inlined
      <4>1. Has(DiskBlocks(inlined), s)
        BY <3>1, HasBlocks
      <4> QED BY <4>1, <2>1, <2>4, <2>5
    <3>2. CASE s \in ToSet(sent)
      <4>1. Has(context, s) \/ \E x \in Request : req[x].waiting /\ Has(req[x].full, s)
        BY <2>5, <3>2 DEF ProvidedReachesContext
      <4>2. ~Has(req[r].full, s)
        BY <2>4 DEF Has
      <4> QED BY <4>1, <4>2, <2>1
    <3> QED BY <2>3, <2>5, <3>1, <3>2
  <2>6. /\ context' = context /\ mishaps' = mishaps /\ compacted' = compacted
        /\ fullReads' = fullReads /\ reading' = reading
    BY <1>3 DEF Render, agent
  <2> QED
    BY <2>5, <2>6 DEF ProvidedReachesContext
<1>4. ASSUME NEW r \in Request, Deliver(r)
      PROVE  ProvidedReachesContext'
  <2>1. \A other \in Request : other # r => req'[other] = req[other]
    BY <1>4, DeliverMoves
  <2>2. /\ context \subseteq context'
        /\ req[r].waiting => req[r].full \subseteq context'
    BY <1>4 DEF Deliver
  <2>3. ASSUME NEW s, Has(context, s) \/ \E x \in Request : req[x].waiting /\ Has(req[x].full, s)
        PROVE  Has(context', s) \/ \E x \in Request : req'[x].waiting /\ Has(req'[x].full, s)
    <3>1. CASE Has(context, s) \/ (req[r].waiting /\ Has(req[r].full, s))
      BY <2>2, <3>1, HasMore
    <3>2. ASSUME NEW x \in Request, x # r, req[x].waiting /\ Has(req[x].full, s)
          PROVE  req'[x].waiting /\ Has(req'[x].full, s)
      BY <2>1, <3>2
    <3> QED BY <2>3, <3>1, <3>2
  <2>4. \A s : Has(context, s) => Has(context', s)
    BY <2>2, HasMore
  <2>5. /\ sent' = sent /\ mishaps' = mishaps /\ compacted' = compacted
        /\ fullReads' = fullReads /\ reading' = reading
    BY <1>4 DEF Deliver, session
  <2> QED
    BY <2>3, <2>4, <2>5 DEF ProvidedReachesContext
<1>5. ASSUME mishaps' = mishaps + 1
      PROVE  ProvidedReachesContext'
  BY <1>0, <1>5 DEF ProvidedReachesContext
<1>6. ASSUME NEW r \in Request, HookGone(r)
      PROVE  ProvidedReachesContext'
  BY <1>5, <1>6 DEF HookGone
<1>7. ASSUME NEW p \in Path, NoteRead(p)
      PROVE  ProvidedReachesContext'
  BY <1>7 DEF NoteRead, ProvidedReachesContext
<1>8. ASSUME NEW p \in Path, Read(p)
      PROVE  ProvidedReachesContext'
  <2>1. context \subseteq context' /\ DiskBlocks(SpansOf(p)) \subseteq context'
    BY <1>8 DEF Read
  <2>2. \A s : Has(context, s) => Has(context', s)
    BY <2>1, HasMore
  <2>3. \A s \in SpansOf(p) : Has(context', s)
    BY <2>1, HasBlocks, HasMore
  <2>4. /\ sent' = sent /\ fullReads' = fullReads /\ req' = req
        /\ mishaps' = mishaps /\ compacted' = compacted /\ reading' = reading \ {p}
    BY <1>8 DEF Read, session
  <2> QED
    BY <2>2, <2>3, <2>4 DEF ProvidedReachesContext
<1>9. ASSUME NEW p \in Path, ReadFails(p)
      PROVE  ProvidedReachesContext'
  BY <1>5, <1>9 DEF ReadFails
<1>10. ASSUME Compact
       PROVE  ProvidedReachesContext'
  BY <1>10 DEF Compact, ProvidedReachesContext
<1>11. ASSUME Reset \/ Forget
       PROVE  ProvidedReachesContext'
  BY <1>11, NothingProvided DEF Reset, Forget
<1>12. ASSUME LoseReset
       PROVE  ProvidedReachesContext'
  BY <1>5, <1>12 DEF LoseReset
<1>13. ASSUME UNCHANGED vars
       PROVE  ProvidedReachesContext'
  BY <1>13, NothingLost DEF vars, session, agent
<1> QED
  BY <1>1, <1>2, <1>3, <1>4, <1>6, <1>7, <1>8, <1>9, <1>10, <1>11, <1>12, <1>13 DEF Next

(* As long as no reply, no reset and no read is lost, every span the       *)
(* daemon will withhold because it was provided is in the agent's context  *)
(* or in a reply on its way there (daemon.rs, render; session.rs,          *)
(* mark_sent and note_full_read).                                          *)
THEOREM ProvidedIsProvided == Spec => []ProvidedReachesContext
<1>1. Init => Serving /\ ProvidedReachesContext
  <2> SUFFICES ASSUME Init
               PROVE  Serving /\ ProvidedReachesContext
    OBVIOUS
  <2>1. Serving
    BY DEF Init, Serving, NoRequest
  <2>2. ToSet(sent) = {} /\ fullReads = {}
    BY DEF Init, ToSet
  <2> QED BY <2>1, <2>2 DEF ProvidedReachesContext
<1> QED
  BY <1>1, InitTyped, NextTyped, NextServing, NextProvided, PTL DEF Spec

-----------------------------------------------------------------------------
(* No line is inlined twice.                                               *)

\* The list of sent spans holds nothing that was not inlined, and everything
\* that was as long as it can.
Remembers ==
  /\ ToSet(sent) \subseteq inlinedOnce
  /\ Cardinality(inlinedOnce) <= MaxSent => inlinedOnce \subseteq ToSet(sent)

LEMMA LenSent ==
  ASSUME Typed
  PROVE  IsFiniteSet(ToSet(sent)) /\ Cardinality(ToSet(sent)) = Len(sent)
<1>1. sent \in Seq(Span) /\ IsInjective(sent) /\ Len(sent) \in Nat
  BY DEF Typed, InjectionTypeOK
<1>2. sent \in Injection(1..Len(sent), ToSet(sent))
  BY <1>1 DEF Injection, IsInjective, ToSet
<1>3. sent \in Surjection(1..Len(sent), ToSet(sent))
  BY <1>1 DEF Surjection, ToSet
<1>4. ExistsBijection(1..Len(sent), ToSet(sent))
  BY <1>2, <1>3 DEF ExistsBijection, Bijection
<1>5. IsFiniteSet(1..Len(sent)) /\ Cardinality(1..Len(sent)) = Len(sent)
  BY <1>1, FS_Interval
<1> QED BY <1>4, <1>5, FS_Bijection

LEMMA NextRemembers == Typed /\ Remembers /\ [Next]_vars => Remembers'
<1> SUFFICES ASSUME Typed, Remembers, [Next]_vars
             PROVE  Remembers'
  OBVIOUS
<1>1. ASSUME NEW r \in Request, Render(r)
      PROVE  Remembers'
  <2>1. PICK inlined \in SUBSET {s \in Span : ~InContext(s)} :
          /\ sent' = Appended(sent, inlined)
          /\ inlinedOnce' = inlinedOnce \cup inlined
    BY <1>1, RenderMoves
  <2>2. inlined \in SUBSET Span
    OBVIOUS
  <2>3. /\ ToSet(sent') \subseteq ToSet(sent) \cup inlined
        /\ Len(sent) + Cardinality(inlined \ ToSet(sent)) <= MaxSent
             => ToSet(sent') = ToSet(sent) \cup inlined
    BY <2>1, <2>2, MarkSent, InjectionAssumption DEF Typed, InjectionTypeOK
  <2>4. /\ IsFiniteSet(Span) /\ MaxSent \in Nat /\ inlinedOnce \subseteq Span
        /\ ToSet(sent) \subseteq Span
    BY InjectionAssumption DEF Typed, InjectionTypeOK, Remembers
  <2>5. ASSUME Cardinality(inlinedOnce \cup inlined) <= MaxSent
        PROVE  inlinedOnce \cup inlined \subseteq ToSet(sent')
    <3> DEFINE old == ToSet(sent)
               new == inlined \ ToSet(sent)
    <3>1. /\ IsFiniteSet(inlinedOnce \cup inlined) /\ IsFiniteSet(inlinedOnce)
          /\ IsFiniteSet(old) /\ IsFiniteSet(new)
      BY <2>2, <2>4, FS_Subset
    <3>2. /\ Cardinality(inlinedOnce) <= Cardinality(inlinedOnce \cup inlined)
          /\ Cardinality(inlinedOnce) \in Nat
          /\ Cardinality(inlinedOnce \cup inlined) \in Nat
      BY <3>1, FS_Subset, FS_CardinalityType
    <3>3. inlinedOnce = old
      BY <2>4, <2>5, <3>2 DEF Remembers
    <3>4. old \cap new = {} /\ inlinedOnce \cup inlined = old \cup new
      BY <3>3
    <3>5. Cardinality(old \cup new)
            = Cardinality(old) + Cardinality(new) - Cardinality(old \cap new)
      BY <3>1, FS_Union
    <3>6. Cardinality(old \cap new) = 0
      BY <3>4, FS_EmptySet
    <3>7. /\ Cardinality(old) \in Nat /\ Cardinality(new) \in Nat
          /\ Cardinality(old) = Len(sent)
      BY <3>1, LenSent, FS_CardinalityType
    <3>8. Len(sent) + Cardinality(new) <= MaxSent
      <4>1. Cardinality(old \cup new) <= MaxSent
        BY <2>5, <3>4
      <4>2. Cardinality(old \cup new) = Len(sent) + Cardinality(new)
        BY <3>5, <3>6, <3>7
      <4> QED BY <4>1, <4>2
    <3> QED BY <2>3, <3>3, <3>8
  <2> QED
    BY <2>1, <2>3, <2>5 DEF Remembers
<1>2. ASSUME sent' = <<>>, inlinedOnce' = {}
      PROVE  Remembers'
  BY <1>2 DEF Remembers, ToSet
<1>3. ASSUME Reset \/ Forget
      PROVE  Remembers'
  BY <1>2, <1>3 DEF Reset, Forget
<1>4. ASSUME sent' = sent, inlinedOnce' = inlinedOnce
      PROVE  Remembers'
  BY <1>4 DEF Remembers
<1>5. ASSUME NEW p \in Path,
             Edit(p) \/ Reindex(p) \/ NoteRead(p) \/ Read(p) \/ ReadFails(p)
      PROVE  Remembers'
  BY <1>4, <1>5 DEF Edit, Reindex, NoteRead, Read, ReadFails, session
<1>6. ASSUME NEW r \in Request, Prompt(r) \/ Deliver(r) \/ HookGone(r)
      PROVE  Remembers'
  BY <1>4, <1>6 DEF Prompt, Deliver, HookGone, session
<1>7. ASSUME Compact \/ LoseReset \/ UNCHANGED vars
      PROVE  Remembers'
  BY <1>4, <1>7 DEF Compact, LoseReset, vars, session
<1> QED
  BY <1>1, <1>3, <1>5, <1>6, <1>7 DEF Next

(* However prompts overlap, a reply inlines no line that was inlined       *)
(* before, until the session is reset or has sent more than MAX_SENT       *)
(* spans (daemon.rs, render: "concurrent prompts cannot both send the same *)
(* span").                                                                 *)
THEOREM InlinedOnce == Spec => NothingInlinedTwice
<1> DEFINE Anew(r) ==
      Render(r) /\ Cardinality(inlinedOnce) <= MaxSent =>
        \A b \in req'[r].full, t \in inlinedOnce : <<b[1], t>> \notin Overlap
<1>1. Init => Remembers
  BY DEF Init, Remembers, ToSet
<1>2. ASSUME Typed, Remembers
      PROVE  \A r \in Request : Anew(r)
  <2>1. SUFFICES ASSUME NEW r \in Request, Render(r), Cardinality(inlinedOnce) <= MaxSent,
                        NEW b \in req'[r].full, NEW t \in inlinedOnce
                 PROVE  <<b[1], t>> \notin Overlap
    OBVIOUS
  <2>2. PICK inlined \in SUBSET {s \in Span : ~InContext(s)} :
          req'[r].full = DiskBlocks(inlined)
    BY <1>2, <2>1, RenderMoves
  <2>3. b[1] \in Span /\ ~InContext(b[1])
    BY <2>1, <2>2 DEF DiskBlocks
  <2>4. t \in ToSet(sent)
    BY <1>2, <2>1 DEF Remembers
  <2> QED
    BY <2>3, <2>4 DEF InContext
<1>3. Typed /\ Remembers => [\A r \in Request : Anew(r)]_vars
  BY <1>2
<1> QED
  BY <1>1, <1>3, InitTyped, NextTyped, NextRemembers, PTL DEF Spec, NothingInlinedTwice

-----------------------------------------------------------------------------
\* The working set.  A finite set of scored spans:
Scored(A) ==
  /\ IsFiniteSet(A)
  /\ \A x \in A : x = [span |-> x.span, score |-> x.score] /\ x.score \in Int

\* Every span of A is among the best of each, with a score no worse: of those
\* above it, take one that has the fewest above itself.
LEMMA SomeBest ==
  ASSUME NEW A, Scored(A), NEW x \in A
  PROVE  \E y \in BestOfEach(A) : y.span = x.span /\ y.score >= x.score
<1> DEFINE Above(y) == {z \in A : z.span = y.span /\ z.score > y.score}
           T == {Above(y) : y \in {z \in A : z.span = x.span /\ z.score >= x.score}}
<1>1. T \subseteq FiniteSubsetsOf(A)
  BY FS_Subset DEF FiniteSubsetsOf, Scored
<1>2. Above(x) \in T
  BY DEF Scored
<1>3. PICK U \in T : \A V \in T : <<V, U>> \notin StrictSubsetOrdering(A)
  <2> HIDE DEF T
  <2>1. IsWellFoundedOn(StrictSubsetOrdering(A), FiniteSubsetsOf(A))
    BY FS_StrictSubsetOrderingWellFounded
  <2>2. T # {}
    BY <1>2
  <2>3. QED
    BY <1>1, <2>1, <2>2, WFMin
<1>4. PICK y \in A : U = Above(y) /\ y.span = x.span /\ y.score >= x.score
  OBVIOUS
<1>5. ASSUME NEW z \in U PROVE FALSE
  <2>1. z \in A /\ z.span = y.span /\ z.score > y.score
    BY <1>4
  <2>2. Above(z) \in T
    <3>1. z.score >= x.score /\ z.span = x.span
      BY <1>4, <2>1 DEF Scored
    <3>2. QED
      BY <2>1, <3>1
  <2>3. Above(z) \subseteq U /\ z \notin Above(z) /\ Above(z) \subseteq A /\ U \subseteq A
    BY <1>4, <2>1 DEF Scored
  <2>4. <<Above(z), U>> \in StrictSubsetOrdering(A)
    BY <2>3 DEF StrictSubsetOrdering
  <2>5. QED
    BY <1>3, <2>2, <2>4
<1>6. y \in BestOfEach(A)
  BY <1>4, <1>5 DEF BestOfEach, Scored
<1>7. QED
  BY <1>4, <1>6

\* ... and each span only once.
LEMMA BestOnce ==
  ASSUME NEW A, Scored(A), NEW x \in BestOfEach(A), NEW y \in BestOfEach(A), x.span = y.span
  PROVE  x = y
<1>1. x.score <= y.score /\ y.score <= x.score /\ x.score \in Int /\ y.score \in Int
  BY DEF BestOfEach, Scored
<1>2. x = [span |-> x.span, score |-> x.score] /\ y = [span |-> y.span, score |-> y.score]
  BY DEF BestOfEach, Scored
<1>3. x.score = y.score
  BY <1>1
<1>4. QED
  BY <1>2, <1>3

\* The best of what the working set kept and of a new result are the best of
\* everything: what was dropped was no better than all of the full set.
LEMMA BestMerges ==
  ASSUME NEW K, Scored(K), NEW R, Scored(R), NEW W \in BestOf(BestOfEach(K)),
         NEW V \in BestOf(Merged(W, R))
  PROVE  V \in BestOf(BestOfEach(K \cup R))
<1> DEFINE P == BestOfEach(K)
           Q == BestOfEach(W \cup R)
           S == BestOfEach(K \cup R)
           n == MaxWorking
<1>1. n \in Nat
  BY TopicsAssumption
<1>2. P \subseteq K /\ W \subseteq P /\ Q \subseteq W \cup R /\ S \subseteq K \cup R /\ V \subseteq Q
  BY DEF BestOf, BestOfEach, Merged
<1>3. Scored(K \cup R) /\ Scored(W \cup R) /\ Scored(W)
  <2>1. IsFiniteSet(K \cup R)
    BY FS_Union DEF Scored
  <2>2. IsFiniteSet(W) /\ IsFiniteSet(W \cup R)
    BY <1>2, <2>1, FS_Subset DEF Scored
  <2>3. QED
    BY <1>2, <2>1, <2>2 DEF Scored
<1>4. IsFiniteSet(P) /\ IsFiniteSet(W) /\ IsFiniteSet(Q) /\ IsFiniteSet(S) /\ IsFiniteSet(V)
  BY <1>2, <1>3, FS_Subset DEF Scored
<1>5. /\ Cardinality(W) = IF Cardinality(P) < n THEN Cardinality(P) ELSE n
      /\ \A x \in W, y \in P \ W : x.score >= y.score
      /\ Cardinality(V) = IF Cardinality(Q) < n THEN Cardinality(Q) ELSE n
      /\ \A x \in V, y \in Q \ V : x.score >= y.score
  BY DEF BestOf, Merged
<1>6. /\ Cardinality(P) \in Nat /\ Cardinality(W) \in Nat /\ Cardinality(Q) \in Nat
      /\ Cardinality(S) \in Nat /\ Cardinality(V) \in Nat
  BY <1>4, FS_CardinalityType
<1>7. \A x \in K \cup R : x.score \in Int
  BY <1>3 DEF Scored
<1> HIDE DEF n, P, Q, S
<1>8. ASSUME NEW x \in P \ W PROVE Cardinality(W) = n
  <2>1. Cardinality(W) # Cardinality(P)
    BY <1>2, <1>4, <1>8, FS_Subset
  <2>2. QED
    BY <1>5, <1>6, <2>1
<1>9. ASSUME NEW x \in S \ Q PROVE x \in P \ W
  <2>1. x \in K \cup R /\ \A y \in K \cup R : y.span = x.span => y.score <= x.score
    BY <1>9 DEF S, BestOfEach
  <2>2. x \notin W \cup R
    BY <1>2, <1>9, <2>1 DEF Q, BestOfEach
  <2>3. QED
    BY <2>1, <2>2 DEF P, BestOfEach
<1>10. ASSUME NEW y \in Q \ S PROVE \E x \in P \ W : x.score > y.score
  <2>1. y \in W \cup R /\ \A z \in W \cup R : z.span = y.span => z.score <= y.score
    BY <1>10 DEF Q, BestOfEach
  <2>2. PICK z \in K \cup R : z.span = y.span /\ ~(z.score <= y.score)
    BY <1>2, <1>10, <2>1 DEF S, BestOfEach
  <2>3. z \in K
    BY <2>1, <2>2
  <2>4. PICK x \in P : x.span = z.span /\ x.score >= z.score
    BY <2>3, SomeBest DEF P
  <2>5. y.score \in Int /\ z.score \in Int /\ x.score \in Int
    BY <1>2, <1>7, <2>1, <2>2, <2>4
  <2>6. x.score > y.score
    BY <2>2, <2>4, <2>5
  <2>7. x \notin W
    BY <2>1, <2>2, <2>4, <2>5, <2>6
  <2>8. QED
    BY <2>6, <2>7
\* A full set keeps its worst score.
<1>11. ASSUME Cardinality(W) = n, NEW t \in Int, \A w \in W : w.score >= t
       PROVE  Cardinality(V) = n /\ \A v \in V : v.score >= t
  <2> DEFINE H == {q \in Q : q.score >= t}
             best == [w \in W |-> CHOOSE q \in Q : q.span = w.span /\ q.score >= w.score]
  <2>1. \A w \in W : best[w] \in Q /\ best[w].span = w.span /\ best[w].score >= w.score
    <3> SUFFICES ASSUME NEW w \in W PROVE \E q \in Q : q.span = w.span /\ q.score >= w.score
      OBVIOUS
    <3>1. QED
      BY <1>3, SomeBest DEF Q
  <2> HIDE DEF best
  <2>2. best \in [W -> H]
    <3>1. \A w \in W : best[w] \in H
      BY <1>2, <1>7, <1>11, <2>1
    <3>2. best = [w \in W |-> best[w]]
      BY DEF best
    <3>3. QED
      BY <3>1, <3>2
  <2>3. ASSUME NEW w \in W, NEW u \in W, best[w] = best[u] PROVE w = u
    <3>1. w.span = u.span
      BY <2>1, <2>3
    <3>2. QED
      BY <1>2, <3>1, BestOnce DEF P
  <2>4. IsFiniteSet(H) /\ Cardinality(H) \in Nat /\ Cardinality(H) <= Cardinality(Q)
    BY <1>4, FS_Subset, FS_CardinalityType
  <2>5. Cardinality(H) >= n
    <3>1. ~(Cardinality(H) < Cardinality(W))
      BY <1>4, <2>2, <2>3, <2>4, FS_PigeonHole
    <3>2. QED
      BY <1>1, <1>11, <2>4, <3>1
  <2>6. Cardinality(V) = n
    BY <1>1, <1>5, <1>6, <2>4, <2>5
  <2>7. ASSUME NEW v \in V, ~(v.score >= t) PROVE FALSE
    <3>1. H \subseteq V
      <4> SUFFICES ASSUME NEW q \in H, q \notin V PROVE FALSE
        OBVIOUS
      <4>1. v.score >= q.score /\ q.score \in Int /\ v.score \in Int
        BY <1>2, <1>5, <1>7
      <4>2. QED
        BY <2>7, <4>1
    <3>2. H \subseteq V \ {v}
      BY <2>7, <3>1
    <3>3. IsFiniteSet(V \ {v}) /\ Cardinality(V \ {v}) = Cardinality(V) - 1
      BY <1>4, FS_RemoveElement
    <3>4. Cardinality(H) <= Cardinality(V \ {v})
      BY <3>2, <3>3, FS_Subset
    <3>5. QED
      BY <1>1, <2>4, <2>5, <2>6, <3>3, <3>4
  <2>8. QED
    BY <2>6, <2>7
<1>12. ASSUME NEW x \in P \ W PROVE Cardinality(V) = n /\ \A v \in V : v.score >= x.score
  BY <1>2, <1>5, <1>7, <1>8, <1>11, <1>12
<1>13. V \subseteq S
  <2> SUFFICES ASSUME NEW v \in V, v \notin S PROVE FALSE
    OBVIOUS
  <2>1. PICK x \in P \ W : x.score > v.score
    BY <1>2, <1>10
  <2>2. v.score >= x.score /\ v.score \in Int /\ x.score \in Int
    BY <1>2, <1>7, <1>12
  <2>3. QED
    BY <2>1, <2>2
<1>14. \A v \in V, s \in S \ V : v.score >= s.score
  BY <1>5, <1>9, <1>12
<1>15. Cardinality(V) = IF Cardinality(S) < n THEN Cardinality(S) ELSE n
  <2>1. CASE S = Q
    BY <1>5, <2>1
  <2>2. CASE S # Q
    <3>1. Cardinality(V) = n
      BY <1>9, <1>10, <1>12, <2>2
    <3>2. Cardinality(V) <= Cardinality(S)
      BY <1>4, <1>13, FS_Subset
    <3>3. QED
      BY <1>1, <1>6, <3>1, <3>2
  <2>3. QED
    BY <2>1, <2>2
<1>16. QED
  BY <1>13, <1>14, <1>15 DEF BestOf, n, S

-----------------------------------------------------------------------------

\* The table of sessions: rows of different sessions, at most MaxSessions.
Entry == [id : Sessions, topic : Prompts \cup {Nothing}, last : Results \cup {Nothing},
          working : SUBSET UNION Results]
TableOK(rows) ==
  /\ rows \in Seq(Entry) /\ Len(rows) <= MaxSessions
  /\ \A i, j \in 1..Len(rows) : rows[i].id = rows[j].id => i = j

LEMMA RowOf ==
  ASSUME TableOK(table), NEW i \in 1..Len(table)
  PROVE  /\ InTable(table[i].id) /\ Row(table[i].id) = i
         /\ Got(table[i].id) = table[i]
<1> DEFINE s == table[i].id
<1>1. InTable(s)
  BY DEF InTable, TableOK
<1>2. Row(s) \in DOMAIN table /\ table[Row(s)].id = s
  BY <1>1 DEF InTable, Row
<1>3. Row(s) = i
  BY <1>2 DEF TableOK
<1>4. QED
  BY <1>1, <1>3 DEF Got

\* A table without one of its rows is a table.
Drops(o, rows, k) ==
  /\ o \in Seq(Entry) /\ Len(o) = Len(rows) - 1
  /\ \A j \in 1..(k - 1) : o[j] = rows[j]
  /\ \A j \in 1..(Len(rows) - k) : o[(k - 1) + j] = rows[k + j]

LEMMA Without ==
  ASSUME NEW rows, TableOK(rows), NEW k \in 1..Len(rows), NEW o, Drops(o, rows, k)
  PROVE  /\ TableOK(o) /\ Len(o) < MaxSessions
         /\ \A j \in 1..Len(o) :
              o[j].id # rows[k].id /\ \E i \in 1..Len(rows) : o[j] = rows[i]
<1> DEFINE d(j) == IF j < k THEN j ELSE j + 1
<1>1. /\ Len(o) \in Nat /\ Len(rows) \in Nat /\ Len(rows) <= MaxSessions
      /\ MaxSessions \in Nat /\ k \in Nat /\ Len(o) = Len(rows) - 1 /\ o \in Seq(Entry)
  BY TopicsAssumption DEF TableOK, Drops
<1>2. ASSUME NEW j \in 1..Len(o)
      PROVE  d(j) \in 1..Len(rows) /\ d(j) # k /\ o[j] = rows[d(j)]
  <2>1. CASE j < k
    BY <1>1, <2>1 DEF Drops
  <2>2. CASE ~(j < k)
    <3>1. j - (k - 1) \in 1..(Len(rows) - k)
      BY <1>1, <2>2
    <3>2. o[(k - 1) + (j - (k - 1))] = rows[k + (j - (k - 1))]
      BY <3>1 DEF Drops
    <3>3. (k - 1) + (j - (k - 1)) = j /\ k + (j - (k - 1)) = j + 1 /\ j + 1 \in 1..Len(rows)
          /\ j + 1 # k
      BY <1>1, <2>2
    <3>4. d(j) = j + 1
      BY <2>2
    <3>5. o[j] = rows[j + 1]
      BY <3>2, <3>3
    <3>6. QED
      BY <3>3, <3>4, <3>5
  <2>3. QED
    BY <2>1, <2>2
<1>3. \A i, j \in 1..Len(rows) : rows[i].id = rows[j].id => i = j
  BY DEF TableOK
<1>4. \A i, j \in 1..Len(o) : d(i) = d(j) => i = j
  BY <1>1
<1> HIDE DEF d
<1>5. \A i, j \in 1..Len(o) : o[i].id = o[j].id => i = j
  BY <1>2, <1>3, <1>4
<1>6. Len(o) <= MaxSessions /\ Len(o) < MaxSessions
  BY <1>1
<1>7. \A j \in 1..Len(o) :
        o[j].id # rows[k].id /\ \E i \in 1..Len(rows) : o[j] = rows[i]
  BY <1>2, <1>3
<1>8. QED
  BY <1>1, <1>5, <1>6, <1>7 DEF TableOK

\* get keeps the other rows, except the one that it pushes out.
LEMMA OthersOK ==
  ASSUME TableOK(table), NEW s \in Sessions
  PROVE  /\ TableOK(Others(s)) /\ Len(Others(s)) < MaxSessions
         /\ \A j \in 1..Len(Others(s)) :
              /\ Others(s)[j].id # s
              /\ \E i \in 1..Len(table) : Others(s)[j] = table[i]
<1>1. PICK rows : rows = table
  OBVIOUS
<1> DEFINE n == Len(rows)
<1>2. n \in Nat /\ n <= MaxSessions /\ MaxSessions \in Nat /\ MaxSessions > 0
      /\ rows \in Seq(Entry) /\ TableOK(rows)
  BY <1>1, TopicsAssumption DEF TableOK
<1>3. CASE InTable(s)
  <2>1. PICK k \in 1..n : Row(s) = k /\ rows[k].id = s
    BY <1>1, <1>2, <1>3, RowOf DEF InTable
  <2>2. PICK a : a = SubSeq(rows, 1, k - 1)
    OBVIOUS
  <2>11. PICK b : b = SubSeq(rows, k + 1, n)
    OBVIOUS
  <2>12. PICK o : o = a \o b
    OBVIOUS
  <2>3. Others(s) = o
    BY <1>1, <1>3, <2>1, <2>2, <2>11, <2>12 DEF Others, RemoveAt
  <2>4. a \in Seq(Entry) /\ Len(a) = k - 1 /\ \A j \in 1..(k - 1) : a[j] = rows[j]
    BY <1>2, <2>1, <2>2
  <2>5. b \in Seq(Entry) /\ Len(b) = n - k /\ \A j \in 1..(n - k) : b[j] = rows[k + j]
    BY <1>2, <2>1, <2>11
  <2>6. /\ o \in Seq(Entry) /\ Len(o) = Len(a) + Len(b)
        /\ \A j \in 1..Len(a) : o[j] = a[j]
        /\ \A j \in 1..Len(b) : o[Len(a) + j] = b[j]
    <3>1. a \in Seq(Entry) /\ b \in Seq(Entry)
      BY <2>4, <2>5
    <3>2. /\ a \o b \in Seq(Entry) /\ Len(a \o b) = Len(a) + Len(b)
          /\ \A j \in 1..Len(a) : (a \o b)[j] = a[j]
          /\ \A j \in 1..Len(b) : (a \o b)[Len(a) + j] = b[j]
      BY <3>1
    <3>3. QED
      BY <2>12, <3>2
  <2>7. Len(o) = n - 1
    BY <1>2, <2>1, <2>4, <2>5, <2>6
  <2>8. \A j \in 1..(k - 1) : o[j] = rows[j]
    BY <2>4, <2>6
  <2>9. \A j \in 1..(n - k) : o[(k - 1) + j] = rows[k + j]
    BY <2>4, <2>5, <2>6
  <2>10. QED
    <3>3. Drops(o, rows, k)
      BY <2>6, <2>7, <2>8, <2>9 DEF Drops
    <3>1. /\ TableOK(o) /\ Len(o) < MaxSessions
          /\ \A j \in 1..Len(o) : o[j].id # rows[k].id /\ \E i \in 1..n : o[j] = rows[i]
      BY <1>2, <2>1, <3>3, Without
    <3>2. QED
      BY <1>1, <2>1, <2>3, <3>1
<1>4. CASE ~InTable(s) /\ n < MaxSessions
  BY <1>1, <1>2, <1>4 DEF Others, InTable, TableOK
<1>5. CASE ~InTable(s) /\ ~(n < MaxSessions)
  <2>1. PICK o : o = Tail(rows)
    OBVIOUS
  <2>2. Others(s) = o /\ rows # <<>> /\ 1 \in 1..n
    BY <1>1, <1>2, <1>5, <2>1 DEF Others
  <2>3. o \in Seq(Entry) /\ Len(o) = n - 1 /\ \A j \in 1..(n - 1) : o[j] = rows[1 + j]
    BY <1>2, <2>1, <2>2
  <2>4. Drops(o, rows, 1)
    BY <2>3 DEF Drops
  <2>6. /\ TableOK(o) /\ Len(o) < MaxSessions
        /\ \A j \in 1..Len(o) : \E i \in 1..n : o[j] = rows[i]
    BY <1>2, <2>2, <2>4, Without
  <2>7. \A i \in 1..n : rows[i].id # s
    BY <1>1, <1>2, <1>5 DEF InTable
  <2>8. QED
    BY <1>1, <2>2, <2>6, <2>7
<1>6. QED
  BY <1>3, <1>4, <1>5

\* The table after it: the session has the row e, every other row is as it was,
\* and what had a row and has none was pushed out.
LEMMA PutOK ==
  ASSUME TableOK(table), NEW s \in Sessions, NEW e \in Entry, e.id = s, Put(s, e)
  PROVE  /\ TableOK(table')
         /\ \A j \in 1..Len(table') :
              table'[j] = e \/ (table'[j].id # s /\ \E i \in 1..Len(table) : table'[j] = table[i])
         /\ \E j \in 1..Len(table') : table'[j] = e
         /\ s \notin Out(s) /\ \A j \in 1..Len(table') : table'[j].id \notin Out(s)
         /\ \A i \in 1..Len(table) :
              \/ table[i].id \in Out(s) \cup {s}
              \/ \E j \in 1..Len(table') : table'[j] = table[i]
<1> DEFINE o == Others(s)
<1>1. /\ o \in Seq(Entry) /\ Len(o) \in Nat /\ Len(o) < MaxSessions
      /\ \A i, j \in 1..Len(o) : o[i].id = o[j].id => i = j
      /\ \A j \in 1..Len(o) : o[j].id # s /\ \E i \in 1..Len(table) : o[j] = table[i]
  BY OthersOK DEF TableOK
<1>2. table' = Append(o, e)
  BY DEF Put
<1> HIDE DEF o
<1>3. /\ table' \in Seq(Entry) /\ Len(table') = Len(o) + 1
      /\ table'[Len(o) + 1] = e /\ \A j \in 1..Len(o) : table'[j] = o[j]
  BY <1>1, <1>2
<1>4. \A j \in 1..Len(table') : j = Len(o) + 1 \/ j \in 1..Len(o)
  BY <1>1, <1>3
<1>5. TableOK(table')
  <2>1. Len(table') <= MaxSessions
    BY <1>1, <1>3, TopicsAssumption
  <2>2. ASSUME NEW i \in 1..Len(table'), NEW j \in 1..Len(table'), table'[i].id = table'[j].id
        PROVE  i = j
    BY <1>1, <1>3, <1>4, <2>2
  <2>3. QED
    BY <1>3, <2>1, <2>2 DEF TableOK
<1>6. \A j \in 1..Len(table') :
        table'[j] = e \/ (table'[j].id # s /\ \E i \in 1..Len(table) : table'[j] = table[i])
  BY <1>1, <1>3, <1>4
<1>7. ASSUME NEW i \in 1..Len(table), table[i].id \notin Out(s), table[i].id # s
      PROVE  \E j \in 1..Len(table') : table'[j] = table[i]
  <2>1. table[i].id \in Sessions /\ DOMAIN o = 1..Len(o)
    <3>1. table[i] \in Entry
      BY DEF TableOK
    <3>2. QED
      BY <1>1, <3>1 DEF Entry
  <2>2. PICK j \in 1..Len(o) : o[j].id = table[i].id
    BY <1>7, <2>1, RowOf DEF Out, o
  <2>3. PICK k \in 1..Len(table) : o[j] = table[k]
    BY <1>1
  <2>4. k = i
    BY <2>2, <2>3 DEF TableOK
  <2>5. QED
    BY <1>1, <1>3, <2>3, <2>4
<1>9. ASSUME NEW j \in 1..Len(o), o[j].id \in Out(s) PROVE FALSE
  <2>1. j \in DOMAIN o
    BY <1>1
  <2>2. PICK t : t = o[j].id
    OBVIOUS
  <2>3. \A i \in DOMAIN o : o[i].id # t
    BY <1>9, <2>2 DEF Out, o
  <2>4. QED
    BY <2>1, <2>2, <2>3
<1>10. s \notin Out(s)
  BY DEF Out
<1>8. QED
  BY <1>1, <1>3, <1>4, <1>5, <1>6, <1>7, <1>9, <1>10

-----------------------------------------------------------------------------
\* Topics: the invariant.  T is the set of sessions that have a topic.
Topical == {t \in Sessions : \E i \in 1..Len(table) : table[i].id = t /\ table[i].topic # Nothing}

Phases == {"idle", "judge", "retrieve", "record", "reply"}
\* What was judged a follow-up still is one, of a session that still has a
\* topic, or that was pushed out; and so it was retrieved as the topic.
AskOK(q, T) ==
  /\ q = [phase |-> q.phase, session |-> q.session, prompt |-> q.prompt, follow |-> q.follow,
          topic |-> q.topic, named |-> q.named, terms |-> q.terms, starts |-> q.starts,
          forgotten |-> q.forgotten]
  /\ q.phase \in Phases
  /\ q.phase # "idle" => q.session \in Sessions \cup {NoSession} /\ q.prompt \in Prompts
  /\ q.phase = "retrieve" /\ q.follow # Nothing /\ ~q.forgotten =>
       q.session \in T /\ IsFollowUp(q.prompt) /\ ~NamesCode(q.prompt)
  /\ q.phase \in {"record", "reply"} /\ q.follow # Nothing /\ ~q.forgotten =>
       ~q.starts /\ q.named = {} /\ q.terms = Focus(q.topic)

AsksOK == ask = [a \in Asker |-> ask[a]] /\ \A a \in Asker : AskOK(ask[a], Topical)

\* What is known of a session is of its time in the table, and its working set
\* has the best of it.
KnownOK ==
  /\ known = [t \in Sessions |-> known[t]]
  /\ \A t \in Sessions : Scored(known[t])
       /\ (known[t] # {} => \E i \in 1..Len(table) : table[i].id = t)
  /\ \A i \in 1..Len(table) : table[i].working \in BestOf(BestOfEach(known[table[i].id]))

TopicsInv == TableOK(table) /\ AsksOK /\ KnownOK

LEMMA Forgets ==
  ASSUME NEW q, NEW T, NEW U, NEW O, AskOK(q, T), T \ O \subseteq U
  PROVE  AskOK(IF q.session \in O THEN [q EXCEPT !.forgotten = TRUE] ELSE q, U)
<1>1. CASE q.session \in O
  <2>1. PICK r : r = [q EXCEPT !.forgotten = TRUE]
    OBVIOUS
  <2>2. q = [phase |-> q.phase, session |-> q.session, prompt |-> q.prompt, follow |-> q.follow,
             topic |-> q.topic, named |-> q.named, terms |-> q.terms, starts |-> q.starts,
             forgotten |-> q.forgotten]
    BY DEF AskOK
  <2>3. r = [phase |-> q.phase, session |-> q.session, prompt |-> q.prompt, follow |-> q.follow,
             topic |-> q.topic, named |-> q.named, terms |-> q.terms, starts |-> q.starts,
             forgotten |-> TRUE]
    BY <2>1, <2>2
  <2>4. AskOK(r, U)
    BY <2>3 DEF AskOK
  <2>5. QED
    BY <1>1, <2>1, <2>4
<1>2. CASE q.session \notin O
  <2>1. AskOK(q, U)
    BY <1>2 DEF AskOK
  <2>2. QED
    BY <1>2, <2>1
<1>3. QED
  BY <1>1, <1>2

\* The row of a session, and what a new one has.
LEMMA GotOK ==
  ASSUME TopicsInv, NEW s \in Sessions
  PROVE  /\ Got(s) \in Entry /\ Got(s).id = s
         /\ Got(s).working \in BestOf(BestOfEach(known[s]))
         /\ s \in Topical <=> Got(s).topic # Nothing
<1>1. CASE InTable(s)
  <2>1. PICK i \in 1..Len(table) : table[i].id = s
    BY <1>1 DEF InTable, TopicsInv, TableOK
  <2>2. Got(s) = table[i] /\ table[i] \in Entry
    BY <2>1, RowOf DEF TopicsInv, TableOK
  <2>3. \A j \in 1..Len(table) : table[j].id = s => j = i
    BY <2>1 DEF TopicsInv, TableOK
  <2>4. s \in Topical <=> table[i].topic # Nothing
    BY <2>1, <2>3 DEF Topical
  <2>5. QED
    BY <2>1, <2>2, <2>4 DEF TopicsInv, KnownOK
<1>2. CASE ~InTable(s)
  <2>1. PICK e : e = Fresh(s)
    OBVIOUS
  <2>2. e = [id |-> s, topic |-> Nothing, last |-> Nothing, working |-> {}]
    BY <2>1 DEF Fresh
  <2>3. e \in Entry /\ e.id = s /\ e.working = {} /\ e.topic = Nothing
    BY <2>2 DEF Entry
  <2>4. \A i \in 1..Len(table) : table[i].id # s
    BY <1>2 DEF InTable, TopicsInv, TableOK
  <2>5. known[s] = {}
    BY <2>4 DEF TopicsInv, KnownOK
  <2>6. {} \in BestOf(BestOfEach({}))
    <3>1. BestOfEach({}) = {} /\ Cardinality({}) = 0 /\ 0 < MaxWorking
      BY FS_EmptySet, TopicsAssumption DEF BestOfEach
    <3>2. QED
      BY <3>1 DEF BestOf
  <2>7. Got(s) = e /\ s \notin Topical
    BY <1>2, <2>1, <2>4 DEF Got, Topical
  <2>8. QED
    BY <2>3, <2>5, <2>6, <2>7
<1>3. QED
  BY <1>1, <1>2

\* Every step that touches a session: its new row has the best of what is known
\* of it with more, and loses no topic.
LEMMA Touches ==
  ASSUME TopicsInv, NEW s \in Sessions, NEW e \in Entry, NEW more,
         e.id = s, s \in Topical => e.topic # Nothing,
         Scored(more), e.working \in BestOf(BestOfEach(known[s] \cup more)),
         Put(s, e), known' = Known(s, more)
  PROVE  TableOK(table') /\ KnownOK' /\ Topical \ Out(s) \subseteq Topical'
<1>1. /\ TableOK(table')
      /\ \A j \in 1..Len(table') :
           table'[j] = e \/ (table'[j].id # s /\ \E i \in 1..Len(table) : table'[j] = table[i])
      /\ \E j \in 1..Len(table') : table'[j] = e
      /\ s \notin Out(s) /\ \A j \in 1..Len(table') : table'[j].id \notin Out(s)
      /\ \A i \in 1..Len(table) :
           \/ table[i].id \in Out(s) \cup {s}
           \/ \E j \in 1..Len(table') : table'[j] = table[i]
  BY PutOK DEF TopicsInv
<1>2. Topical \ Out(s) \subseteq Topical'
  <2> SUFFICES ASSUME NEW t \in Topical, t \notin Out(s)
               PROVE  \E j \in 1..Len(table') : table'[j].id = t /\ table'[j].topic # Nothing
    BY DEF Topical
  <2>1. CASE t = s
    BY <1>1, <2>1
  <2>2. CASE t # s
    <3>1. PICK i \in 1..Len(table) : table[i].id = t /\ table[i].topic # Nothing
      BY DEF Topical
    <3>2. table[i].id \notin Out(s) \cup {s}
      BY <2>2, <3>1
    <3>3. PICK j \in 1..Len(table') : table'[j] = table[i]
      BY <1>1, <3>2
    <3>4. QED
      BY <3>1, <3>3
  <2>3. QED
    BY <2>1, <2>2
<1>3. /\ known' = [t \in Sessions |-> known'[t]]
      /\ known'[s] = known[s] \cup more
      /\ \A t \in Sessions : t \in Out(s) => known'[t] = {}
      /\ \A t \in Sessions : t \notin Out(s) /\ t # s => known'[t] = known[t]
  BY <1>1 DEF Known
<1>4. ASSUME NEW t \in Sessions
      PROVE  Scored(known'[t]) /\ (known'[t] # {} => \E j \in 1..Len(table') : table'[j].id = t)
  <2>1. CASE t = s
    <3>1. Scored(known[s] \cup more)
      BY FS_Union DEF Scored, TopicsInv, KnownOK
    <3>2. QED
      BY <1>1, <1>3, <2>1, <3>1
  <2>2. CASE t # s /\ t \in Out(s)
    BY <1>3, <2>2, FS_EmptySet DEF Scored
  <2>3. CASE t # s /\ t \notin Out(s)
    <3>1. known'[t] = known[t] /\ Scored(known[t])
      BY <1>3, <2>3 DEF TopicsInv, KnownOK
    <3>2. ASSUME known[t] # {} PROVE \E j \in 1..Len(table') : table'[j].id = t
      <4>1. PICK i \in 1..Len(table) : table[i].id = t
        BY <3>2 DEF TopicsInv, KnownOK
      <4>2. QED
        BY <1>1, <2>3, <4>1
    <3>3. QED
      BY <3>1, <3>2
  <2>4. QED
    BY <2>1, <2>2, <2>3
<1>5. ASSUME NEW j \in 1..Len(table')
      PROVE  table'[j].working \in BestOf(BestOfEach(known'[table'[j].id]))
  <2>1. CASE table'[j] = e
    BY <1>3, <2>1
  <2>2. CASE table'[j].id # s /\ \E i \in 1..Len(table) : table'[j] = table[i]
    <3>1. PICK i \in 1..Len(table) : table'[j] = table[i]
      BY <2>2
    <3>2. table[i].id \in Sessions /\ table[i].id \notin Out(s) /\ table[i].id # s
      <4>1. table[i] \in Entry
        BY DEF TopicsInv, TableOK
      <4>2. table'[j].id \notin Out(s)
        BY <1>1
      <4>3. QED
        BY <2>2, <3>1, <4>1, <4>2 DEF Entry
    <3>3. known'[table[i].id] = known[table[i].id]
      BY <1>3, <3>2
    <3>4. QED
      BY <3>1, <3>3 DEF TopicsInv, KnownOK
  <2>3. QED
    BY <1>1, <2>1, <2>2
<1>6. KnownOK'
  BY <1>3, <1>4, <1>5 DEF KnownOK
<1>7. QED
  BY <1>1, <1>2, <1>6

\* ... and what the queries then remember.
LEMMA AllForget ==
  ASSUME NEW asks, asks = [a \in Asker |-> asks[a]], \A a \in Asker : AskOK(asks[a], Topical),
         NEW s \in Sessions, Topical \ Out(s) \subseteq Topical', ask' = Forgotten(s, asks)
  PROVE  AsksOK'
<1>1. PICK T, U, O : T = Topical /\ U = Topical' /\ O = Out(s)
  OBVIOUS
<1>2. ask' = [a \in Asker |->
                IF asks[a].session \in O THEN [asks[a] EXCEPT !.forgotten = TRUE] ELSE asks[a]]
  BY <1>1 DEF Forgotten
<1>3. ASSUME NEW a \in Asker PROVE AskOK(ask'[a], U)
  <2>1. PICK q : q = asks[a]
    OBVIOUS
  <2>2. AskOK(IF q.session \in O THEN [q EXCEPT !.forgotten = TRUE] ELSE q, U)
    BY <1>1, <2>1, Forgets
  <2>3. QED
    BY <1>2, <2>1, <2>2
<1>4. ask' = [a \in Asker |-> ask'[a]]
  BY <1>2
<1>5. QED
  BY <1>1, <1>3, <1>4 DEF AsksOK

\* A query's own step, before the table changes.
OneSet(asks, a, q) == asks = [ask EXCEPT ![a] = q]

LEMMA OneAsks ==
  ASSUME TopicsInv, NEW a \in Asker, NEW q, AskOK(q, Topical),
         NEW asks, OneSet(asks, a, q)
  PROVE  asks = [b \in Asker |-> asks[b]] /\ \A b \in Asker : AskOK(asks[b], Topical)
<1>1. asks = [b \in Asker |-> IF b = a THEN q ELSE ask[b]]
  <2>1. ask = [b \in Asker |-> ask[b]]
    BY DEF TopicsInv, AsksOK
  <2>2. QED
    BY <2>1 DEF OneSet
<1>2. asks = [b \in Asker |-> asks[b]]
  BY <1>1
<1>3. ASSUME NEW b \in Asker PROVE AskOK(asks[b], Topical)
  <2>1. CASE b = a
    BY <1>1, <2>1
  <2>2. CASE b # a
    BY <1>1, <2>2 DEF TopicsInv, AsksOK
  <2>3. QED
    BY <2>1, <2>2
<1>4. QED
  BY <1>2, <1>3

\* A step that leaves the table alone.
LEMMA OnlyAsks ==
  ASSUME TopicsInv, NEW a \in Asker, NEW q, AskOK(q, Topical),
         ask' = [ask EXCEPT ![a] = q], UNCHANGED <<table, known>>
  PROVE  TopicsInv'
<1>1. PICK asks : asks = [ask EXCEPT ![a] = q]
  OBVIOUS
<1>2. asks = [b \in Asker |-> asks[b]] /\ \A b \in Asker : AskOK(asks[b], Topical)
  <2>1. OneSet(asks, a, q)
    BY <1>1 DEF OneSet
  <2>2. QED
    BY <2>1, OneAsks
<1>3. Topical' = Topical /\ KnownOK' /\ TableOK(table')
  BY DEF TopicsInv, KnownOK, Topical
<1>4. AsksOK'
  BY <1>1, <1>2, <1>3 DEF AsksOK
<1>5. QED
  BY <1>3, <1>4 DEF TopicsInv

LEMMA IdleOK == \A T : AskOK(NoAsk, T)
  BY DEF NoAsk, AskOK, Phases

LEMMA Nobody == Scored({})
  BY FS_EmptySet DEF Scored

\* The bare topic is its own focus.
LEMMA BareTopic ==
  ASSUME NEW p \in Prompts
  PROVE  QueryTerms(p, {}) = Focus(p)
<1>1. p = [task |-> p.task, wrap |-> p.wrap, quoted |-> p.quoted, code |-> p.code,
           back |-> p.back, intent |-> p.intent, skipped |-> p.skipped]
  BY TopicsAssumption
<1>2. [p EXCEPT !.task = @ \cup {}] = p
  BY <1>1
<1>3. QED
  BY <1>2 DEF QueryTerms

\* The steps that only touch the session.
LEMMA TouchOnly ==
  ASSUME TopicsInv, NEW s \in Sessions, NEW asks,
         asks = [a \in Asker |-> asks[a]], \A a \in Asker : AskOK(asks[a], Topical),
         Put(s, Got(s)), known' = Known(s, {}), ask' = Forgotten(s, asks)
  PROVE  TopicsInv'
<1>1. PICK e : e = Got(s)
  OBVIOUS
<1>2. /\ e \in Entry /\ e.id = s /\ e.working \in BestOf(BestOfEach(known[s]))
      /\ (s \in Topical => e.topic # Nothing)
  BY <1>1, GotOK
<1>3. known[s] \cup {} = known[s]
  OBVIOUS
<1>4. TableOK(table') /\ KnownOK' /\ Topical \ Out(s) \subseteq Topical'
  BY <1>1, <1>2, <1>3, Nobody, Touches
<1>5. QED
  BY <1>4, AllForget DEF TopicsInv

LEMMA AsksStep ==
  ASSUME TopicsInv, NEW a \in Asker, NEW s \in Sessions \cup {NoSession}, NEW p \in Prompts,
         Asks(a, s, p)
  PROVE  TopicsInv'
<1>1. PICK q : q = [NoAsk EXCEPT !.phase = "judge", !.session = s, !.prompt = p]
  OBVIOUS
<1>2. q = [phase |-> "judge", session |-> s, prompt |-> p, follow |-> Nothing,
           topic |-> Nothing, named |-> {}, terms |-> {}, starts |-> FALSE, forgotten |-> FALSE]
  BY <1>1 DEF NoAsk
<1>3. AskOK(q, Topical)
  BY <1>2 DEF AskOK, Phases
<1>4. ask' = [ask EXCEPT ![a] = q] /\ UNCHANGED <<table, known>>
  BY <1>1 DEF Asks
<1>5. QED
  BY <1>3, <1>4, OnlyAsks

\* A query as the record that it is.
LEMMA AskIs ==
  ASSUME TopicsInv, NEW a \in Asker
  PROVE  \E c : /\ c = ask[a] /\ AskOK(c, Topical)
                /\ c = [phase |-> c.phase, session |-> c.session, prompt |-> c.prompt,
                        follow |-> c.follow, topic |-> c.topic, named |-> c.named,
                        terms |-> c.terms, starts |-> c.starts, forgotten |-> c.forgotten]
                /\ ask = [b \in Asker |-> ask[b]]
<1>1. PICK c : c = ask[a]
  OBVIOUS
<1>2. AskOK(c, Topical) /\ ask = [b \in Asker |-> ask[b]]
  BY <1>1 DEF TopicsInv, AsksOK
<1>3. c = [phase |-> c.phase, session |-> c.session, prompt |-> c.prompt,
           follow |-> c.follow, topic |-> c.topic, named |-> c.named,
           terms |-> c.terms, starts |-> c.starts, forgotten |-> c.forgotten]
  BY <1>2 DEF AskOK
<1>4. QED
  BY <1>1, <1>2, <1>3

LEMMA JudgeStep ==
  ASSUME TopicsInv, NEW a \in Asker, Judge(a)
  PROVE  TopicsInv'
<1>1. PICK c : /\ c = ask[a] /\ AskOK(c, Topical)
               /\ c = [phase |-> c.phase, session |-> c.session, prompt |-> c.prompt,
                       follow |-> c.follow, topic |-> c.topic, named |-> c.named,
                       terms |-> c.terms, starts |-> c.starts, forgotten |-> c.forgotten]
               /\ ask = [b \in Asker |-> ask[b]]
  BY AskIs
<1>2. c.phase = "judge"
  BY <1>1 DEF Judge
<1>3. PICK f : f = IF FollowUp(c.session, c.prompt) THEN c.prompt.intent ELSE Nothing
  OBVIOUS
<1>4. PICK q : q = [c EXCEPT !.phase = "retrieve", !.follow = f]
  OBVIOUS
<1>5. q = [phase |-> "retrieve", session |-> c.session, prompt |-> c.prompt,
           follow |-> f, topic |-> c.topic, named |-> c.named,
           terms |-> c.terms, starts |-> c.starts, forgotten |-> c.forgotten]
  BY <1>1, <1>4
<1>6. c.session \in Sessions \cup {NoSession} /\ c.prompt \in Prompts
  BY <1>1, <1>2 DEF AskOK
<1>7. ASSUME f # Nothing
      PROVE  c.session \in Topical /\ IsFollowUp(c.prompt) /\ ~NamesCode(c.prompt)
  <2>1. FollowUp(c.session, c.prompt)
    BY <1>3, <1>7
  <2>2. c.session \in Sessions /\ HasTopic(c.session)
        /\ IsFollowUp(c.prompt) /\ ~NamesCode(c.prompt)
    BY <1>6, <2>1 DEF FollowUp
  <2>3. Got(c.session).topic # Nothing
    BY <2>2 DEF HasTopic, Got
  <2>4. PICK s \in Sessions : s = c.session
    BY <2>2
  <2>5. s \in Topical
    BY <2>3, <2>4, GotOK
  <2>6. QED
    BY <2>2, <2>4, <2>5
<1>8. AskOK(q, Topical)
  BY <1>5, <1>6, <1>7 DEF AskOK, Phases
<1>9. ask' = [ask EXCEPT ![a] = q]
  BY <1>1, <1>3, <1>4 DEF Judge
<1>10. QED
  BY <1>8, <1>9, OnlyAsks DEF Judge

\* What a retrieval notes in its query.
IsAsk(c) ==
  c = [phase |-> c.phase, session |-> c.session, prompt |-> c.prompt, follow |-> c.follow,
       topic |-> c.topic, named |-> c.named, terms |-> c.terms, starts |-> c.starts,
       forgotten |-> c.forgotten]
Noted(c, topic, named, terms, starts) ==
  [phase |-> "record", session |-> c.session, prompt |-> c.prompt, follow |-> c.follow,
   topic |-> topic, named |-> named, terms |-> terms, starts |-> starts,
   forgotten |-> c.forgotten]
Noting(c, topic, named, terms, starts) ==
  [c EXCEPT !.phase = "record", !.topic = topic, !.named = named, !.terms = terms,
            !.starts = starts]
NotedIn(f, a, topic, named, terms, starts) ==
  [f EXCEPT ![a].phase = "record", ![a].topic = topic, ![a].named = named,
            ![a].terms = terms, ![a].starts = starts]

LEMMA RetrievesAs ==
  ASSUME NEW c, IsAsk(c), NEW topic, NEW named, NEW terms, NEW starts
  PROVE  Noting(c, topic, named, terms, starts) = Noted(c, topic, named, terms, starts)
<1>1. PICK c1 : c1 = [c EXCEPT !.phase = "record"]
  OBVIOUS
<1>2. c1 = [phase |-> "record", session |-> c.session, prompt |-> c.prompt, follow |-> c.follow,
         topic |-> c.topic, named |-> c.named, terms |-> c.terms, starts |-> c.starts,
         forgotten |-> c.forgotten]
  BY <1>1 DEF IsAsk
<1>3. PICK c2 : c2 = [c1 EXCEPT !.topic = topic]
  OBVIOUS
<1>4. c2 = [phase |-> "record", session |-> c.session, prompt |-> c.prompt, follow |-> c.follow,
         topic |-> topic, named |-> c.named, terms |-> c.terms, starts |-> c.starts,
         forgotten |-> c.forgotten]
  BY <1>3, <1>2
<1>5. PICK c3 : c3 = [c2 EXCEPT !.named = named]
  OBVIOUS
<1>6. c3 = [phase |-> "record", session |-> c.session, prompt |-> c.prompt, follow |-> c.follow,
         topic |-> topic, named |-> named, terms |-> c.terms, starts |-> c.starts,
         forgotten |-> c.forgotten]
  BY <1>5, <1>4
<1>7. PICK c4 : c4 = [c3 EXCEPT !.terms = terms]
  OBVIOUS
<1>8. c4 = [phase |-> "record", session |-> c.session, prompt |-> c.prompt, follow |-> c.follow,
         topic |-> topic, named |-> named, terms |-> terms, starts |-> c.starts,
         forgotten |-> c.forgotten]
  BY <1>7, <1>6
<1>9. PICK c5 : c5 = [c4 EXCEPT !.starts = starts]
  OBVIOUS
<1>10. c5 = [phase |-> "record", session |-> c.session, prompt |-> c.prompt, follow |-> c.follow,
         topic |-> topic, named |-> named, terms |-> terms, starts |-> starts,
         forgotten |-> c.forgotten]
  BY <1>9, <1>8
<1>11. QED
  BY <1>1, <1>3, <1>5, <1>7, <1>9, <1>10 DEF Noted, Noting

LEMMA RetrievesIn ==
  ASSUME NEW f, NEW a \in DOMAIN f, NEW topic, NEW named, NEW terms, NEW starts,
         f = [b \in DOMAIN f |-> f[b]], IsAsk(f[a])
  PROVE  NotedIn(f, a, topic, named, terms, starts)
         = [f EXCEPT ![a] = Noted(f[a], topic, named, terms, starts)]
<1>1. NotedIn(f, a, topic, named, terms, starts)
      = [f EXCEPT ![a] = Noting(f[a], topic, named, terms, starts)]
  BY DEF NotedIn, Noting
<1>2. Noting(f[a], topic, named, terms, starts) = Noted(f[a], topic, named, terms, starts)
  BY RetrievesAs
<1>3. QED
  BY <1>1, <1>2

LEMMA RetrieveStep ==
  ASSUME TopicsInv, NEW a \in Asker, Retrieve(a)
  PROVE  TopicsInv'
<1>1. PICK c : /\ c = ask[a] /\ AskOK(c, Topical)
               /\ c = [phase |-> c.phase, session |-> c.session, prompt |-> c.prompt,
                       follow |-> c.follow, topic |-> c.topic, named |-> c.named,
                       terms |-> c.terms, starts |-> c.starts, forgotten |-> c.forgotten]
               /\ ask = [b \in Asker |-> ask[b]]
  BY AskIs
<1>2. PICK s, p : s = c.session /\ p = c.prompt
  OBVIOUS
<1>3. c.phase = "retrieve" /\ s \in Sessions \cup {NoSession} /\ p \in Prompts
  BY <1>1, <1>2 DEF Retrieve, AskOK
<1> DEFINE Retrieves(topic, named, starts) ==
             Noted(c, topic, named, QueryTerms(topic, named), starts)
           Asked(topic, named, starts) ==
             NotedIn(ask, a, topic, named, QueryTerms(topic, named), starts)
<1>4. ASSUME NEW topic, NEW named, NEW starts
      PROVE  Asked(topic, named, starts) = [ask EXCEPT ![a] = Retrieves(topic, named, starts)]
  <2>1. PICK f, terms : f = ask /\ terms = QueryTerms(topic, named)
    OBVIOUS
  <2>2. f = [b \in DOMAIN f |-> f[b]] /\ a \in DOMAIN f /\ f[a] = c /\ IsAsk(f[a])
    BY <1>1, <2>1 DEF IsAsk
  <2>3. NotedIn(f, a, topic, named, terms, starts)
        = [f EXCEPT ![a] = Noted(f[a], topic, named, terms, starts)]
    BY <2>2, RetrievesIn
  <2>4. QED
    BY <2>1, <2>2, <2>3
<1> HIDE DEF Asked, Retrieves
<1>5. CASE s = NoSession
  <2>1. PICK q : q = Retrieves(p, {}, FALSE)
    OBVIOUS
  <2>2. s \notin Topical
    BY <1>5, TopicsAssumption DEF Topical
  <2>3. AskOK(q, Topical)
    BY <1>1, <1>2, <1>3, <2>1, <2>2 DEF AskOK, Phases, Retrieves, Noted
  <2>4. ask' = Asked(p, {}, FALSE) /\ UNCHANGED <<table, known>>
    BY <1>1, <1>2, <1>5 DEF Retrieve, Asked, NotedIn
  <2>5. ask' = [ask EXCEPT ![a] = q]
    BY <1>4, <2>1, <2>4
  <2>6. QED
    BY <2>3, <2>4, <2>5, OnlyAsks
<1>6. CASE s \in Sessions
  <2>1. s # NoSession
    BY <1>6, TopicsAssumption
  <2>2. known' = Known(s, {})
    BY <1>1, <1>2, <2>1 DEF Retrieve
  <2>3. PICK g : g = Got(s)
    OBVIOUS
  <2>4. /\ g \in Entry /\ g.id = s /\ g.working \in BestOf(BestOfEach(known[s]))
        /\ (s \in Topical <=> g.topic # Nothing)
    BY <1>6, <2>3, GotOK
  <2>5. CASE g.topic # Nothing /\ IsFollowUp(p)
    <3>1. PICK topic, named : topic = g.topic /\ named = Signals(p).names
      OBVIOUS
    <3>2. PICK q, asks : q = Retrieves(topic, named, FALSE) /\ asks = Asked(topic, named, FALSE)
      OBVIOUS
    <3>3. Put(s, Got(s)) /\ ask' = Forgotten(s, asks)
      BY <1>1, <1>2, <2>1, <2>3, <2>5, <3>1, <3>2 DEF Retrieve, Asked, NotedIn
    <3>4. topic \in Prompts
      BY <2>4, <2>5, <3>1 DEF Entry
    <3>5. ASSUME c.follow # Nothing, ~c.forgotten
          PROVE  named = {} /\ QueryTerms(topic, named) = Focus(topic)
      <4>1. ~NamesCode(p)
        BY <1>1, <1>2, <1>3, <3>5 DEF AskOK
      <4>2. named = {}
        BY <3>1, <4>1 DEF NamesCode
      <4>3. QED
        BY <3>4, <4>2, BareTopic
    <3>6. AskOK(q, Topical)
      BY <1>2, <1>3, <3>2, <3>5 DEF AskOK, Phases, Retrieves, Noted
    <3>7. asks = [b \in Asker |-> asks[b]] /\ \A b \in Asker : AskOK(asks[b], Topical)
      <4>1. OneSet(asks, a, q)
        BY <1>4, <3>2 DEF OneSet
      <4>2. QED
        BY <3>6, <4>1, OneAsks
    <3>8. QED
      BY <1>6, <2>2, <3>3, <3>7, TouchOnly
  <2>6. CASE ~(g.topic # Nothing /\ IsFollowUp(p))
    <3>1. PICK q, asks, e : /\ q = Retrieves(p, {}, TRUE) /\ asks = Asked(p, {}, TRUE)
                            /\ e = [g EXCEPT !.topic = p]
      OBVIOUS
    <3>2. Put(s, e) /\ ask' = Forgotten(s, asks)
      BY <1>1, <1>2, <2>1, <2>3, <2>6, <3>1 DEF Retrieve, Asked, NotedIn
    <3>3. e = [id |-> s, topic |-> p, last |-> g.last, working |-> g.working]
      BY <2>4, <3>1 DEF Entry
    <3>4. e \in Entry /\ e.id = s /\ e.topic # Nothing /\ e.working = g.working
      BY <1>3, <1>6, <2>4, <3>3, TopicsAssumption DEF Entry
    <3>5. c.follow = Nothing \/ c.forgotten
      <4>1. s \notin Topical \/ ~IsFollowUp(p)
        BY <2>4, <2>6
      <4>2. QED
        BY <1>1, <1>2, <1>3, <4>1 DEF AskOK
    <3>6. AskOK(q, Topical)
      BY <1>2, <1>3, <3>1, <3>5 DEF AskOK, Phases, Retrieves, Noted
    <3>7. asks = [b \in Asker |-> asks[b]] /\ \A b \in Asker : AskOK(asks[b], Topical)
      <4>1. OneSet(asks, a, q)
        BY <1>4, <3>1 DEF OneSet
      <4>2. QED
        BY <3>6, <4>1, OneAsks
    <3>8. TableOK(table') /\ KnownOK' /\ Topical \ Out(s) \subseteq Topical'
      <4>1. known[s] \cup {} = known[s]
        OBVIOUS
      <4>2. QED
        BY <1>6, <2>2, <2>4, <3>2, <3>4, <4>1, Nobody, Touches
    <3>9. QED
      BY <1>6, <3>2, <3>7, <3>8, AllForget DEF TopicsInv
  <2>7. QED
    BY <2>5, <2>6
<1>7. QED
  BY <1>3, <1>5, <1>6

\* The working set with a result's spans: the best of all that is known now.
LEMMA RecordStep ==
  ASSUME TopicsInv, NEW a \in Asker, Record(a)
  PROVE  TopicsInv'
<1>1. PICK c : /\ c = ask[a] /\ AskOK(c, Topical)
               /\ c = [phase |-> c.phase, session |-> c.session, prompt |-> c.prompt,
                       follow |-> c.follow, topic |-> c.topic, named |-> c.named,
                       terms |-> c.terms, starts |-> c.starts, forgotten |-> c.forgotten]
               /\ ask = [b \in Asker |-> ask[b]]
  BY AskIs
<1>2. PICK s : s = c.session
  OBVIOUS
<1>3. c.phase = "record" /\ s \in Sessions \cup {NoSession} /\ c.prompt \in Prompts
  BY <1>1, <1>2 DEF Record, AskOK
<1>4. PICK q, asks : q = [c EXCEPT !.phase = "reply"] /\ asks = [ask EXCEPT ![a] = q]
  OBVIOUS
<1>5. q = [phase |-> "reply", session |-> c.session, prompt |-> c.prompt,
           follow |-> c.follow, topic |-> c.topic, named |-> c.named,
           terms |-> c.terms, starts |-> c.starts, forgotten |-> c.forgotten]
  BY <1>1, <1>4
<1>6. AskOK(q, Topical)
  BY <1>1, <1>2, <1>3, <1>5 DEF AskOK, Phases
<1>7. asks = [ask EXCEPT ![a].phase = "reply"]
  BY <1>1, <1>4
<1>8. CASE s = NoSession
  <2>1. ask' = [ask EXCEPT ![a] = q] /\ UNCHANGED <<table, known>>
    BY <1>1, <1>2, <1>4, <1>7, <1>8 DEF Record
  <2>2. QED
    BY <1>6, <2>1, OnlyAsks
<1>9. CASE s \in Sessions
  <2>1. s # NoSession
    BY <1>9, TopicsAssumption
  <2>2. PICK g : g = Got(s)
    OBVIOUS
  <2>3. PICK result \in Results :
          \E working \in BestOf(Merged(g.working, result)) :
            /\ Put(s, [g EXCEPT !.last = result, !.working = working])
            /\ known' = Known(s, result) /\ ask' = Forgotten(s, asks)
    BY <1>1, <1>2, <1>7, <2>1, <2>2 DEF Record
  <2>14. PICK working \in BestOf(Merged(g.working, result)) :
          /\ Put(s, [g EXCEPT !.last = result, !.working = working])
          /\ known' = Known(s, result) /\ ask' = Forgotten(s, asks)
    BY <2>3
  <2>4. /\ g \in Entry /\ g.id = s /\ g.working \in BestOf(BestOfEach(known[s]))
        /\ (s \in Topical <=> g.topic # Nothing)
    BY <1>9, <2>2, GotOK
  <2>5. PICK e : e = [g EXCEPT !.last = result, !.working = working]
    OBVIOUS
  <2>6. e = [id |-> s, topic |-> g.topic, last |-> result, working |-> working]
    BY <2>4, <2>5 DEF Entry
  <2>7. working \subseteq UNION Results
    <3>1. working \subseteq g.working \cup result
      BY <2>3, <2>14 DEF BestOf, Merged, BestOfEach
    <3>2. g.working \subseteq UNION Results /\ result \subseteq UNION Results
      BY <2>3, <2>4 DEF Entry
    <3>3. QED
      BY <3>1, <3>2
  <2>8. e \in Entry /\ e.id = s /\ (s \in Topical => e.topic # Nothing) /\ e.working = working
    BY <1>9, <2>3, <2>14, <2>4, <2>6, <2>7 DEF Entry
  <2>9. Scored(result)
    BY <2>3, TopicsAssumption DEF Scored
  <2>10. working \in BestOf(BestOfEach(known[s] \cup result))
    <3>1. PICK K, W : K = known[s] /\ W = g.working
      OBVIOUS
    <3>2. Scored(K) /\ W \in BestOf(BestOfEach(K)) /\ working \in BestOf(Merged(W, result))
      BY <1>9, <2>3, <2>14, <2>4, <3>1 DEF TopicsInv, KnownOK
    <3>3. working \in BestOf(BestOfEach(K \cup result))
      BY <2>9, <3>2, BestMerges
    <3>4. QED
      BY <3>1, <3>3
  <2>11. TableOK(table') /\ KnownOK' /\ Topical \ Out(s) \subseteq Topical'
    <3>1. Put(s, e)
      BY <2>3, <2>14, <2>5
    <3>2. e.working \in BestOf(BestOfEach(known[s] \cup result))
      BY <2>8, <2>10
    <3>3. QED
      BY <1>9, <2>3, <2>14, <2>8, <2>9, <3>1, <3>2, Touches
  <2>12. AsksOK'
    <3>1. OneSet(asks, a, q)
      BY <1>4 DEF OneSet
    <3>2. asks = [b \in Asker |-> asks[b]] /\ \A b \in Asker : AskOK(asks[b], Topical)
      BY <1>6, <3>1, OneAsks
    <3>3. QED
      BY <1>9, <2>3, <2>14, <2>11, <3>2, AllForget
  <2>13. QED
    BY <2>11, <2>12 DEF TopicsInv
<1>10. QED
  BY <1>3, <1>8, <1>9

LEMMA RespondStep ==
  ASSUME TopicsInv, NEW a \in Asker, Respond(a)
  PROVE  TopicsInv'
<1>1. PICK s, q, asks : s = ask[a].session /\ q = NoAsk /\ asks = [ask EXCEPT ![a] = NoAsk]
  OBVIOUS
<1>2. AskOK(q, Topical)
  BY <1>1, IdleOK
<1>3. s \in Sessions \cup {NoSession}
  BY <1>1 DEF Respond, TopicsInv, AsksOK, AskOK
<1>4. CASE s = NoSession
  <2>1. ask' = [ask EXCEPT ![a] = q] /\ UNCHANGED <<table, known>>
    BY <1>1, <1>4 DEF Respond
  <2>2. QED
    BY <1>2, <2>1, OnlyAsks
<1>5. CASE s \in Sessions
  <2>1. s # NoSession
    BY <1>5, TopicsAssumption
  <2>2. Put(s, Got(s)) /\ known' = Known(s, {}) /\ ask' = Forgotten(s, asks)
    BY <1>1, <2>1 DEF Respond
  <2>3. OneSet(asks, a, q)
    BY <1>1 DEF OneSet
  <2>4. asks = [b \in Asker |-> asks[b]] /\ \A b \in Asker : AskOK(asks[b], Topical)
    BY <1>2, <2>3, OneAsks
  <2>5. QED
    BY <1>5, <2>2, <2>4, TouchOnly
<1>6. QED
  BY <1>3, <1>4, <1>5

LEMMA TopicsInitOK == TopicsInit => TopicsInv
<1> SUFFICES ASSUME TopicsInit PROVE TopicsInv
  OBVIOUS
<1>1. TableOK(table)
  BY TopicsAssumption DEF TopicsInit, TableOK
<1>2. AsksOK
  BY IdleOK DEF TopicsInit, AsksOK
<1>3. KnownOK
  BY Nobody DEF TopicsInit, KnownOK
<1>4. QED
  BY <1>1, <1>2, <1>3 DEF TopicsInv

LEMMA TopicsNextOK == TopicsInv /\ [TopicsNext]_topicVars => TopicsInv'
<1> SUFFICES ASSUME TopicsInv, [TopicsNext]_topicVars PROVE TopicsInv'
  OBVIOUS
<1>1. ASSUME NEW a \in Asker, NEW s \in Sessions \cup {NoSession}, NEW p \in Prompts,
             Asks(a, s, p)
      PROVE  TopicsInv'
  BY <1>1, AsksStep
<1>2. ASSUME NEW a \in Asker, Judge(a) PROVE TopicsInv'
  BY <1>2, JudgeStep
<1>3. ASSUME NEW a \in Asker, Retrieve(a) PROVE TopicsInv'
  BY <1>3, RetrieveStep
<1>4. ASSUME NEW a \in Asker, RetrievalFails(a) PROVE TopicsInv'
  <2>1. PICK q : q = NoAsk
    OBVIOUS
  <2>2. AskOK(q, Topical)
    BY <2>1, IdleOK
  <2>3. ask' = [ask EXCEPT ![a] = q] /\ UNCHANGED <<table, known>>
    BY <1>4, <2>1 DEF RetrievalFails
  <2>4. QED
    BY <2>2, <2>3, OnlyAsks
<1>5. ASSUME NEW a \in Asker, Record(a) PROVE TopicsInv'
  BY <1>5, RecordStep
<1>6. ASSUME NEW a \in Asker, Respond(a) PROVE TopicsInv'
  BY <1>6, RespondStep
<1>7. ASSUME NEW s \in Sessions, View(s) PROVE TopicsInv'
  <2>1. PICK asks : asks = ask
    OBVIOUS
  <2>2. asks = [b \in Asker |-> asks[b]] /\ \A b \in Asker : AskOK(asks[b], Topical)
    BY <2>1 DEF TopicsInv, AsksOK
  <2>3. Put(s, Got(s)) /\ known' = Known(s, {}) /\ ask' = Forgotten(s, asks)
    BY <1>7, <2>1 DEF View
  <2>4. QED
    BY <2>2, <2>3, TouchOnly
<1>8. ASSUME Restart PROVE TopicsInv'
  <2>1. TableOK(table')
    BY <1>8, TopicsAssumption DEF Restart, TableOK
  <2>2. AsksOK'
    BY <1>8, IdleOK DEF Restart, AsksOK
  <2>3. KnownOK'
    BY <1>8, Nobody DEF Restart, KnownOK
  <2>4. QED
    BY <2>1, <2>2, <2>3 DEF TopicsInv
<1>9. ASSUME UNCHANGED topicVars PROVE TopicsInv'
  BY <1>9 DEF topicVars, TopicsInv, TableOK, AsksOK, KnownOK, Topical
<1>10. QED
  BY <1>1, <1>2, <1>3, <1>4, <1>5, <1>6, <1>7, <1>8, <1>9 DEF TopicsNext

\* A prompt that is answered as a follow-up was retrieved as the topic that its
\* session had, although judging and retrieving lock the sessions one after the
\* other (daemon.rs, handle; session.rs).
THEOREM FollowUpsFollow == TopicsSpec => []FollowsTopic
<1>1. TopicsInv => FollowsTopic
  BY DEF TopicsInv, AsksOK, AskOK, FollowsTopic
<1>2. QED
  BY <1>1, TopicsInitOK, TopicsNextOK, PTL DEF TopicsSpec

\* A session's working set has the best-scored of all spans recorded since it is
\* in the table, although each record_query drops what does not fit.
THEOREM WorkingSetIsBest == TopicsSpec => []WorkingBest
<1>1. TopicsInv => WorkingBest
  <2> SUFFICES ASSUME TopicsInv, NEW i \in DOMAIN table
               PROVE  table[i].working \in BestOf(BestOfEach(known[table[i].id]))
    BY DEF WorkingBest
  <2>1. i \in 1..Len(table)
    BY DEF TopicsInv, TableOK
  <2>2. QED
    BY <2>1 DEF TopicsInv, KnownOK
<1>2. QED
  BY <1>1, TopicsInitOK, TopicsNextOK, PTL DEF TopicsSpec
=============================================================================
