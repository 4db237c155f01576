------------------------------- MODULE Sizing -------------------------------
(***************************************************************************)
(* What of a ranking is put into the prompt (crates/laya-rank: sizing.rs,  *)
(* render.rs): which spans are inlined, which are only listed, which are   *)
(* left out as sent before, and which lines of the lists still fit.  The   *)
(* size of a piece of text is a number; a location or a line of a list has *)
(* size 1, a block of code one more than its lines.                        *)
(***************************************************************************)
EXTENDS Related

CONSTANTS
  MaxChars,   \* MAX_INJECT_CHARS
  Budget,     \* RenderReq::budget_tokens
  Header,     \* COMPACT_HEADER with the heading of the locations
  Trust,      \* TRUST_LINE
  Footer,     \* COMPACT_FOOTER, NO_CODE_FOOTER
  Spare,      \* the room kept for what follows the code
  Prose       \* files that is_prose_path says are documentation

ASSUME SizingAssumption ==
  /\ {MaxChars, Budget, Header, Trust, Footer} \subseteq Nat
  /\ Spare \in Nat \ {0}

SpanKey(s) == [path |-> s.path, start |-> s.start, end |-> s.end]
Block(s) == s.end - s.start + 2

\* distinct_files: the first k, one of each file.
DistinctFiles(q, k) ==
  At(q, Taken(Len(q), [i \in DOMAIN q |->
          {T \in SomeBefore(i) : Cardinality(T) < k /\ ~\E j \in T : q[j].path = q[i].path}]))

SentBefore(s, sent) == \E k \in sent : Meet(s, k)

\* size_context_opts, select_by_rank.
Sized(spans, neighbours, usages, caps, inlineProse, sent) ==
  LET fresh == At(spans, {i \in DOMAIN spans : ~SentBefore(spans[i], sent)})
      full == DistinctFiles(At(fresh, {i \in DOMAIN fresh : inlineProse \/ fresh[i].path \notin Prose}),
                            caps.full)
      listed == At(fresh, {i \in DOMAIN fresh : fresh[i] \notin ToSet(full)})
      map == First(listed, Max({caps.map - Len(full), 0}))
      already == At(spans, {i \in DOMAIN spans : SentBefore(spans[i], sent)})
      shown == ToSet(full) \cup ToSet(map) \cup ToSet(already)
      others == At(neighbours, {i \in DOMAIN neighbours : ~\E s \in shown : Meet(neighbours[i], s)})
      once == Taken(Len(others), [i \in DOMAIN others |->
                {T \in SomeBefore(i) : ~\E j \in T : SpanKey(others[j]) = SpanKey(others[i])}]) IN
  [full |-> full, map |-> map, already |-> already, usages |-> usages,
   related |-> First(At(others, once), caps.related)]

\* keep_only_current_code: the spans of changed files become locations.
OnlyCurrent(ctx, stale) ==
  [ctx EXCEPT !.full = At(@, {i \in DOMAIN ctx.full : ctx.full[i].path \notin stale}),
              !.map = At(ctx.full, {i \in DOMAIN ctx.full : ctx.full[i].path \in stale}) \o @]

-----------------------------------------------------------------------------
\* Faulty variant: each block is compared with the cap on its own.
BlockFitsAlone(used, code, block) ==
  used + block <= Budget /\ Header + block + Trust + Footer + Spare <= MaxChars

\* A block is inlined if it fits the budget and the cap with what is there.
\* out is the header and the locations, code the blocks so far.
BlockFits(out, code, block) ==
  /\ out + Footer + Trust + code + block <= Budget
  /\ out + block + code + Trust + Footer + Spare <= MaxChars

Sizes(q) == SumOf([i \in DOMAIN q |-> Block(q[i])])

\* The spans that get a block; the others stay locations.
Inlined(ctx, out) ==
  At(ctx.full, Taken(Len(ctx.full), [i \in DOMAIN ctx.full |->
       {T \in SomeBefore(i) : BlockFits(out, Sizes(At(ctx.full, T)), Block(ctx.full[i]))}]))

\* How many of n pieces of size 1, under a heading of size 1, fit after out.
FitAfter(out, n) == Max({0, Min({n, MaxChars - out - 1})})

Visible(u, spans) ==
  \E s \in spans : s.path = u.path /\ s.start <= u.line /\ u.line <= s.end

\* append_related: the claim is dropped if a line of the name does not fit.
Claimed(usages, n, u) ==
  u.all /\ ~\E i \in (n + 1)..Len(usages) : usages[i].name = u.name

\* render_sized_with_keys.
Rendered(ctx) ==
  LET out == Header + Len(ctx.full) + Len(ctx.map)
      inlined == Inlined(ctx, out)
      code == Sizes(inlined)
      body == out + (IF inlined = <<>> THEN 0 ELSE code + Trust) + Footer
      already == First(ctx.already, FitAfter(body, Len(ctx.already)))
      head == body + (IF ctx.already = <<>> THEN 0 ELSE 1 + Len(already))
      provided == ToSet(inlined) \cup ToSet(ctx.already)
      usages == At(ctx.usages, {i \in DOMAIN ctx.usages : ~Visible(ctx.usages[i], provided)})
      fit == FitAfter(head, Len(usages))
      lists == head + (IF fit = 0 THEN 0 ELSE 1 + fit)
      m == FitAfter(lists, Len(ctx.related)) IN
  [inlined |-> inlined, already |-> ToSet(already), provided |-> provided,
   usages |-> {usages[i] : i \in 1..fit},
   claims |-> {usages[i].name : i \in {j \in 1..fit : Claimed(usages, fit, usages[j])}},
   related |-> First(ctx.related, m),
   size |-> lists + (IF m = 0 THEN 0 ELSE 1 + m)]

NothingRendered ==
  [inlined |-> <<>>, already |-> {}, provided |-> {}, usages |-> {}, claims |-> {},
   related |-> <<>>, size |-> 0]
=============================================================================
