----------------------------- MODULE MCInjection -----------------------------
(* Instances of Injection and of Topics, the two halves of a session.  They *)
(* share nothing, so a behaviour has one of them at work, and the other     *)
(* still as it was.  File p1 has spans a1 and a2, which overlap; file p2    *)
(* has span b and is not edited.                                            *)
EXTENDS Injection, Topics, TLC

CONSTANTS p1, p2, a1, a2, b, r1, r2, s1, s2, x, y, z, t1, t2, t3, t4, name

VARIABLE subject

MCPathOf == (a1 :> p1) @@ (a2 :> p1) @@ (b :> p2)
MCOverlap == {<<s, s>> : s \in Span} \cup {<<a1, a2>>, <<a2, a1>>}
MCMaxEdits == (p1 :> 1) @@ (p2 :> 0)
Symmetry == Permutations({r1, r2}) \cup Permutations({s1, s2})

\* A task; a short follow-up; one that names code; one that refers back in many
\* words, with others about the answer; a task in quotes, among others; a
\* prompt that the hook skips.
Said(task, wrap, quoted, code, back) ==
  [task |-> task, wrap |-> wrap, quoted |-> quoted, code |-> code, back |-> back,
   intent |-> {"tests"}, skipped |-> FALSE]
MCPrompts ==
  {Said({t1, t2, t3, t4}, {}, {}, {}, FALSE), Said({t1}, {}, {}, {}, FALSE),
   Said({}, {}, {}, {name}, TRUE), Said({t1, t2, t3}, {t4}, {}, {}, TRUE),
   Said({t4}, {}, {{t1, t2, t3}}, {}, FALSE),
   [Said({}, {t1}, {}, {}, FALSE) EXCEPT !.skipped = TRUE]}

MCResults ==
  {{}, {[span |-> x, score |-> 2], [span |-> y, score |-> 1]},
   {[span |-> y, score |-> 3]}, {[span |-> x, score |-> 1], [span |-> z, score |-> 2]}}

mcVars == <<vars, topicVars, subject>>

MCInit == Init /\ TopicsInit /\ subject \in {"injection", "topics"}
MCNext ==
  \/ subject = "injection" /\ Next /\ UNCHANGED <<topicVars, subject>>
  \/ subject = "topics" /\ TopicsNext /\ UNCHANGED <<vars, subject>>
MCSpec == MCInit /\ [][MCNext]_mcVars
=============================================================================
