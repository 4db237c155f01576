------------------------------- MODULE Inputs -------------------------------
(***************************************************************************)
(* The model's inputs (crates/laya-model: sequence.rs                      *)
(* build_from_state_ids, build_checked; model.rs plan_batches,             *)
(* plan_batches_in_order).  A question (instructions and options) and a    *)
(* state become one sequence of tokens,                                    *)
(*                                                                         *)
(*   [CLS] instructions [SEP] ([MASK] option)* [SEP] state [SEP]           *)
(*                                                                         *)
(* in which the question has HeadMaxLen tokens and the whole has MaxLen;   *)
(* sequences are then put into batches, padded to their longest row.  Only *)
(* the numbers of tokens are modelled.                                     *)
(***************************************************************************)
EXTENDS Loops, Sequences

CONSTANTS
  Budgets,       \* the agent configurations: [head, max]
  Instructions,  \* how many tokens the instructions may have
  Options,       \* the sequences of the options' tokens
  States,        \* how many tokens a state may have
  OptionTokens,  \* OPTION_TOKENS
  MinOptBudget,  \* MIN_OPT_BUDGET
  MinHeadTokens, \* MIN_HEAD_TOKENS
  MinOptTokens,  \* MIN_OPT_TOKENS
  MaxTokens,     \* padded tokens of a batch
  MaxRows,       \* rows of a batch
  MaxInputs      \* bound on the sequences built

ASSUME InputsAssumption ==
  /\ {OptionTokens, MinOptBudget, MinHeadTokens, MinOptTokens, MaxTokens, MaxRows, MaxInputs}
       \subseteq Nat
  /\ MinHeadTokens <= MinOptBudget
  /\ \A b \in Budgets : b.head \in Nat /\ b.max \in Nat /\ b.head + 3 <= b.max   \* AgentConfig::load
  /\ Instructions \cup States \subseteq Nat /\ Options \subseteq Seq(Nat)

VARIABLES
  cfg,      \* the configuration that is loaded
  inputs,   \* the sequences built: what each has, and what it was made of
  failed,   \* the options of the last question, if it did not fit: <<opts>> or <<>>
  batches   \* the batches planned: sequences of indices of inputs

inputVars == <<cfg, inputs, failed, batches>>

InputsInit == cfg \in Budgets /\ inputs = <<>> /\ failed = <<>> /\ batches = <<>>

Smaller(a, b) == IF a <= b THEN a ELSE b
Larger(a, b) == IF a >= b THEN a ELSE b

\* Each option with its marker; too many or too long ones are cut evenly.
Marked(opts) == [i \in DOMAIN opts |-> Smaller(opts[i], OptionTokens) + 1]
Shrunk(opts) ==
  LET marked == Marked(opts)
      per == Larger(MinOptTokens,
                    IF cfg.head >= MinOptBudget
                      THEN (cfg.head - MinOptBudget) \div Larger(Len(opts), 1)
                      ELSE 0) IN
  IF cfg.head - SumOf(marked) >= MinOptBudget THEN marked
  ELSE [i \in DOMAIN marked |-> Smaller(marked[i], per)]

HeadRoom(opts) == Larger(MinHeadTokens, cfg.head - SumOf(Shrunk(opts)))

\* Faulty variant: no room for the last separator.
RoomToTheEnd(before) == Larger(cfg.max - before, 0)

\* What is left for the state once `before` tokens are there.
Room(before) == Larger(cfg.max - before - 1, 0)

\* The sequence: its tokens, its markers, whether its last separator is there,
\* and the tokens of the state that are.
Built(ins, opts, state) ==
  LET shrunk == Shrunk(opts)
      head == Smaller(ins, HeadRoom(opts))
      before == head + SumOf(shrunk) + 3
      kept == Smaller(state, Room(before))
      all == before + kept + 1
      marker(i) == head + 2 + PartSums(shrunk)[i - 1] IN
  [len |-> Smaller(all, cfg.max),
   markers |-> Cardinality({i \in DOMAIN opts : marker(i) < cfg.max}),
   closed |-> all <= cfg.max,
   kept |-> kept, state |-> state, options |-> Len(opts)]

\* build_checked.
Build(ins, opts, state) ==
  /\ batches = <<>> /\ Len(inputs) < MaxInputs
  /\ LET s == Built(ins, opts, state) IN
     IF s.markers = Len(opts)
       THEN inputs' = Append(inputs, s) /\ failed' = <<>>
       ELSE failed' = <<opts>> /\ UNCHANGED inputs
  /\ UNCHANGED <<cfg, batches>>

-----------------------------------------------------------------------------
(* plan_batches_in_order takes the rows as they come, so that a deadline   *)
(* drops the last ones; plan_batches takes the shortest first.             *)

Longest(batch) ==
  LET lens == {inputs[batch[k]].len : k \in DOMAIN batch} IN
  CHOOSE n \in lens : \A m \in lens : m <= n

\* The tokens of a batch whose rows are as long as its longest.
Padded(batch) == Longest(batch) * Len(batch)

JoinsBatch(batch, row) ==
  Len(batch) < Larger(MaxRows, 1) /\ Padded(Append(batch, row)) <= MaxTokens

\* The next row joins the last batch or begins one.
WithRow(plan, row) ==
  IF plan # <<>> /\ JoinsBatch(plan[Len(plan)], row)
    THEN [plan EXCEPT ![Len(plan)] = Append(@, row)]
    ELSE Append(plan, <<row>>)

Batched(order) ==
  LET plan[n \in 0..Len(order)] ==
        IF n = 0 THEN <<>> ELSE WithRow(plan[n - 1], order[n]) IN
  plan[Len(order)]

AsGiven == [i \in DOMAIN inputs |-> i]
ByLength ==
  InOrder(DOMAIN inputs,
          LAMBDA i, j : \/ inputs[i].len < inputs[j].len
                        \/ inputs[i].len = inputs[j].len /\ i < j)

PlanInOrder ==
  /\ inputs # <<>> /\ batches = <<>>
  /\ batches' = Batched(AsGiven)
  /\ UNCHANGED <<cfg, inputs, failed>>
PlanByLength ==
  /\ inputs # <<>> /\ batches = <<>>
  /\ batches' = Batched(ByLength)
  /\ UNCHANGED <<cfg, inputs, failed>>

InputsNext ==
  \/ \E ins \in Instructions, opts \in Options, state \in States : Build(ins, opts, state)
  \/ PlanInOrder \/ PlanByLength

InputsSpec == InputsInit /\ [][InputsNext]_inputVars

-----------------------------------------------------------------------------
\* A question whose options all fit in its budget, at their smallest, under a
\* configuration that leaves the state a place, never fails; every sequence is
\* within max_len and, under such a configuration, ends with its separator and
\* has all of the state or what the budgets promise of it.
Fitting(k) ==
  k * MinOptTokens + MinHeadTokens <= cfg.head /\ cfg.head + 4 <= cfg.max
InputsWhole ==
  /\ failed # <<>> => ~Fitting(Len(failed[1]))
  /\ \A i \in DOMAIN inputs :
       /\ inputs[i].len <= cfg.max
       /\ Fitting(inputs[i].options) =>
            /\ inputs[i].closed
            /\ inputs[i].kept >= Smaller(inputs[i].state, cfg.max - cfg.head - 4)

\* Every sequence is in one batch, no batch of several rows has more tokens with
\* its padding than allowed, nor more rows, and no batch is closed that the next
\* row would have fitted in.
BatchesSound ==
  batches # <<>> =>
    LET rows(b) == {b[k] : k \in DOMAIN b} IN
    /\ \A i \in DOMAIN inputs :
         Cardinality({k \in DOMAIN batches : i \in rows(batches[k])}) = 1
    /\ \A k \in DOMAIN batches :
         /\ Cardinality(rows(batches[k])) = Len(batches[k])
         /\ Len(batches[k]) <= Larger(MaxRows, 1)
         /\ Len(batches[k]) > 1 => Padded(batches[k]) <= MaxTokens
         /\ k < Len(batches) =>
              LET more == Append(batches[k], batches[k + 1][1]) IN
              Len(more) > Larger(MaxRows, 1) \/ Padded(more) > MaxTokens

(* Both parts of build_sequence's and build_batches' promise together: the *)
(* batches are made of the very sequences that were built.                 *)
InputsSound == InputsWhole /\ BatchesSound
=============================================================================
