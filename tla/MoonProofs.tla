----------------------------- MODULE MoonProofs -----------------------------
(***************************************************************************)
(* Proofs about how Moon is asked.  About Executor, for every number of    *)
(* callers, slots and retries and every threshold and cooldown: its types, *)
(* that a restart of Moon costs a call at most one attempt, and that       *)
(* probes keep their distance.  About Queries, for every query and all     *)
(* document frequencies: that the plan of a text search is the best one.   *)
(***************************************************************************)
EXTENDS Executor, Queries, LoopProofs

\* A call holds a slot exactly while it connects or uses it, alone, and uses
\* a slot only with a connection in it.
Holding ==
  /\ \A c \in Caller : call[c].phase \in {"connect", "use"} <=> call[c].slot \in Slot
  /\ \A c, d \in Caller : c # d /\ call[c].slot \in Slot => call[c].slot # call[d].slot
  /\ \A c \in Caller : call[c].phase = "use" => slot[call[c].slot] \in Conn

\* Once a failure after a restart bumped the generation, what is fresh in the
\* pool was opened to the server that runs.
FreshIsAlive ==
  bumped => \A s \in Slot : slot[s] \in Conn /\ slot[s].fresh => slot[s].alive

\* A steady call that lost an attempt has bumped the generation, and the
\* connection it uses now is a live one.
SteadyCalls ==
  \A c \in Caller : call[c].steady =>
    /\ server = "up"
    /\ call[c].tries <= 1
    /\ call[c].tries = 1 =>
         bumped /\ (call[c].phase = "use" => slot[call[c].slot].alive)

\* The time since the last probe and the time to the next one add up.
Spacing == ~IsClosed => breaker.left + sinceProbe >= Cooldown - Skew

-----------------------------------------------------------------------------
LEMMA BreakerInitTypes == BreakerInit => BreakerTypeOK /\ Spacing
  BY BreakerAssumption
  DEF BreakerInit, BreakerTypeOK, Spacing, IsClosed, Closed

\* What the breaker's operations do to its part of the invariant.
LEMMA BreakerSteps ==
  ASSUME BreakerTypeOK, Spacing,
         AdmitClosed \/ AdmitProbe \/ OnSuccess \/ OnFailure \/ Tick
  PROVE  BreakerTypeOK' /\ Spacing'
<1> USE BreakerAssumption
<1>1. CASE AdmitClosed
  BY <1>1 DEF AdmitClosed, BreakerTypeOK, Spacing, IsClosed
<1>2. CASE AdmitProbe
  BY <1>2 DEF AdmitProbe, HalfOpen, BreakerTypeOK, Spacing, IsClosed
<1>3. CASE OnSuccess
  BY <1>3 DEF OnSuccess, Closed, BreakerTypeOK, Spacing, IsClosed
<1>4. CASE OnFailure
  <2>1. CASE IsClosed /\ breaker.failures + 1 < Threshold
    BY <1>4, <2>1 DEF OnFailure, Closed, BreakerTypeOK, Spacing, IsClosed
  <2>2. CASE ~(IsClosed /\ breaker.failures + 1 < Threshold)
    BY <1>4, <2>2 DEF OnFailure, Open, BreakerTypeOK, Spacing, IsClosed
  <2>3. QED BY <2>1, <2>2
<1>5. CASE Tick
  BY <1>5 DEF Tick, BreakerTypeOK, Spacing, IsClosed
<1>6. QED BY <1>1, <1>2, <1>3, <1>4, <1>5

LEMMA BreakerUnchanged ==
  ASSUME BreakerTypeOK, Spacing, UNCHANGED <<breaker, sinceProbe>>
  PROVE  BreakerTypeOK' /\ Spacing'
  BY DEF BreakerTypeOK, Spacing, IsClosed

-----------------------------------------------------------------------------
\* The parts of ExecutorTypeOK besides the breaker's.
PoolTypes ==
  /\ server \in {"up", "down", "foreign"}
  /\ slot \in [Slot -> Conn \cup {NoConn}]
  /\ poisoned \in SUBSET Slot
  /\ call \in [Caller -> Call]
  /\ bumped \in BOOLEAN
  /\ faults \in 0..MaxFaults

Pool == PoolTypes /\ Holding /\ FreshIsAlive /\ SteadyCalls

LEMMA StartKeeps == ASSUME Pool, NEW c \in Caller, Start(c) PROVE Pool'
<1>1. PICK k \in Kind : call' = [call EXCEPT ![c] =
        [phase |-> "attempt", kind |-> k, tries |-> 0, slot |-> NoSlot,
         fresh |-> FALSE, probe |-> ~IsClosed, steady |-> server = "up"]]
  BY DEF Start
<1> DEFINE probe == ~IsClosed
           up == server = "up"
           started == [phase |-> "attempt", kind |-> k, tries |-> 0,
                       slot |-> NoSlot, fresh |-> FALSE, probe |-> probe,
                       steady |-> up]
<1>2. /\ UNCHANGED <<server, slot, poisoned, bumped, faults>>
      /\ call[c].phase = "idle"
  BY DEF Start, pool
<1>3. probe \in BOOLEAN /\ up \in BOOLEAN /\ (up <=> server = "up")
  BY DEF IsClosed
<1>4. call' = [call EXCEPT ![c] = started]
  BY <1>1
<1> HIDE DEF probe, up
<1>5. /\ started \in Call /\ started.phase = "attempt" /\ started.tries = 0
      /\ started.slot = NoSlot /\ started.steady = up
  BY <1>3, ExecutorAssumption DEF Call
<1> HIDE DEF started
<1>6. PoolTypes'
  BY <1>2, <1>4, <1>5 DEF Pool, PoolTypes
<1>7. Holding'
  BY <1>2, <1>4, <1>5, ExecutorAssumption DEF Pool, PoolTypes, Holding
<1>8. FreshIsAlive'
  BY <1>2 DEF Pool, FreshIsAlive
<1>9. SteadyCalls'
  BY <1>2, <1>3, <1>4, <1>5 DEF Pool, PoolTypes, SteadyCalls
<1>10. QED BY <1>6, <1>7, <1>8, <1>9 DEF Pool

LEMMA TakeSlotKeeps ==
  ASSUME Pool, NEW c \in Caller, NEW s \in Slot, TakeSlot(c, s) PROVE Pool'
<1> USE ExecutorAssumption, NoConnAssumption
    DEF Pool, PoolTypes, Call, Kind, TakeSlot
<1>1. CASE Reusable(s)
  BY <1>1 DEF Holding, FreshIsAlive, SteadyCalls, Reusable, Free
<1>2. CASE ~Reusable(s)
  BY <1>2 DEF Holding, FreshIsAlive, SteadyCalls, Free
<1>3. QED BY <1>1, <1>2

LEMMA ConnectKeeps == ASSUME Pool, NEW c \in Caller, Connect(c) PROVE Pool'
  BY ExecutorAssumption, NoConnAssumption
  DEF Pool, PoolTypes, Holding, FreshIsAlive, SteadyCalls, Connect, Call, Conn

\* An attempt of c failed in transport.  `all` are the calls as the failure
\* leaves them, c's own still to be retried or ended.
LEMMA TransientKeepsTypes ==
  ASSUME PoolTypes, NEW c \in Caller, NEW late \in BOOLEAN,
         NEW all \in [Caller -> Call], all[c].tries = call[c].tries,
         Transient(c, late, all)
  PROVE  /\ call' \in [Caller -> Call]
         /\ \A d \in Caller \ {c} : call'[d] = all[d]
         /\ call'[c].slot = NoSlot
         /\ \/ call'[c].phase = "idle" /\ ~call'[c].steady
            \/ /\ call'[c].phase = "attempt"
               /\ call'[c].tries = call[c].tries + 1
               /\ call'[c].steady = all[c].steady
<1>1. /\ NoCall \in Call /\ NoCall.phase = "idle" /\ ~NoCall.steady
      /\ NoCall.slot = NoSlot
  BY ExecutorAssumption DEF NoCall, Call, Kind
<1>2. CASE Retries(c, late)
  <2> DEFINE a == all[c]
             t == a.tries + 1
             again == [a EXCEPT !.phase = "attempt", !.slot = NoSlot,
                         !.fresh = FALSE, !.tries = t]
  <2>1. call' = [all EXCEPT ![c] = again]
    BY <1>2 DEF Transient
  <2>2. a \in Call /\ t \in 0..MaxRetries
    BY <1>2, ExecutorAssumption DEF Retries, Call
  <2> HIDE DEF a, t
  <2>3. again \in Call
    BY <2>2 DEF Call
  <2>4. /\ again.phase = "attempt" /\ again.slot = NoSlot
        /\ again.tries = t /\ again.steady = a.steady
    BY <2>2 DEF Call
  <2> HIDE DEF again
  <2>5. QED BY <2>1, <2>3, <2>4 DEF a, t
<1>3. CASE ~Retries(c, late)
  <2>1. call' = [all EXCEPT ![c] = NoCall]
    BY <1>3 DEF Transient
  <2>2. QED BY <1>1, <2>1
<1>4. QED BY <1>2, <1>3

\* A call that lets go of its slot, and is no longer steady, keeps the rest.
LEMMA Released ==
  ASSUME Pool, NEW c \in Caller,
         call' \in [Caller -> Call], \A d \in Caller \ {c} : call'[d] = call[d],
         call'[c].phase \in {"idle", "attempt"}, call'[c].slot = NoSlot,
         ~call'[c].steady,
         UNCHANGED <<server, slot, bumped>>,
         poisoned' \in SUBSET Slot, faults' \in 0..MaxFaults
  PROVE  Pool'
<1>1. PoolTypes'
  BY DEF Pool, PoolTypes
<1>2. Holding'
  BY ExecutorAssumption DEF Pool, PoolTypes, Holding
<1>3. FreshIsAlive'
  BY DEF Pool, FreshIsAlive
<1>4. SteadyCalls'
  BY DEF Pool, PoolTypes, SteadyCalls
<1>5. QED BY <1>1, <1>2, <1>3, <1>4 DEF Pool

LEMMA NoCallType ==
  /\ NoCall \in Call /\ NoCall.phase = "idle"
  /\ NoCall.slot = NoSlot /\ ~NoCall.steady
  BY ExecutorAssumption DEF NoCall, Call, Kind

LEMMA ConnectRefusedKeeps ==
  ASSUME Pool, NEW c \in Caller, ConnectRefused(c) PROVE Pool'
<1>1. UNCHANGED <<server, slot, poisoned, bumped, faults>> /\ server = "down"
  BY DEF ConnectRefused, pool
<1>2. call \in [Caller -> Call] /\ ~call[c].steady
  BY <1>1 DEF Pool, PoolTypes, SteadyCalls
<1>3. Transient(c, FALSE, call)
  BY DEF ConnectRefused
<1>4. /\ call' \in [Caller -> Call]
      /\ \A d \in Caller \ {c} : call'[d] = call[d]
      /\ call'[c].slot = NoSlot /\ call'[c].phase \in {"idle", "attempt"}
      /\ ~call'[c].steady
  BY <1>2, <1>3, TransientKeepsTypes DEF Pool
<1>5. QED BY <1>1, <1>4, Released DEF Pool, PoolTypes

LEMMA AnsweredKeeps ==
  ASSUME Pool, NEW c \in Caller, Answered(c), UNCHANGED <<server, pool, bumped>>,
         faults' \in 0..MaxFaults
  PROVE  Pool'
<1>1. call' = [call EXCEPT ![c] = NoCall]
  BY DEF Answered
<1>2. UNCHANGED <<slot, poisoned>>
  BY DEF pool
<1>3. QED BY <1>1, <1>2, NoCallType, Released DEF Pool, PoolTypes

LEMMA ConnectLateKeeps ==
  ASSUME Pool, NEW c \in Caller, ConnectLate(c) PROVE Pool'
<1>1. UNCHANGED <<server, pool, bumped>> /\ faults' \in 0..MaxFaults
  BY ExecutorAssumption DEF ConnectLate, Pool, PoolTypes
<1>2. CASE Answered(c)
  BY <1>1, <1>2, AnsweredKeeps
<1>3. ASSUME NEW late \in BOOLEAN,
             Transient(c, late, [call EXCEPT ![c].steady = FALSE])
      PROVE  Pool'
  <2> DEFINE all == [call EXCEPT ![c].steady = FALSE]
  <2>1. /\ all \in [Caller -> Call] /\ ~all[c].steady
        /\ all[c].tries = call[c].tries
        /\ \A d \in Caller \ {c} : all[d] = call[d]
    BY DEF Pool, PoolTypes, Call
  <2> HIDE DEF all
  <2>2. /\ call' \in [Caller -> Call]
        /\ \A d \in Caller \ {c} : call'[d] = call[d]
        /\ call'[c].slot = NoSlot /\ call'[c].phase \in {"idle", "attempt"}
        /\ ~call'[c].steady
    <3>1. Transient(c, late, all)
      BY <1>3 DEF all
    <3>2. QED BY <2>1, <3>1, TransientKeepsTypes DEF Pool
  <2>3. UNCHANGED <<slot, poisoned>>
    BY <1>1 DEF pool
  <2>4. QED BY <1>1, <2>2, <2>3, Released DEF Pool, PoolTypes
<1>4. QED BY <1>2, <1>3 DEF ConnectLate

LEMMA PanicKeeps == ASSUME Pool, NEW c \in Caller, Panic(c) PROVE Pool'
<1>1. /\ call' = [call EXCEPT ![c] = NoCall]
      /\ poisoned' = poisoned \cup {call[c].slot}
      /\ UNCHANGED <<server, slot, bumped>> /\ faults' = faults + 1
      /\ faults < MaxFaults /\ call[c].phase \in {"connect", "use"}
  BY DEF Panic
<1>2. call[c].slot \in Slot
  BY <1>1 DEF Pool, Holding
<1>3. faults' \in 0..MaxFaults
  BY <1>1, ExecutorAssumption DEF Pool, PoolTypes
<1>4. poisoned' \in SUBSET Slot
  BY <1>1, <1>2 DEF Pool, PoolTypes
<1>5. QED BY <1>1, <1>3, <1>4, NoCallType, Released DEF Pool, PoolTypes

\* The failure of a call that uses a connection.  It was steady only in its
\* first attempt: a steady call's second connection is alive.
LEMMA BumpKeeps ==
  ASSUME Pool, NEW c \in Caller, NEW late \in BOOLEAN,
         call[c].phase = "use", late \/ ~slot[call[c].slot].alive,
         Bump(c, late), UNCHANGED <<server, poisoned>>, faults' \in 0..MaxFaults
  PROVE  Pool'
<1> DEFINE all == [d \in Caller |->
                     [call[d] EXCEPT !.fresh = FALSE,
                                     !.steady = @ /\ (d = c => ~late)]]
<1>1. /\ all \in [Caller -> Call]
      /\ \A d \in Caller : /\ all[d].phase = call[d].phase
                           /\ all[d].slot = call[d].slot
                           /\ all[d].tries = call[d].tries
                           /\ all[d].steady => call[d].steady
      /\ late => ~all[c].steady
  <2>1. ASSUME NEW d \in Caller PROVE call[d] \in Call
    BY DEF Pool, PoolTypes
  <2>2. ASSUME NEW d \in Caller
        PROVE  all[d] \in Call
    BY <2>1 DEF Call
  <2>3. ASSUME NEW d \in Caller
        PROVE  /\ all[d].phase = call[d].phase /\ all[d].slot = call[d].slot
               /\ all[d].tries = call[d].tries
               /\ all[d].steady => call[d].steady
    BY <2>1 DEF Call
  <2>4. late => ~all[c].steady
    BY <2>1 DEF Call
  <2>5. all \in [Caller -> Call]
    BY <2>2
  <2>6. QED BY <2>3, <2>4, <2>5
<1>2. /\ slot' = [s \in Slot |-> IF s = call[c].slot THEN NoConn ELSE Stale(s)]
      /\ bumped' = TRUE
      /\ Transient(c, late, all)
  BY DEF Bump
<1> HIDE DEF all
<1>3. /\ call' \in [Caller -> Call]
      /\ \A d \in Caller \ {c} : call'[d] = all[d]
      /\ call'[c].slot = NoSlot
      /\ \/ call'[c].phase = "idle" /\ ~call'[c].steady
         \/ /\ call'[c].phase = "attempt"
            /\ call'[c].tries = call[c].tries + 1
            /\ call'[c].steady = all[c].steady
  BY <1>1, <1>2, TransientKeepsTypes DEF Pool
<1>4. /\ slot' \in [Slot -> Conn \cup {NoConn}]
      /\ \A s \in Slot : slot'[s] \in Conn =>
           slot[s] \in Conn /\ ~slot'[s].fresh /\ slot'[s].alive = slot[s].alive
      /\ \A s \in Slot : s # call[c].slot /\ slot[s] \in Conn => slot'[s] \in Conn
  BY <1>2, NoConnAssumption DEF Pool, PoolTypes, Conn, Stale
<1>5. PoolTypes'
  BY <1>2, <1>3, <1>4 DEF Pool, PoolTypes
<1>6. Holding'
  BY <1>1, <1>3, <1>4, ExecutorAssumption DEF Pool, PoolTypes, Holding
<1>7. FreshIsAlive'
  BY <1>4 DEF FreshIsAlive
<1>8. SteadyCalls'
  <2>1. ASSUME NEW d \in Caller \ {c}, call'[d].steady
        PROVE  /\ server' = "up" /\ call'[d].tries <= 1
               /\ call'[d].tries = 1 =>
                    bumped' /\ (call'[d].phase = "use" => slot'[call'[d].slot].alive)
    <3>1. call[d].steady
      BY <1>1, <1>3, <2>1
    <3>2. call[d].phase = "use" => slot'[call[d].slot] \in Conn /\ call[d].slot \in Slot
      BY <1>4 DEF Pool, Holding
    <3>3. QED BY <1>1, <1>2, <1>3, <1>4, <3>1, <3>2 DEF Pool, SteadyCalls
  <2>2. ASSUME call'[c].steady
        PROVE  /\ server' = "up" /\ call'[c].tries <= 1 /\ bumped'
               /\ call'[c].phase # "use"
    <3>1. call[c].steady /\ ~late /\ call'[c].tries = call[c].tries + 1
      BY <1>1, <1>3, <2>2
    <3>2. call[c].tries = 0
      <4>1. call[c].tries <= 1 /\ call[c].tries # 1
        BY <3>1 DEF Pool, SteadyCalls
      <4>2. call[c].tries \in Nat
        BY ExecutorAssumption DEF Pool, PoolTypes, Call
      <4>3. QED BY <4>1, <4>2
    <3>3. QED BY <1>2, <1>3, <3>1, <3>2 DEF Pool, SteadyCalls
  <2>3. QED BY <2>1, <2>2 DEF SteadyCalls
<1>9. QED BY SMTT(30), <1>5, <1>6, <1>7, <1>8 DEF Pool

LEMMA UseBrokenKeeps == ASSUME Pool, NEW c \in Caller, UseBroken(c) PROVE Pool'
  BY BumpKeeps DEF UseBroken, Pool, PoolTypes

LEMMA UseLateKeeps == ASSUME Pool, NEW c \in Caller, UseLate(c) PROVE Pool'
<1>1. faults' \in 0..MaxFaults
  BY ExecutorAssumption DEF UseLate, Pool, PoolTypes
<1>2. QED BY <1>1, BumpKeeps DEF UseLate

-----------------------------------------------------------------------------
\* The server.
LEMMA CrashKeeps == ASSUME Pool, Crash PROVE Pool'
<1>1. /\ server' = "down" /\ bumped' = FALSE /\ UNCHANGED poisoned
      /\ faults' \in 0..MaxFaults
      /\ slot' = [s \in Slot |-> IF slot[s] = NoConn THEN NoConn
                                ELSE [slot[s] EXCEPT !.alive = FALSE]]
      /\ call' = [c \in Caller |-> [call[c] EXCEPT !.steady = FALSE]]
  BY ExecutorAssumption DEF Crash, Pool, PoolTypes
<1>2. /\ slot' \in [Slot -> Conn \cup {NoConn}]
      /\ \A s \in Slot : slot[s] \in Conn => slot'[s] \in Conn
  BY <1>1, NoConnAssumption DEF Pool, PoolTypes, Conn
<1>3. /\ call' \in [Caller -> Call]
      /\ \A c \in Caller : /\ call'[c].phase = call[c].phase
                           /\ call'[c].slot = call[c].slot
                           /\ ~call'[c].steady
  BY <1>1 DEF Pool, PoolTypes, Call
<1>4. PoolTypes'
  BY <1>1, <1>2, <1>3 DEF Pool, PoolTypes
<1>5. Holding'
  BY <1>2, <1>3 DEF Pool, Holding
<1>6. FreshIsAlive' /\ SteadyCalls'
  BY <1>1, <1>3 DEF FreshIsAlive, SteadyCalls
<1>7. QED BY <1>4, <1>5, <1>6 DEF Pool

LEMMA ServerKeeps == ASSUME Pool, Restart \/ Usurp PROVE Pool'
  BY DEF Pool, PoolTypes, Holding, FreshIsAlive, SteadyCalls, Restart, Usurp, pool

-----------------------------------------------------------------------------
Inv == Pool /\ BreakerTypeOK /\ Spacing

LEMMA InitInv == Init => Inv
<1> SUFFICES ASSUME Init PROVE Inv
  OBVIOUS
<1>1. BreakerTypeOK /\ Spacing
  BY BreakerInitTypes DEF Init
<1>2. PoolTypes
  <2>1. /\ server \in {"up", "down", "foreign"} /\ poisoned \in SUBSET Slot
        /\ slot \in [Slot -> Conn \cup {NoConn}] /\ faults \in 0..MaxFaults
    BY ExecutorAssumption DEF Init
  <2>2. call \in [Caller -> Call] /\ bumped \in BOOLEAN
    BY NoCallType DEF Init
  <2>3. QED BY <2>1, <2>2 DEF PoolTypes
<1>3. Holding /\ FreshIsAlive /\ SteadyCalls
  BY NoCallType, ExecutorAssumption DEF Init, Holding, FreshIsAlive, SteadyCalls
<1>4. QED BY <1>1, <1>2, <1>3 DEF Inv, Pool

\* Every action of the pool leaves the breaker alone or is one of the
\* breaker's steps.
LEMMA NextBreaker ==
  ASSUME [Next]_vars
  PROVE  \/ AdmitClosed \/ AdmitProbe \/ OnSuccess \/ OnFailure \/ Tick
         \/ UNCHANGED <<breaker, sinceProbe>>
<1>1. ASSUME NEW c \in Caller, Start(c) PROVE AdmitClosed \/ AdmitProbe
  BY <1>1 DEF Start
<1>2. ASSUME NEW c \in Caller, NEW late, NEW all, Transient(c, late, all)
      PROVE  OnFailure \/ UNCHANGED <<breaker, sinceProbe>>
  BY <1>2 DEF Transient
<1>3. ASSUME NEW c \in Caller, Answered(c) PROVE OnSuccess
  BY <1>3 DEF Answered
<1>4. ASSUME NEW c \in Caller, CallStep(c) \/ ConnectLate(c) \/ UseLate(c)
      PROVE  OnSuccess \/ OnFailure \/ UNCHANGED <<breaker, sinceProbe>>
  BY <1>2, <1>3, <1>4
  DEF CallStep, TakeSlot, Connect, ConnectRefused, ServerRefused, Use, UseBroken,
      ConnectLate, UseLate, Bump
<1>5. CASE UNCHANGED vars
  BY <1>5 DEF vars
<1>6. CASE Next
  BY <1>1, <1>4, <1>6 DEF Next, Panic, Crash, Restart, Usurp, Clock
<1>7. QED BY <1>5, <1>6

LEMMA NextPool == ASSUME Pool, [Next]_vars PROVE Pool'
<1>1. ASSUME NEW c \in Caller, CallStep(c) PROVE Pool'
  <2>1. CASE Use(c) \/ ServerRefused(c)
    BY <2>1, AnsweredKeeps DEF Use, ServerRefused, Pool, PoolTypes
  <2>2. QED
    BY <1>1, <2>1, TakeSlotKeeps, ConnectKeeps, ConnectRefusedKeeps, UseBrokenKeeps
    DEF CallStep
<1>2. CASE Clock \/ UNCHANGED vars
  BY <1>2 DEF Clock, vars, pool, Pool, PoolTypes, Holding, FreshIsAlive, SteadyCalls
<1>3. QED
  BY <1>1, <1>2, StartKeeps, ConnectLateKeeps, UseLateKeeps, PanicKeeps, CrashKeeps,
     ServerKeeps
  DEF Next

LEMMA NextInv == Inv /\ [Next]_vars => Inv'
  BY NextPool, NextBreaker, BreakerSteps, BreakerUnchanged DEF Inv

THEOREM Invariance == Spec => []Inv
  BY InitInv, NextInv, PTL DEF Spec

(* The variables keep their types, for every pool, however many callers.   *)
THEOREM TypeCorrect == Spec => []ExecutorTypeOK
<1>1. Inv => ExecutorTypeOK
  BY DEF Inv, Pool, PoolTypes, ExecutorTypeOK
<1>2. QED BY <1>1, Invariance, PTL

(* However many stale connections and however many callers and slots there *)
(* are, a call that starts once Moon is back loses one attempt at most.    *)
THEOREM RestartCostsOneAttempt == Spec => []BurnsOneRetry
<1>1. Inv => BurnsOneRetry
  BY DEF Inv, Pool, SteadyCalls, BurnsOneRetry
<1>2. QED BY <1>1, Invariance, PTL

-----------------------------------------------------------------------------
\* No answer and no failure makes a call a probe.
LEMMA NoProbeByTransient ==
  ASSUME NEW c \in Caller, NEW d \in Caller, NEW late \in BOOLEAN,
         NEW all \in [Caller -> Call], Transient(d, late, all), call'[c].probe
  PROVE  all[c].probe
<1>1. CASE Retries(d, late)
  BY <1>1 DEF Transient, Call
<1>2. CASE ~Retries(d, late)
  BY <1>2 DEF Transient, NoCall
<1>3. QED BY <1>1, <1>2

LEMMA NoProbeByAnswer ==
  ASSUME PoolTypes, NEW c \in Caller, NEW d \in Caller, Answered(d), call'[c].probe
  PROVE  call[c].probe
  BY DEF Answered, NoCall, PoolTypes

LEMMA NoProbeByAttempt ==
  ASSUME PoolTypes, NEW c \in Caller, NEW d \in Caller, call'[c].probe,
         CallStep(d) \/ ConnectLate(d) \/ UseLate(d) \/ Panic(d)
  PROVE  call[c].probe
<1>1. ASSUME NEW s \in Slot, TakeSlot(d, s) PROVE call[c].probe
  BY <1>1 DEF TakeSlot, PoolTypes, Call
<1>2. CASE Connect(d)
  BY <1>2 DEF Connect, PoolTypes, Call
<1>3. CASE Answered(d)
  BY <1>3, NoProbeByAnswer
<1>4. CASE ConnectRefused(d)
  BY <1>4, NoProbeByTransient DEF ConnectRefused, PoolTypes
<1>5. ASSUME NEW late \in BOOLEAN, Bump(d, late) PROVE call[c].probe
  <2> DEFINE all == [e \in Caller |->
                       [call[e] EXCEPT !.fresh = FALSE,
                                       !.steady = @ /\ (e = d => ~late)]]
  <2>1. all \in [Caller -> Call] /\ all[c].probe = call[c].probe
    BY ZenonT(60) DEF PoolTypes, Call
  <2>2. Transient(d, late, all)
    BY <1>5 DEF Bump
  <2> HIDE DEF all
  <2>3. QED BY <2>1, <2>2, NoProbeByTransient
<1>6. CASE ConnectLate(d)
  <2>1. ASSUME NEW late \in BOOLEAN,
               Transient(d, late, [call EXCEPT ![d].steady = FALSE])
        PROVE  call[c].probe
    <3> DEFINE all == [call EXCEPT ![d].steady = FALSE]
    <3>1. all \in [Caller -> Call] /\ all[c].probe = call[c].probe
      BY ZenonT(60) DEF PoolTypes, Call
    <3>2. Transient(d, late, all)
      BY <2>1
    <3> HIDE DEF all
    <3>3. QED BY <3>1, <3>2, NoProbeByTransient
  <2>2. QED BY <1>3, <1>6, <2>1 DEF ConnectLate
<1>7. CASE Panic(d)
  BY <1>7 DEF Panic, NoCall, PoolTypes
<1>8. QED
  BY <1>1, <1>2, <1>3, <1>4, <1>5, <1>6, <1>7
  DEF CallStep, Use, ServerRefused, UseBroken, UseLate

\* Only Start makes a call a probe, and only where the breaker admits one.
LEMMA ProbesStart ==
  ASSUME PoolTypes, [Next]_vars, NEW c \in Caller, StartsProbe(c)
  PROVE  AdmitProbe
<1>1. ~call[c].probe /\ call'[c].probe
  BY DEF StartsProbe
<1>2. ASSUME NEW d \in Caller, Start(d) PROVE AdmitProbe
  <2>1. PICK k \in Kind : call' = [call EXCEPT ![d] =
          [phase |-> "attempt", kind |-> k, tries |-> 0, slot |-> NoSlot,
           fresh |-> FALSE, probe |-> ~IsClosed, steady |-> server = "up"]]
    BY <1>2 DEF Start
  <2>2. c = d /\ ~IsClosed
    BY <1>1, <2>1 DEF PoolTypes
  <2>3. QED BY <1>2, <2>2 DEF Start, AdmitClosed
<1>3. CASE Crash
  BY <1>1, <1>3 DEF Crash, PoolTypes, Call
<1>4. CASE Restart \/ Usurp \/ Clock \/ UNCHANGED vars
  BY <1>1, <1>4 DEF Restart, Usurp, Clock, vars
<1>5. QED
  BY <1>1, <1>2, <1>3, <1>4, NoProbeByAttempt DEF Next

(* Whatever the callers that the breaker let in before do, and whenever    *)
(* their answers arrive, the next probe is a cooldown away.                *)
THEOREM ProbesKeepDistance == Spec => ProbesSpaced
<1>1. ASSUME Inv, [Next]_vars, NEW c \in Caller, StartsProbe(c)
      PROVE  sinceProbe >= Cooldown - Skew
  <2>1. ~IsClosed /\ breaker.left = 0
    BY <1>1, ProbesStart DEF Inv, Pool, AdmitProbe
  <2>2. QED BY <1>1, <2>1, BreakerAssumption DEF Inv, Spacing, BreakerTypeOK
<1>2. Inv /\ [Next]_vars =>
        [\A c \in Caller : StartsProbe(c) => sinceProbe >= Cooldown - Skew]_vars
  BY <1>1
<1>3. QED BY <1>2, Invariance, PTL DEF Spec, ProbesSpaced

-----------------------------------------------------------------------------
(***************************************************************************)
(* What a set of indices weighs, and the lightest sets.                     *)
(***************************************************************************)
Weight(f, n, T) == SumOf([i \in 1..n |-> IF i \in T THEN f[i] ELSE 0])

LEMMA WeightIs ==
  ASSUME NEW n \in Nat, NEW f \in [1..n -> Int], NEW T
  PROVE  /\ Weight(f, n, T) \in Int
         /\ T = {} => Weight(f, n, T) = 0
         /\ \A x \in 1..n : x \notin T => Weight(f, n, T \cup {x}) = Weight(f, n, T) + f[x]
<1>1. ASSUME NEW U
      PROVE  \E q \in Seq(Int) : /\ Len(q) = n /\ Weight(f, n, U) = SumOf(q)
                                 /\ \A i \in 1..n : q[i] = IF i \in U THEN f[i] ELSE 0
  <2>1. PICK q : q = [i \in 1..n |-> IF i \in U THEN f[i] ELSE 0]
    OBVIOUS
  <2>2. q \in Seq(Int) /\ Len(q) = n /\ \A i \in 1..n : q[i] = IF i \in U THEN f[i] ELSE 0
    BY <2>1
  <2>3. QED BY <2>1, <2>2 DEF Weight
<1>2. PICK a \in Seq(Int) : /\ Len(a) = n /\ Weight(f, n, T) = SumOf(a)
                            /\ \A i \in 1..n : a[i] = IF i \in T THEN f[i] ELSE 0
  BY <1>1
<1>3. PICK g : /\ g = PartSums(a) /\ g[0] = 0 /\ \A k \in 1..n : g[k] = g[k - 1] + a[k]
               /\ SumOf(a) = g[n] /\ \A k \in 0..n : g[k] \in Int
  BY <1>2, Sums DEF SumOf
<1>4. n \in 0..n
  OBVIOUS
<1>5. ASSUME T = {} PROVE g[n] = 0
  <2> DEFINE S == {k \in 0..n : g[k] = 0}
  <2>1. 0 \in S
    BY <1>3
  <2>2. ASSUME NEW k \in 0..(n - 1), k \in S PROVE k + 1 \in S
    <3>1. k + 1 \in 1..n /\ k + 1 \in 0..n /\ k + 1 - 1 = k
      OBVIOUS
    <3>2. a[k + 1] = 0 /\ g[k + 1] = g[k] + a[k + 1] /\ g[k] = 0
      BY <1>2, <1>3, <1>5, <2>2, <3>1
    <3>3. QED BY <3>1, <3>2
  <2>3. n \in S
    <3> HIDE DEF S
    <3>1. QED BY <1>4, <2>1, <2>2, LoopInduction
  <2>4. QED BY <2>3
<1>6. ASSUME NEW x \in 1..n, x \notin T
      PROVE  Weight(f, n, T \cup {x}) = Weight(f, n, T) + f[x]
  <2>1. PICK b \in Seq(Int) : /\ Len(b) = n /\ Weight(f, n, T \cup {x}) = SumOf(b)
                              /\ \A i \in 1..n : b[i] = IF i \in T \cup {x} THEN f[i] ELSE 0
    BY <1>1
  <2>2. PICK h : /\ h = PartSums(b) /\ h[0] = 0 /\ \A k \in 1..n : h[k] = h[k - 1] + b[k]
                 /\ SumOf(b) = h[n] /\ \A k \in 0..n : h[k] \in Int
    BY <2>1, Sums DEF SumOf
  <2>3. PICK w \in Int : w = f[x]
    OBVIOUS
  <2> DEFINE S == {k \in 0..n : h[k] = g[k] + IF x <= k THEN w ELSE 0}
  <2>4. 0 \in S
    BY <1>3, <2>2
  <2>5. ASSUME NEW k \in 0..(n - 1), k \in S PROVE k + 1 \in S
    <3>1. k + 1 \in 1..n /\ k + 1 \in 0..n /\ k + 1 - 1 = k /\ k \in 0..n
      OBVIOUS
    <3>2. /\ g[k + 1] = g[k] + a[k + 1] /\ h[k + 1] = h[k] + b[k + 1]
          /\ g[k] \in Int /\ h[k] \in Int
      BY <1>3, <2>2, <3>1
    <3>3. h[k] = g[k] + IF x <= k THEN w ELSE 0
      BY <2>5
    <3>4. CASE k + 1 = x
      <4>1. a[k + 1] = 0 /\ b[k + 1] = w
        BY <1>2, <1>6, <2>1, <2>3, <3>1, <3>4
      <4>2. ~(x <= k) /\ x <= k + 1
        BY <3>4
      <4>3. h[k + 1] = g[k + 1] + IF x <= k + 1 THEN w ELSE 0
        BY <3>2, <3>3, <4>1, <4>2
      <4>4. QED BY <3>1, <4>3
    <3>5. CASE k + 1 # x
      <4>1. a[k + 1] = b[k + 1] /\ a[k + 1] \in Int
        BY <1>2, <2>1, <3>1, <3>5
      <4>2. x <= k <=> x <= k + 1
        BY <3>5
      <4>3. PICK e \in Int : e = IF x <= k THEN w ELSE 0
        OBVIOUS
      <4>4. h[k] = g[k] + e /\ e = IF x <= k + 1 THEN w ELSE 0
        BY <3>3, <4>2, <4>3
      <4>5. h[k + 1] = g[k + 1] + e
        BY <3>2, <4>1, <4>4
      <4>6. QED BY <3>1, <4>4, <4>5
    <3>6. QED BY <3>4, <3>5
  <2>6. n \in S
    <3> HIDE DEF S
    <3>1. QED BY <1>4, <2>4, <2>5, LoopInduction
  <2>7. x <= n
    OBVIOUS
  <2>8. h[n] = g[n] + w
    BY <2>6, <2>7
  <2>9. QED BY <1>2, <1>3, <2>1, <2>2, <2>3, <2>8
<1>7. QED BY <1>2, <1>3, <1>4, <1>5, <1>6

\* Sets that a function pairs have as many members.
LEMMA SameNumber ==
  ASSUME NEW S, NEW T, IsFiniteSet(S), NEW g \in [S -> T],
         \A i, j \in S : g[i] = g[j] => i = j, \A x \in T : \E i \in S : g[i] = x
  PROVE  IsFiniteSet(T) /\ Cardinality(T) = Cardinality(S)
<1>1. g \in Injection(S, T)
  BY DEF Injection, IsInjective
<1>2. g \in Surjection(S, T)
  BY DEF Surjection
<1>3. g \in Bijection(S, T)
  BY <1>1, <1>2 DEF Bijection
<1>4. QED BY <1>3, FS_Bijection DEF ExistsBijection

\* The order has each member of K once, and c what each weighs: never less than
\* the ones before.
Rises(f, K, order, c) ==
  /\ order \in Seq(K) /\ IsInjective(order) /\ ToSet(order) = K
  /\ c \in Seq(Int) /\ Len(c) = Len(order) /\ \A i \in 1..Len(c) : c[i] = f[order[i]]
  /\ \A i, j \in 1..Len(c) : i < j => c[i] <= c[j]

\* What its first k weigh is what they add up to one by one, and no k of its
\* members weigh less.
LEMMA FirstAreLightest ==
  ASSUME NEW n \in Nat, NEW f \in [1..n -> Int], NEW K \in SUBSET (1..n),
         NEW order, NEW c, Rises(f, K, order, c)
  PROVE  /\ \A k \in 0..Len(c) : Weight(f, n, {order[i] : i \in 1..k}) = PartSums(c)[k]
         /\ \A T \in SUBSET K : /\ Cardinality(T) \in 0..Len(c)
                                /\ PartSums(c)[Cardinality(T)] <= Weight(f, n, T)
<1>1. PICK l \in Nat : l = Len(c) /\ DOMAIN order = 1..l
  BY DEF Rises
<1>2. PICK g : /\ g = PartSums(c) /\ g[0] = 0 /\ \A k \in 1..l : g[k] = g[k - 1] + c[k]
               /\ \A k \in 0..l : g[k] \in Int
  <2>1. c \in Seq(Int)
    BY DEF Rises
  <2>2. QED BY <1>1, <2>1, Sums
<1>3. \A i \in 1..l : /\ order[i] \in K /\ order[i] \in 1..n /\ c[i] = f[order[i]]
                      /\ f[order[i]] \in Int
  <2>1. \A i \in 1..l : order[i] \in K
    <3>1. order \in Seq(K) /\ l = Len(order)
      BY <1>1 DEF Rises
    <3>2. QED BY <3>1
  <2>2. \A i \in 1..l : c[i] = f[order[i]]
    BY <1>1 DEF Rises
  <2>3. QED BY <2>1, <2>2
<1>4. \A i, j \in 1..l : (i # j => order[i] # order[j]) /\ (i < j => c[i] <= c[j])
  BY <1>1 DEF Rises, IsInjective
<1>a. \A x \in K : \E i \in 1..l : order[i] = x
  BY <1>1 DEF Rises, ToSet
<1>5. ASSUME NEW k \in 0..l PROVE Weight(f, n, {order[i] : i \in 1..k}) = g[k]
  <2> DEFINE first(j) == {order[i] : i \in 1..j}
             S == {j \in 0..l : Weight(f, n, first(j)) = g[j]}
  <2>1. 0 \in S
    <3>1. first(0) = {}
      OBVIOUS
    <3>2. Weight(f, n, first(0)) = 0
      <4> HIDE DEF first
      <4>1. QED BY <3>1, WeightIs
    <3>3. QED BY <1>2, <3>2
  <2>2. ASSUME NEW j \in 0..(l - 1), j \in S PROVE j + 1 \in S
    <3>1. /\ j + 1 \in 1..l /\ j + 1 \in 0..l /\ j + 1 - 1 = j /\ j \in 0..l
          /\ 1..(j + 1) = (1..j) \cup {j + 1} /\ \A i \in 1..j : i \in 1..l /\ i # j + 1
      OBVIOUS
    <3>2. PICK x \in 1..n : x = order[j + 1]
      BY <1>3, <3>1
    <3>3. first(j + 1) = first(j) \cup {x}
      BY <3>1, <3>2
    <3>4. x \notin first(j)
      BY <1>4, <3>1, <3>2
    <3>5. Weight(f, n, first(j)) = g[j]
      BY <2>2
    <3>6. g[j + 1] = g[j] + f[x]
      BY <1>2, <1>3, <3>1, <3>2
    <3> HIDE DEF first
    <3>7. Weight(f, n, first(j + 1)) = g[j + 1]
      BY <3>3, <3>4, <3>5, <3>6, WeightIs
    <3>8. QED BY <3>1, <3>7
  <2>3. k \in S
    <3> HIDE DEF S
    <3>1. QED BY <2>1, <2>2, LoopInduction
  <2>4. QED BY <2>3
<1>6. IsFiniteSet(K) /\ Cardinality(K) = l
  <2>1. IsFiniteSet(1..l) /\ Cardinality(1..l) = l
    BY FS_Interval
  <2>2. order \in [1..l -> K]
    BY <1>1 DEF Rises
  <2>3. \A i, j \in 1..l : order[i] = order[j] => i = j
    BY <1>4
  <2>4. QED BY <1>a, <2>1, <2>2, <2>3, SameNumber
<1>7. ASSUME NEW T \in SUBSET K
      PROVE  IsFiniteSet(T) /\ Cardinality(T) \in Nat /\ Cardinality(T) \in 0..l
  <2>1. IsFiniteSet(T) /\ Cardinality(T) <= l
    BY <1>6, FS_Subset
  <2>2. Cardinality(T) \in Nat
    BY <2>1, FS_CardinalityType
  <2>3. QED BY <2>1, <2>2
\* T has a member whose place in the order is not below their number.
<1>8. ASSUME NEW T \in SUBSET K, NEW k \in 1..l, Cardinality(T) = k
      PROVE  \E x \in T : f[x] >= c[k]
  <2> DEFINE P == {i \in 1..l : order[i] \in T}
  <2>1. IsFiniteSet(P) /\ P \subseteq Int
    <3>1. IsFiniteSet(1..l) /\ P \in SUBSET (1..l)
      BY FS_Interval
    <3>2. QED BY <3>1, FS_Subset
  <2>2. Cardinality(P) = k
    <3> DEFINE at == [i \in P |-> order[i]]
    <3>1. \A x \in T : \E i \in P : order[i] = x
      BY <1>a
    <3>2. at \in [P -> T] /\ \A i \in P : at[i] = order[i]
      OBVIOUS
    <3>3. \A i, j \in P : at[i] = at[j] => i = j
      BY <1>4, <3>2
    <3>4. \A x \in T : \E i \in P : at[i] = x
      BY <3>1, <3>2
    <3> HIDE DEF P, at
    <3>5. Cardinality(T) = Cardinality(P)
      BY <2>1, <3>2, <3>3, <3>4, SameNumber
    <3>6. QED BY <1>8, <3>5
  <2>3. P # {}
    <3> HIDE DEF P
    <3>1. QED BY <2>1, <2>2, FS_EmptySet
  <2>4. PICK m \in P : \A i \in P : i <= m
    <3> HIDE DEF P
    <3>1. QED BY <2>1, <2>3, LastOf
  <2>5. m \in 1..l /\ order[m] \in T /\ P \subseteq 1..m
    BY <2>4
  <2>6. k <= m
    <3> HIDE DEF P
    <3>1. PICK j \in Nat : j = m
      BY <2>5
    <3>2. IsFiniteSet(1..j) /\ Cardinality(1..j) = j
      BY FS_Interval
    <3>3. QED BY <2>2, <2>5, <3>1, <3>2, FS_Subset
  <2>7. c[k] <= c[m]
    BY <1>3, <1>4, <2>5, <2>6
  <2>8. c[m] = f[order[m]] /\ c[k] \in Int /\ c[m] \in Int
    BY <1>3, <2>5
  <2>9. QED BY <2>5, <2>7, <2>8
<1> DEFINE S == {k \in 0..l : \A T \in SUBSET K : Cardinality(T) = k => g[k] <= Weight(f, n, T)}
<1>9. 0 \in S
  <2>1. ASSUME NEW T \in SUBSET K, Cardinality(T) = 0 PROVE g[0] <= Weight(f, n, T)
    <3>1. T = {}
      BY <1>7, <2>1, FS_EmptySet
    <3>2. QED BY <1>2, <3>1, WeightIs
  <2>2. QED BY <2>1
<1>10. ASSUME NEW k \in 0..(l - 1), k \in S PROVE k + 1 \in S
  <2>1. k + 1 \in 1..l /\ k + 1 \in 0..l /\ k + 1 - 1 = k /\ k \in 0..l
    OBVIOUS
  <2>2. ASSUME NEW T \in SUBSET K, Cardinality(T) = k + 1 PROVE g[k + 1] <= Weight(f, n, T)
    <3>1. PICK x \in T : f[x] >= c[k + 1]
      BY <1>8, <2>1, <2>2
    <3>2. PICK U \in SUBSET K : U = T \ {x}
      OBVIOUS
    <3>3. Cardinality(U) = k /\ T = U \cup {x} /\ x \notin U /\ x \in 1..n
      BY <1>7, <2>2, <3>2, FS_RemoveElement
    <3>4. g[k] <= Weight(f, n, U)
      BY <1>10, <3>3
    <3>5. /\ Weight(f, n, T) = Weight(f, n, U) + f[x] /\ Weight(f, n, U) \in Int
          /\ f[x] \in Int
      BY <3>3, WeightIs
    <3>6. g[k + 1] = g[k] + c[k + 1] /\ g[k] \in Int /\ c[k + 1] \in Int
      <4>1. g[k + 1] = g[k] + c[k + 1] /\ g[k] \in Int
        BY <1>2, <2>1
      <4>2. c[k + 1] \in Int
        BY <1>3, <2>1
      <4>3. QED BY <4>1, <4>2
    <3>7. QED BY <3>1, <3>4, <3>5, <3>6
  <2>3. QED BY <2>1, <2>2
<1>11. \A k \in 0..l : k \in S
  <2> HIDE DEF S
  <2>1. QED BY <1>9, <1>10, LoopInduction
<1>12. ASSUME NEW T \in SUBSET K
       PROVE  Cardinality(T) \in 0..l /\ g[Cardinality(T)] <= Weight(f, n, T)
  BY <1>7, <1>11
<1>13. QED BY <1>1, <1>2, <1>5, <1>12


-----------------------------------------------------------------------------
(***************************************************************************)
(* The terms in the order of their frequencies, and what they cost.         *)
(***************************************************************************)
\* Rarest(q) has each known term of q once, and no term is rarer than one before it.
LEMMA RarestIs ==
  ASSUME df \in [Legal -> Int], NEW q \in Seq(Legal), NEW K, K = {i \in DOMAIN q : df[q[i]] > 0}
  PROVE  /\ K \in SUBSET (1..Len(q)) /\ Rarest(q) \in Seq(K) /\ IsInjective(Rarest(q))
         /\ ToSet(Rarest(q)) = K /\ Len(Rarest(q)) \in Nat
         /\ \A i, j \in 1..Len(Rarest(q)) :
              i < j => df[q[Rarest(q)[i]]] <= df[q[Rarest(q)[j]]]
<1>1. PICK n \in Nat : n = Len(q)
  OBVIOUS
<1>2. /\ IsFiniteSet(K) /\ K \in SUBSET (1..n) /\ K \subseteq Int
      /\ \A i \in K : df[q[i]] \in Int
  <2>1. DOMAIN q = 1..n /\ \A i \in 1..n : q[i] \in Legal
    BY <1>1
  <2>2. K \in SUBSET (1..n)
    BY <2>1
  <2>3. IsFiniteSet(1..n)
    BY FS_Interval
  <2>4. IsFiniteSet(K)
    BY <2>2, <2>3, FS_Subset
  <2>5. QED BY <2>1, <2>2, <2>4
<1>3. PICK u : u = [i \in K |-> 0]
  OBVIOUS
<1>4. PICK v : v = [i \in K |-> df[q[i]]]
  OBVIOUS
<1>5. PICK w : w = [i \in K |-> i]
  OBVIOUS
<1>6. PICK R : R = Sorting(K, u, v, w)
  OBVIOUS
<1>7. InOneOrder(K, R)
  <2>1. \A i \in K : u[i] \in Int /\ v[i] \in Int /\ w[i] \in Int
    BY <1>2, <1>3, <1>4, <1>5
  <2>2. \A i, j \in K : v[i] = v[j] /\ w[i] = w[j] => i = j
    BY <1>5
  <2>3. QED BY <1>2, <1>6, <2>1, <2>2, SortingOrders
<1>8. \A i, j \in K : <<i, j>> \in R <=> (\/ df[q[i]] < df[q[j]]
                                          \/ df[q[i]] = df[q[j]] /\ i < j)
  BY <1>3, <1>4, <1>5, <1>6 DEF Sorting
<1>9. \A j \in K : {i \in K : df[q[i]] < df[q[j]] \/ (df[q[i]] = df[q[j]] /\ i < j)}
                     = Ahead(K, R, j)
  BY <1>8 DEF Ahead
<1> DEFINE chosen(k) == CHOOSE j \in K : Cardinality({i \in K :
             df[q[i]] < df[q[j]] \/ (df[q[i]] = df[q[j]] /\ i < j)}) = k - 1
           listed(k) == CHOOSE j \in K : Cardinality(Ahead(K, R, j)) = k - 1
           m == Cardinality(K)
<1>10. ASSUME NEW k PROVE chosen(k) = listed(k)
  BY <1>9, Zenon
<1>11. ListedBy(K, R) = [k \in 1..m |-> listed(k)]
  BY DEF ListedBy
<1>12. Rarest(q) = [k \in 1..m |-> chosen(k)]
  BY DEF Rarest, InOrder
<1> HIDE DEF chosen, listed, m
<1>13. PICK s : s = Rarest(q) /\ s = ListedBy(K, R)
  BY <1>10, <1>11, <1>12
<1>14. /\ s \in Seq(K) /\ IsInjective(s) /\ ToSet(s) = K /\ Len(s) = Cardinality(K)
       /\ \A i, j \in 1..Cardinality(K) : i < j <=> <<s[i], s[j]>> \in R
  <2>1. /\ ListedBy(K, R) \in Seq(K) /\ IsInjective(ListedBy(K, R)) /\ ToSet(ListedBy(K, R)) = K
        /\ Len(ListedBy(K, R)) = Cardinality(K)
        /\ \A i, j \in 1..Cardinality(K) :
             i < j <=> <<ListedBy(K, R)[i], ListedBy(K, R)[j]>> \in R
    BY <1>7, ListedIs
  <2>2. QED BY <1>13, <2>1
<1>15. PICK l \in Nat : l = Len(s) /\ \A i \in 1..l : s[i] \in K
  <2>1. s \in Seq(K)
    BY <1>14
  <2>2. QED BY <2>1
<1>16. ASSUME NEW i \in 1..l, NEW j \in 1..l, i < j PROVE df[q[s[i]]] <= df[q[s[j]]]
  <2>1. <<s[i], s[j]>> \in R /\ s[i] \in K /\ s[j] \in K
    BY <1>14, <1>15, <1>16
  <2>2. df[q[s[i]]] < df[q[s[j]]] \/ df[q[s[i]]] = df[q[s[j]]]
    BY <1>8, <2>1
  <2>3. df[q[s[i]]] \in Int /\ df[q[s[j]]] \in Int
    BY <1>2, <2>1
  <2>4. QED BY <2>2, <2>3
<1>17. QED BY <1>1, <1>2, <1>13, <1>14, <1>15, <1>16

\* c is the square of each frequency, in that order.
Squared(q, c) ==
  /\ Len(c) = Len(Rarest(q))
  /\ \A i \in 1..Len(c) : c[i] = df[q[Rarest(q)[i]]] * df[q[Rarest(q)[i]]]

\* What each term costs.
LEMMA CostsRise ==
  ASSUME df \in [Legal -> Int], NEW q \in Seq(Legal), NEW K, K = {i \in DOMAIN q : df[q[i]] > 0},
         NEW f, f = [i \in 1..Len(q) |-> df[q[i]] * df[q[i]]]
  PROVE  /\ f \in [1..Len(q) -> Int]
         /\ \E c \in Seq(Nat) : Rises(f, K, Rarest(q), c) /\ Squared(q, c)
<1>1. PICK n \in Nat : n = Len(q) /\ DOMAIN q = 1..n
  OBVIOUS
<1>2. \A i \in 1..n : df[q[i]] \in Int /\ f[i] = df[q[i]] * df[q[i]]
  <2>1. \A i \in 1..n : q[i] \in Legal
    BY <1>1
  <2>2. QED BY <1>1, <2>1
<1>3. f \in [1..n -> Int]
  <2>1. \A i \in 1..n : f[i] \in Int
    <3>1. \A a \in Int : a * a \in Int
      OBVIOUS
    <3>2. QED BY <1>2, <3>1
  <2>2. QED BY <1>1, <2>1
<1>4. PICK s : s = Rarest(q)
  OBVIOUS
<1>5. /\ K \in SUBSET (1..n) /\ s \in Seq(K) /\ IsInjective(s) /\ ToSet(s) = K /\ Len(s) \in Nat
      /\ \A i, j \in 1..Len(s) : i < j => df[q[s[i]]] <= df[q[s[j]]]
  BY <1>1, <1>4, RarestIs
<1>6. PICK l \in Nat : l = Len(s) /\ \A i \in 1..l : s[i] \in K
  BY <1>5
<1>7. \A i \in 1..l : s[i] \in 1..n /\ df[q[s[i]]] \in Nat
  <2>1. \A i \in K : df[q[i]] > 0 /\ df[q[i]] \in Int /\ i \in 1..n
    BY <1>1, <1>2, <1>5
  <2>2. \A i \in K : df[q[i]] \in Nat
    BY <2>1
  <2>3. QED BY <1>6, <2>1, <2>2
<1>8. PICK c : c = [i \in 1..l |-> f[s[i]]]
  OBVIOUS
<1>9. \A i \in 1..l : c[i] = f[s[i]] /\ c[i] = df[q[s[i]]] * df[q[s[i]]]
  BY <1>2, <1>7, <1>8
<1>10. c \in Seq(Nat) /\ Len(c) = l
  <2>1. \A i \in 1..l : c[i] \in Nat
    <3>1. \A a \in Nat : a * a \in Nat
      OBVIOUS
    <3>2. QED BY <1>7, <1>9, <3>1
  <2>2. QED BY <1>8, <2>1
<1>11. ASSUME NEW i \in 1..l, NEW j \in 1..l, i < j PROVE c[i] <= c[j]
  <2>1. PICK a \in Nat, b \in Nat : a = df[q[s[i]]] /\ b = df[q[s[j]]]
    BY <1>7
  <2>2. a <= b
    BY <1>5, <1>6, <1>11, <2>1
  <2>3. a * a <= a * b
    BY <2>2, Products
  <2>4. b * a <= b * b
    BY <2>2, Products
  <2>5. a * b = b * a /\ a * a \in Int /\ a * b \in Int /\ b * b \in Int
    OBVIOUS
  <2>6. a * a <= b * b
    BY <2>3, <2>4, <2>5
  <2>7. QED BY <1>9, <2>1, <2>6
<1>12. c \in Seq(Int)
  BY <1>10
<1>13. Rises(f, K, s, c)
  BY <1>5, <1>6, <1>9, <1>10, <1>11, <1>12 DEF Rises
<1>14. Squared(q, c)
  BY <1>4, <1>6, <1>9, <1>10 DEF Squared
<1>15. QED BY <1>1, <1>3, <1>4, <1>10, <1>13, <1>14

\* Saturating at each step is saturating at the end.
LEMMA SaturatedIs ==
  ASSUME NEW a \in Nat
  PROVE  /\ Saturated(a) \in Nat /\ Saturated(0) = 0
         /\ Saturated(a) <= Budget <=> a <= Budget
<1>1. PICK top \in Nat, max \in Nat : top = TopCost /\ max = Budget /\ max < top
  BY QueriesAssumption
<1>2. QED BY <1>1 DEF Saturated

LEMMA SaturatedSum ==
  ASSUME NEW a \in Nat, NEW b \in Nat
  PROVE  Saturated(Saturated(a) + Saturated(b)) = Saturated(a + b)
<1>1. PICK top \in Nat : top = TopCost
  BY QueriesAssumption
<1>2. QED BY <1>1 DEF Saturated

LEMMA CostIs ==
  ASSUME NEW q, NEW c \in Seq(Nat), Squared(q, c)
  PROVE  \E d \in Seq(Nat) : /\ Len(d) = Len(c)
                             /\ \A k \in 1..Len(c) : /\ d[k] = Saturated(c[k])
                                                     /\ Cost(q[Rarest(q)[k]]) = d[k]
<1>1. PICK l \in Nat : l = Len(c) /\ \A k \in 1..l : c[k] \in Nat
  OBVIOUS
<1>2. PICK d : d = [k \in 1..l |-> Saturated(c[k])]
  OBVIOUS
<1>3. \A k \in 1..l : Saturated(c[k]) \in Nat
  BY <1>1, SaturatedIs
<1>4. d \in Seq(Nat) /\ Len(d) = l
  BY <1>2, <1>3
<1>5. ASSUME NEW k \in 1..l PROVE Cost(q[Rarest(q)[k]]) = Saturated(c[k])
  <2>1. c[k] = df[q[Rarest(q)[k]]] * df[q[Rarest(q)[k]]]
    BY <1>1 DEF Squared
  <2>2. QED BY <2>1, Zenon DEF Cost
<1>6. QED BY <1>1, <1>2, <1>4, <1>5

\* The running cost is the saturated sum.
LEMMA RunningIs ==
  ASSUME NEW q, NEW c \in Seq(Nat), Squared(q, c)
  PROVE  \A k \in 1..Len(c) : RunningCost(q)[k] <= Budget <=> PartSums(c)[k] <= Budget
<1>0. \A k \in 1..Len(c) : c[k] \in Nat
  OBVIOUS
<1>1. PICK l \in Nat : l = Len(c) /\ l = Len(Rarest(q))
  BY DEF Squared
<1>2. PICK g : g = PartSums(c) /\ g[0] = 0 /\ \A k \in 1..l : g[k] = g[k - 1] + c[k]
  <2>1. c \in Seq(Int)
    OBVIOUS
  <2>2. QED BY <1>1, <2>1, Sums
<1>3. \A k \in 0..l : g[k] \in Nat
  BY <1>1, <1>2, SumsRise
<1>4. PICK d \in Seq(Nat) :
        /\ Len(d) = l
        /\ \A k \in 1..l : d[k] = Saturated(c[k]) /\ Cost(q[Rarest(q)[k]]) = d[k]
  <2>1. \E e \in Seq(Nat) :
          /\ Len(e) = Len(c)
          /\ \A k \in 1..Len(c) : e[k] = Saturated(c[k]) /\ Cost(q[Rarest(q)[k]]) = e[k]
    BY CostIs, Zenon
  <2>2. l = Len(c)
    BY <1>1
  <2>3. QED BY <2>1, <2>2, Zenon
<1>a. \A k \in 1..l : d[k] \in Nat /\ c[k] \in Nat
  <2>1. l = Len(c) /\ l = Len(d)
    BY <1>1, <1>4
  <2>2. \A k \in 1..l : d[k] \in Nat
    BY <2>1
  <2>3. \A k \in 1..l : c[k] \in Nat
    BY <1>0, <2>1, Zenon
  <2>4. QED BY <2>2, <2>3
<1>5. PICK next : next = [p \in Nat \X (1..l) |-> Saturated(p[1] + d[p[2]])]
  OBVIOUS
<1>6. /\ next \in [Nat \X (1..l) -> Nat]
      /\ \A v \in Nat, k \in 1..l : next[<<v, k>>] = Saturated(v + d[k])
  <2>1. ASSUME NEW p \in Nat \X (1..l) PROVE Saturated(p[1] + d[p[2]]) \in Nat
    <3>1. p[1] \in Nat /\ d[p[2]] \in Nat
      BY <1>a
    <3>2. PICK a \in Nat : a = p[1] + d[p[2]]
      BY <3>1
    <3>3. QED BY <3>2, SaturatedIs
  <2>2. QED BY <1>5, <2>1
<1>7. PICK h \in [0..l -> Nat] : RunOf(h, l, 0, next)
  BY <1>6, LoopRuns, 0 \in Nat
<1>8. h = [k \in 0..l |-> IF k = 0 THEN 0 ELSE Saturated(h[k - 1] + Cost(q[Rarest(q)[k]]))]
  <2>1. h[0] = 0
    BY <1>7 DEF RunOf
  <2>2. ASSUME NEW k \in 1..l PROVE h[k] = Saturated(h[k - 1] + Cost(q[Rarest(q)[k]]))
    <3>1. h[k - 1] \in Nat
      OBVIOUS
    <3>2. h[k] = next[<<h[k - 1], k>>]
      BY <1>7 DEF RunOf
    <3>3. h[k] = Saturated(h[k - 1] + d[k])
      BY <1>6, <3>1, <3>2
    <3>4. QED BY <1>4, <3>3
  <2>3. QED BY <2>1, <2>2
<1>9. PICK r : r = RunningCost(q)
  OBVIOUS
<1>10. r = [k \in 0..l |-> IF k = 0 THEN 0 ELSE Saturated(r[k - 1] + Cost(q[Rarest(q)[k]]))]
  BY <1>1, <1>8, <1>9 DEF RunningCost
<1>11. r[0] = 0 /\ \A k \in 1..l : r[k] = Saturated(r[k - 1] + d[k])
  <2>1. 0 \in 0..l /\ \A k \in 1..l : k \in 0..l /\ k # 0
    OBVIOUS
  <2>2. \A k \in 0..l : r[k] = IF k = 0 THEN 0 ELSE Saturated(r[k - 1] + Cost(q[Rarest(q)[k]]))
    BY <1>10
  <2>3. r[0] = 0 /\ \A k \in 1..l : r[k] = Saturated(r[k - 1] + Cost(q[Rarest(q)[k]]))
    BY <2>1, <2>2
  <2>4. \A k \in 1..l : Cost(q[Rarest(q)[k]]) = d[k]
    BY <1>4
  <2>5. QED BY <2>3, <2>4
<1> DEFINE S == {k \in 0..l : r[k] = Saturated(g[k])}
<1>12. 0 \in S
  <2>1. Saturated(0) = 0 /\ 0 \in 0..l
    BY SaturatedIs
  <2>2. QED BY <1>2, <1>11, <2>1
<1>13. ASSUME NEW k \in 0..(l - 1), k \in S PROVE k + 1 \in S
  <2>1. k + 1 \in 1..l /\ k + 1 \in 0..l /\ k + 1 - 1 = k /\ k \in 0..l
    OBVIOUS
  <2>2. PICK a \in Nat, b \in Nat : a = g[k] /\ b = c[k + 1]
    BY <1>3, <1>a, <2>1
  <2>3. r[k + 1] = Saturated(Saturated(a) + Saturated(b))
    <3>1. r[k + 1] = Saturated(r[k] + d[k + 1])
      BY <1>11, <2>1
    <3>2. r[k] = Saturated(a)
      BY <1>13, <2>2
    <3>3. d[k + 1] = Saturated(b)
      BY <1>4, <2>1, <2>2
    <3>4. QED BY <3>1, <3>2, <3>3
  <2>4. g[k + 1] = a + b
    <3>1. PICK j \in 1..l : j = k + 1 /\ j - 1 = k
      BY <2>1
    <3>2. g[j] = g[j - 1] + c[j]
      BY <1>2, Zenon
    <3>3. QED BY <2>2, <3>1, <3>2
  <2>5. r[k + 1] = Saturated(g[k + 1])
    BY <2>3, <2>4, SaturatedSum
  <2>6. QED BY <2>1, <2>5
<1>14. \A k \in 0..l : k \in S
  <2> HIDE DEF S
  <2>1. QED BY <1>12, <1>13, LoopInduction
<1>15. ASSUME NEW k \in 1..l PROVE r[k] <= Budget <=> g[k] <= Budget
  <2>1. k \in 0..l
    OBVIOUS
  <2>2. g[k] \in Nat /\ r[k] = Saturated(g[k])
    BY <1>3, <1>14, <2>1
  <2>3. PICK a \in Nat : a = g[k]
    BY <2>2
  <2>4. Saturated(a) <= Budget <=> a <= Budget
    BY SaturatedIs
  <2>5. QED BY <2>2, <2>3, <2>4
<1>16. QED BY <1>1, <1>2, <1>9, <1>15

\* The sums of numbers never fall.
LEMMA SumsGrow ==
  ASSUME NEW q \in Seq(Nat), NEW i \in 0..Len(q), NEW j \in 0..Len(q), i <= j
  PROVE  PartSums(q)[i] <= PartSums(q)[j]
<1>1. PICK n \in Nat : n = Len(q)
  OBVIOUS
<1>2. PICK g : g = PartSums(q) /\ \A k \in 1..n : g[k] = g[k - 1] + q[k]
  <2>1. q \in Seq(Int)
    OBVIOUS
  <2>2. QED BY <1>1, <2>1, Sums
<1>3. \A k \in 0..n : g[k] \in Nat
  BY <1>1, <1>2, SumsRise
<1>4. \A k \in 1..n : q[k] \in Nat
  BY <1>1
<1> DEFINE S == {k \in 0..n : i <= k => g[i] <= g[k]}
<1>5. 0 \in S
  <2>1. i <= 0 => i = 0
    BY <1>1
  <2>2. g[0] \in Nat
    BY <1>3
  <2>3. QED BY <2>1, <2>2
<1>6. ASSUME NEW k \in 0..(n - 1), k \in S PROVE k + 1 \in S
  <2>1. PICK l \in 1..n : l = k + 1 /\ l - 1 = k /\ k \in 0..n /\ l \in 0..n
    OBVIOUS
  <2>2. g[l] = g[k] + q[l] /\ g[k] \in Nat /\ g[l] \in Nat /\ q[l] \in Nat
    BY <1>2, <1>3, <1>4, <2>1
  <2>3. i <= l => i <= k \/ i = l
    BY <2>1
  <2>4. i <= k => g[i] <= g[k]
    BY <1>6
  <2>5. i \in 0..n
    BY <1>1
  <2>6. g[i] \in Nat
    BY <1>3, <2>5
  <2>7. i <= l => g[i] <= g[l]
    BY <2>2, <2>3, <2>4, <2>6
  <2>8. QED BY <2>1, <2>7
<1>7. j \in S
  <2>1. \A k \in 0..n : k \in S
    <3> HIDE DEF S
    <3>1. QED BY <1>5, <1>6, LoopInduction
  <2>2. QED BY <1>1, <2>1
<1>8. QED BY <1>2, <1>7

\* What is selected: as many of the rarest as the budget and the limit allow.
LEMMA SelectedIs ==
  ASSUME NEW q, NEW c \in Seq(Nat), Squared(q, c)
  PROVE  \E m \in 0..Len(c) :
           /\ Selected(q) = [i \in 1..m |-> q[Rarest(q)[i]]]
           /\ m <= MaxTerms /\ PartSums(c)[m] <= Budget
           /\ m < Len(c) => m + 1 > MaxTerms \/ PartSums(c)[m + 1] > Budget
<1>1. PICK l \in Nat : l = Len(c) /\ l = Len(Rarest(q))
  BY DEF Squared
<1>2. PICK g : g = PartSums(c) /\ g[0] = 0
  <2>1. c \in Seq(Int)
    OBVIOUS
  <2>2. QED BY <2>1, Sums
<1>3. \A k \in 0..l : g[k] \in Nat
  BY <1>1, <1>2, SumsRise
<1>4. PICK r : r = RunningCost(q) /\ \A k \in 1..l : r[k] <= Budget <=> g[k] <= Budget
  BY <1>1, <1>2, RunningIs
<1>5. \A j \in 0..l : Affordable(q, j) <=> \A k \in 1..j : k <= MaxTerms /\ r[k] <= Budget
  BY <1>4 DEF Affordable
<1>6. PICK A : A = {j \in 0..l : Affordable(q, j)}
  OBVIOUS
<1>7. 0 \in A
  BY <1>5, <1>6
<1>8. IsFiniteSet(A) /\ A \subseteq Int
  <2>1. A \in SUBSET (0..l)
    BY <1>6
  <2>2. IsFiniteSet(0..l)
    BY FS_Interval
  <2>3. IsFiniteSet(A)
    BY <2>1, <2>2, FS_Subset
  <2>4. QED BY <2>1, <2>3
<1>9. PICK last \in A : \A j \in A : j <= last
  BY <1>7, <1>8, LastOf
<1>10. last \in 0..l /\ Affordable(q, last) /\ (last < l => ~Affordable(q, last + 1))
  <2>1. last \in 0..l /\ Affordable(q, last)
    BY <1>6
  <2>2. ASSUME last < l PROVE ~Affordable(q, last + 1)
    <3>1. last + 1 \in 0..l /\ ~(last + 1 <= last)
      BY <2>1, <2>2
    <3>2. QED BY <1>6, <1>9, <3>1
  <2>3. QED BY <2>1, <2>2
<1>11. PICK m : m = CHOOSE j \in 0..l : Affordable(q, j) /\ (j < l => ~Affordable(q, j + 1))
  OBVIOUS
<1>12. m \in 0..l /\ Affordable(q, m) /\ (m < l => ~Affordable(q, m + 1))
  BY <1>10, <1>11, Zenon
<1>13. Selected(q) = [i \in 1..m |-> q[Rarest(q)[i]]]
  BY <1>1, <1>11, Zenon DEF Selected
<1>14. PICK max \in Nat, most \in Nat : max = Budget /\ most = MaxTerms
  BY QueriesAssumption
<1>15. m <= MaxTerms /\ g[m] <= Budget
  <2>1. CASE m = 0
    BY <1>2, <1>14, <2>1
  <2>2. CASE m # 0
    <3>1. m \in 1..m /\ m \in 1..l
      BY <1>12, <2>2
    <3>2. m <= MaxTerms /\ r[m] <= Budget
      BY <1>5, <1>12, <3>1
    <3>3. QED BY <1>4, <3>1, <3>2
  <2>3. QED BY <2>1, <2>2
<1>16. ASSUME m < l PROVE m + 1 > MaxTerms \/ g[m + 1] > Budget
  <2>1. PICK j \in 1..l : j = m + 1 /\ j \in 0..l /\ \A k \in 1..j : k \in 1..m \/ k = j
    BY <1>12, <1>16
  <2>2. PICK k \in 1..j : ~(k <= MaxTerms /\ r[k] <= Budget)
    BY <1>5, <1>12, <1>16, <2>1
  <2>3. \A i \in 1..m : i <= MaxTerms /\ r[i] <= Budget
    BY <1>5, <1>12
  <2>4. ~(j <= MaxTerms /\ r[j] <= Budget)
    BY <2>1, <2>2, <2>3
  <2>5. g[j] \in Nat /\ (r[j] <= Budget <=> g[j] <= Budget)
    BY <1>3, <1>4, <2>1
  <2>6. QED BY <1>14, <2>1, <2>4, <2>5
<1>17. QED BY <1>1, <1>2, <1>12, <1>13, <1>15, <1>16

\* The prepared terms are words that may be searched, and none is there twice.
LEMMA PreparedIs ==
  ASSUME NEW words \in Seq(DOMAIN Lower)
  PROVE  Prepared(words) \in Seq(Legal) /\ IsInjective(Prepared(words))
<1>1. PICK n \in Nat : n = Len(words) /\ DOMAIN words = 1..n
  OBVIOUS
<1>2. PICK low : low = [i \in DOMAIN words |-> Lower[words[i]]]
  OBVIOUS
<1>3. PICK kept : kept = {i \in DOMAIN low :
                           low[i] \in Legal /\ \A j \in 1..(i - 1) : low[j] # low[i]}
  OBVIOUS
<1>4. PICK T : T = {i \in kept : Cardinality({j \in kept :
                      \/ Length[low[j]] > Length[low[i]]
                      \/ Length[low[j]] = Length[low[i]] /\ j < i}) < Candidates}
  OBVIOUS
<1>5. Prepared(words) = At(low, T)
  BY <1>2, <1>3, <1>4 DEF Prepared
<1>a. DOMAIN low = 1..n
  BY <1>1, <1>2
<1>6. T \in SUBSET (1..n) /\ \A i \in T : low[i] \in Legal /\ \A j \in 1..(i - 1) : low[j] # low[i]
  BY <1>3, <1>4, <1>a
<1>7. IsFiniteSet(T) /\ T \subseteq Int
  <2>1. IsFiniteSet(1..n)
    BY FS_Interval
  <2>2. IsFiniteSet(T)
    BY <1>6, <2>1, FS_Subset
  <2>3. QED BY <1>6, <2>2
<1>8. ASSUME NEW i \in T, NEW j \in T, low[i] = low[j] PROVE i = j
  <2>1. i \in 1..n /\ j \in 1..n
    BY <1>6
  <2>2. ~(j \in 1..(i - 1)) /\ ~(i \in 1..(j - 1))
    BY <1>6, <1>8
  <2>3. QED BY <2>1, <2>2
<1>9. At(low, T) \in Seq(Legal)
  BY <1>6, <1>7, AtWithin
<1>10. IsInjective(At(low, T))
  BY <1>7, <1>8, AtInjective
<1>11. QED BY <1>5, <1>9, <1>10

-----------------------------------------------------------------------------
(***************************************************************************)
(* The plan.                                                               *)
(***************************************************************************)
\* That s is the best choice of the terms cands at the frequencies d.
CostOf(d, cands, T) ==
  SumOf([i \in DOMAIN cands |-> IF cands[i] \in T THEN d[cands[i]] * d[cands[i]] ELSE 0])
Fits(d, cands, T) == Cardinality(T) <= MaxTerms /\ CostOf(d, cands, T) <= Budget
Known(d, cands) == {t \in {cands[i] : i \in DOMAIN cands} : d[t] > 0}
BestOf(d, cands, s) ==
  LET chosen == {s[i] : i \in DOMAIN s} IN
  /\ chosen \subseteq Known(d, cands) /\ Fits(d, cands, chosen)
  /\ Cardinality(chosen) = Len(s)
  /\ \A T \in SUBSET Known(d, cands) : Fits(d, cands, T) => Cardinality(T) <= Len(s)

\* The places of the terms in T.
PlacesIn(q, T) == {i \in 1..Len(q) : q[i] \in T}

\* A set of terms costs what its places weigh.
LEMMA CostIsWeight ==
  ASSUME NEW q \in Seq(Legal), NEW f, f = [i \in 1..Len(q) |-> df[q[i]] * df[q[i]]], NEW T
  PROVE  CostOf(df, q, T) = Weight(f, Len(q), PlacesIn(q, T))
<1>1. PICK n \in Nat : n = Len(q) /\ DOMAIN q = 1..n
  OBVIOUS
<1>2. PICK a : a = [i \in 1..n |-> IF q[i] \in T THEN df[q[i]] * df[q[i]] ELSE 0]
  OBVIOUS
<1>3. PICK b : b = [i \in 1..n |-> IF i \in PlacesIn(q, T) THEN f[i] ELSE 0]
  OBVIOUS
<1>4. ASSUME NEW i \in 1..n PROVE a[i] = b[i]
  <2>1. i \in PlacesIn(q, T) <=> q[i] \in T
    BY <1>1 DEF PlacesIn
  <2>2. f[i] = df[q[i]] * df[q[i]]
    BY <1>1, Zenon
  <2>3. a[i] = IF q[i] \in T THEN df[q[i]] * df[q[i]] ELSE 0
    BY <1>2, Zenon
  <2>4. b[i] = IF i \in PlacesIn(q, T) THEN f[i] ELSE 0
    BY <1>3, Zenon
  <2>5. QED BY <2>1, <2>2, <2>3, <2>4, Zenon
<1>5. a = b
  BY <1>2, <1>3, <1>4
<1>6. CostOf(df, q, T) = SumOf(a)
  BY <1>1, <1>2, Zenon DEF CostOf
<1>7. Weight(f, n, PlacesIn(q, T)) = SumOf(b)
  BY <1>3, Zenon DEF Weight
<1>8. QED BY <1>1, <1>5, <1>6, <1>7

\* There are as many known terms in a set as places of them.
LEMMA PlacesPaired ==
  ASSUME df \in [Legal -> Int], NEW q \in Seq(Legal), IsInjective(q),
         NEW K, K = {i \in DOMAIN q : df[q[i]] > 0}, NEW T \in SUBSET Known(df, q)
  PROVE  PlacesIn(q, T) \in SUBSET K /\ Cardinality(T) = Cardinality(PlacesIn(q, T))
<1>1. PICK n \in Nat : n = Len(q) /\ DOMAIN q = 1..n
  OBVIOUS
<1>2. PICK P : P = PlacesIn(q, T)
  OBVIOUS
<1>3. \A i : i \in P <=> i \in 1..n /\ q[i] \in T
  BY <1>1, <1>2 DEF PlacesIn
<1>4. \A x \in T : df[x] > 0 /\ \E i \in 1..n : q[i] = x
  BY <1>1 DEF Known
<1>5. P \in SUBSET K /\ P \in SUBSET (1..n)
  BY <1>1, <1>3, <1>4
<1>6. IsFiniteSet(P)
  <2>1. IsFiniteSet(1..n)
    BY FS_Interval
  <2>2. QED BY <1>5, <2>1, FS_Subset
<1>7. PICK g : g = [i \in P |-> q[i]]
  OBVIOUS
<1>8. g \in [P -> T] /\ \A i \in P : g[i] = q[i]
  BY <1>3, <1>7
<1>9. \A i, j \in P : g[i] = g[j] => i = j
  <2>1. \A i, j \in 1..n : q[i] = q[j] => i = j
    BY <1>1 DEF IsInjective
  <2>2. QED BY <1>5, <1>8, <2>1
<1>10. \A x \in T : \E i \in P : g[i] = x
  BY <1>3, <1>4, <1>8
<1>11. Cardinality(T) = Cardinality(P)
  BY <1>6, <1>8, <1>9, <1>10, SameNumber
<1>12. QED BY <1>2, <1>5, <1>11

\* Of the terms, the plan is the best choice.
LEMMA PlannedIsBest ==
  ASSUME df \in [Legal -> Int], NEW q \in Seq(Legal), IsInjective(q)
  PROVE  BestOf(df, q, Selected(q))
<1>1. PICK n \in Nat : n = Len(q) /\ DOMAIN q = 1..n
  OBVIOUS
<1>2. PICK f : f = [i \in 1..n |-> df[q[i]] * df[q[i]]]
  OBVIOUS
<1>3. PICK K : K = {i \in DOMAIN q : df[q[i]] > 0}
  OBVIOUS
<1>4. PICK order : order = Rarest(q)
  OBVIOUS
<1>5. f \in [1..n -> Int] /\ \E c \in Seq(Nat) : Rises(f, K, Rarest(q), c) /\ Squared(q, c)
  BY <1>1, <1>2, <1>3, CostsRise
<1>6. PICK c \in Seq(Nat) : Rises(f, K, order, c) /\ Squared(q, c)
  BY <1>4, <1>5
<1>7. K \in SUBSET (1..n) /\ order \in Seq(K) /\ IsInjective(order)
  BY <1>1, <1>3, <1>4, RarestIs
<1>8. PICK l \in Nat : l = Len(c) /\ l = Len(order) /\ DOMAIN order = 1..l
  BY <1>6, <1>7 DEF Rises
<1>9. PICK g : g = PartSums(c)
  OBVIOUS
<1>10. /\ \A k \in 0..l : Weight(f, n, {order[i] : i \in 1..k}) = g[k]
       /\ \A U \in SUBSET K : Cardinality(U) \in 0..l /\ g[Cardinality(U)] <= Weight(f, n, U)
  <2>1. f \in [1..n -> Int] /\ K \in SUBSET (1..n) /\ Rises(f, K, order, c) /\ n \in Nat
    BY <1>5, <1>6, <1>7
  <2>2. /\ \A k \in 0..Len(c) : Weight(f, n, {order[i] : i \in 1..k}) = PartSums(c)[k]
        /\ \A U \in SUBSET K : /\ Cardinality(U) \in 0..Len(c)
                               /\ PartSums(c)[Cardinality(U)] <= Weight(f, n, U)
    BY <2>1, FirstAreLightest, Zenon
  <2>3. l = Len(c)
    BY <1>8
  <2>4. QED BY <1>9, <2>2, <2>3, Zenon
<1>11. PICK m \in 0..l :
         /\ Selected(q) = [i \in 1..m |-> q[order[i]]] /\ m <= MaxTerms /\ g[m] <= Budget
         /\ m < l => m + 1 > MaxTerms \/ g[m + 1] > Budget
  <2>1. \E m \in 0..Len(c) :
          /\ Selected(q) = [i \in 1..m |-> q[Rarest(q)[i]]]
          /\ m <= MaxTerms /\ PartSums(c)[m] <= Budget
          /\ m < Len(c) => m + 1 > MaxTerms \/ PartSums(c)[m + 1] > Budget
    BY <1>6, SelectedIs, Zenon
  <2>2. l = Len(c)
    BY <1>8
  <2>3. QED BY <1>4, <1>9, <2>1, <2>2, Zenon
<1>12. PICK s : s = Selected(q)
  OBVIOUS
<1>13. Len(s) = m /\ DOMAIN s = 1..m /\ \A i \in 1..m : s[i] = q[order[i]]
  BY <1>11, <1>12
<1>14. \A i \in 1..m : order[i] \in K /\ order[i] \in 1..n /\ i \in 1..l
  <2>1. \A i \in 1..l : order[i] \in K
    BY <1>7, <1>8
  <2>2. \A i \in 1..m : i \in 1..l
    OBVIOUS
  <2>3. \A j \in K : j \in 1..n
    BY <1>7
  <2>4. QED BY <2>1, <2>2, <2>3, Zenon
<1>15. \A i, j \in 1..m : order[i] = order[j] => i = j
  BY <1>7, <1>8, <1>14 DEF IsInjective
<1>16. \A i, j \in 1..n : q[i] = q[j] => i = j
  BY <1>1 DEF IsInjective
<1>17. PICK chosen : chosen = {s[i] : i \in DOMAIN s}
  OBVIOUS
<1>18. chosen \in SUBSET Known(df, q)
  <2>1. ASSUME NEW i \in 1..m PROVE s[i] \in Known(df, q)
    <3>1. PICK j \in K : j = order[i] /\ s[i] = q[j]
      BY <1>13, <1>14
    <3>2. QED BY <1>3, <3>1 DEF Known
  <2>2. QED BY <1>13, <1>17, <2>1
<1>19. PICK first : first = {order[i] : i \in 1..m}
  OBVIOUS
<1>20. PlacesIn(q, chosen) = first
  <2>1. \A i \in 1..m : order[i] \in PlacesIn(q, chosen)
    BY <1>1, <1>13, <1>14, <1>17 DEF PlacesIn
  <2>2. ASSUME NEW j \in PlacesIn(q, chosen) PROVE \E i \in 1..m : j = order[i]
    <3>1. j \in 1..n /\ q[j] \in chosen
      BY <1>1, <2>2 DEF PlacesIn
    <3>2. PICK i \in 1..m : q[j] = q[order[i]]
      BY <1>13, <1>17, <3>1
    <3>3. QED BY <1>14, <1>16, <3>1, <3>2
  <2>3. QED BY <1>19, <2>1, <2>2
<1>21. Cardinality(first) = m
  <2>1. IsFiniteSet(1..m) /\ Cardinality(1..m) = m
    BY FS_Interval
  <2>2. PICK at : at = [i \in 1..m |-> order[i]]
    OBVIOUS
  <2>3. at \in [1..m -> first] /\ \A i \in 1..m : at[i] = order[i]
    BY <1>19, <2>2
  <2>4. \A i, j \in 1..m : at[i] = at[j] => i = j
    BY <1>15, <2>3
  <2>5. \A x \in first : \E i \in 1..m : at[i] = x
    BY <1>19, <2>3
  <2>6. QED BY <2>1, <2>3, <2>4, <2>5, SameNumber
<1>22. Cardinality(chosen) = m
  BY <1>3, <1>18, <1>20, <1>21, PlacesPaired
<1>23. CostOf(df, q, chosen) = g[m]
  <2>1. CostOf(df, q, chosen) = Weight(f, n, first)
    BY <1>1, <1>2, <1>20, CostIsWeight
  <2>2. Weight(f, n, first) = g[m]
    BY <1>10, <1>19
  <2>3. QED BY <2>1, <2>2
<1>24. Fits(df, q, chosen)
  BY <1>11, <1>22, <1>23 DEF Fits
<1>25. PICK max \in Nat, most \in Nat : max = Budget /\ most = MaxTerms
  BY QueriesAssumption
<1>26. ASSUME NEW T \in SUBSET Known(df, q), Fits(df, q, T)
       PROVE  Cardinality(T) <= m
  <2>1. PICK U \in SUBSET K : U = PlacesIn(q, T) /\ Cardinality(T) = Cardinality(U)
    <3>1. PlacesIn(q, T) \in SUBSET K /\ Cardinality(T) = Cardinality(PlacesIn(q, T))
      BY <1>3, PlacesPaired
    <3>2. QED BY <3>1
  <2>2. PICK k \in 0..l : k = Cardinality(U)
    BY <1>10
  <2>3. g[k] <= Weight(f, n, U) /\ Weight(f, n, U) \in Int
    <3>1. Weight(f, n, U) \in Int
      BY <1>5, WeightIs
    <3>2. QED BY <1>10, <2>2, <3>1
  <2>4. k <= MaxTerms /\ Weight(f, n, U) <= Budget
    <3>1. CostOf(df, q, T) = Weight(f, n, U)
      BY <1>1, <1>2, <2>1, CostIsWeight
    <3>2. QED BY <1>26, <2>1, <2>2, <3>1 DEF Fits
  <2>5. \A j \in 0..l : g[j] \in Nat
    BY <1>8, <1>9, SumsRise
  <2>6. ASSUME k > m PROVE FALSE
    <3>1. PICK j \in 0..l : j = m + 1 /\ j <= k /\ m < l
      BY <2>6
    <3>2. g[j] <= g[k]
      BY <1>8, <1>9, <3>1, SumsGrow
    <3>3. g[j] > Budget
      BY <1>11, <1>25, <2>4, <3>1
    <3>4. g[j] \in Nat /\ g[k] \in Nat
      BY <2>5
    <3>5. QED BY <1>25, <2>3, <2>4, <3>2, <3>3, <3>4
  <2>7. k <= m
    BY <2>6
  <2>8. QED BY <2>1, <2>2, <2>7
<1>27. BestOf(df, q, s)
  BY <1>13, <1>17, <1>18, <1>22, <1>24, <1>26 DEF BestOf
<1>28. QED BY <1>12, <1>27

\* What holds of a query in every state.
QueryInv ==
  /\ asked \in Words /\ df \in Frequencies
  /\ qStage = "plan" => terms = Prepared(asked)
  /\ qStage = "search" => BestOf(df, Prepared(asked), terms)

LEMMA QueryTyped ==
  ASSUME QueryInv
  PROVE  df \in [Legal -> Int] /\ Prepared(asked) \in Seq(Legal) /\ IsInjective(Prepared(asked))
<1>1. asked \in Seq(DOMAIN Lower) /\ df \in [Legal -> Int]
  BY QueriesAssumption DEF QueryInv
<1>2. QED BY <1>1, PreparedIs

LEMMA QueryStep ==
  ASSUME QueryInv, [QueriesNext]_queryVars
  PROVE  QueryInv'
<1>1. CASE Prepare
  BY <1>1 DEF Prepare, QueryInv
<1>2. CASE Plan
  <2>1. terms' = Selected(Prepared(asked)) /\ qStage' \in {"done", "search"}
    BY <1>2 DEF Plan, QueryInv
  <2>2. BestOf(df, Prepared(asked), Selected(Prepared(asked)))
    BY QueryTyped, PlannedIsBest
  <2>3. asked' = asked /\ df' = df
    BY <1>2 DEF Plan
  <2>4. QED BY <2>1, <2>2, <2>3 DEF QueryInv
<1>3. CASE Search
  BY <1>3 DEF Search, QueryInv
<1>4. CASE Fuse
  BY <1>4 DEF Fuse, QueryInv
<1>5. CASE Fail
  BY <1>5 DEF Fail, QueryInv
<1>6. CASE Members
  BY <1>6 DEF Members, QueryInv
<1>7. CASE UNCHANGED queryVars
  BY <1>7 DEF queryVars, QueryInv
<1>8. QED BY <1>1, <1>2, <1>3, <1>4, <1>5, <1>6, <1>7 DEF QueriesNext

\* The plan of a text search is the best there is: of the terms the index knows it
\* takes as many as the limit and the budget allow, whatever their frequencies are
\* (bm25, select_terms).
THEOREM BestPlan == QueriesSpec => []PlanBest
<1>1. QueriesInit => QueryInv
  BY DEF QueriesInit, QueryInv
<1>2. QueryInv /\ [QueriesNext]_queryVars => QueryInv'
  BY QueryStep
<1>3. QueryInv => PlanBest
  BY Zenon DEF QueryInv, PlanBest, BestOf, Fits, Known, CostOf
<1>4. QED BY <1>1, <1>2, <1>3, PTL DEF QueriesSpec
=============================================================================
