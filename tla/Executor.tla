------------------------------ MODULE Executor ------------------------------
(***************************************************************************)
(* Executor (crates/laya-store/src/conn.rs): every store call runs through *)
(* a pool of connections, retries, and the circuit breaker.                *)
(*                                                                         *)
(* A slot of the pool is a mutex around at most one connection; a call     *)
(* holds a slot for one attempt.  Connections carry the pool's generation  *)
(* at the time they were opened, and every transport failure bumps the     *)
(* generation; only "older than the current one" is ever asked, so a       *)
(* connection is `fresh` or not, and a bump makes all of them not fresh.   *)
(* A connection is `alive` while the server it was opened to runs.         *)
(***************************************************************************)
EXTENDS Breaker

CONSTANTS
  Caller,      \* threads that make store calls
  Slot,        \* slots of the pool
  NoSlot,      \* no slot held
  NoConn,      \* no connection in a slot
  MaxRetries,  \* StoreConfig::max_retries
  MaxFaults    \* bound of the model: crashes, late answers, panics

ASSUME ExecutorAssumption ==
  NoSlot \notin Slot /\ MaxRetries \in Nat /\ MaxFaults \in Nat

VARIABLES
  server,    \* "up", "down", or "foreign": an answer on the port that
             \* verify_server refuses
  slot,      \* slot[s]: the pooled connection, or NoConn
  poisoned,  \* slots whose mutex a panic poisoned
  call,      \* call[c]: the operation thread c is executing
  bumped,    \* the generation was bumped since the server last went down
             \* (history)
  faults     \* faults so far

pool == <<slot, poisoned>>
vars == <<breaker, sinceProbe, server, pool, call, bumped, faults>>

Kind == {"query", "bulk"}

\* steady: the server has been up, and no answer was late, since the call
\* began (history).
Call == [phase : {"idle", "attempt", "connect", "use"}, kind : Kind,
         tries : 0..MaxRetries, slot : Slot \cup {NoSlot}, fresh : BOOLEAN,
         probe : BOOLEAN, steady : BOOLEAN]
NoCall == [phase |-> "idle", kind |-> "query", tries |-> 0, slot |-> NoSlot,
           fresh |-> FALSE, probe |-> FALSE, steady |-> FALSE]

Conn == [alive : BOOLEAN, fresh : BOOLEAN]
ASSUME NoConnAssumption == NoConn \notin Conn

Free(s) == \A c \in Caller : call[c].slot # s

Init ==
  /\ BreakerInit
  /\ server = "up"
  /\ slot = [s \in Slot |-> NoConn]
  /\ poisoned = {}
  /\ call = [c \in Caller |-> NoCall]
  /\ bumped = FALSE
  /\ faults = 0

-----------------------------------------------------------------------------
\* run: the breaker lets the call pass, as one among others or as a probe.
Start(c) ==
  /\ call[c].phase = "idle"
  /\ AdmitClosed \/ AdmitProbe
  /\ \E k \in Kind :
       call' = [call EXCEPT ![c] =
                  [phase |-> "attempt", kind |-> k, tries |-> 0,
                   slot |-> NoSlot, fresh |-> FALSE, probe |-> ~IsClosed,
                   steady |-> server = "up"]]
  /\ UNCHANGED <<server, pool, bumped, faults>>

Reusable(s) == s \notin poisoned /\ slot[s] # NoConn /\ slot[s].fresh

\* Faulty variant: pooled connections of an older generation are reused.
TakeSlotOfAnyAge(c, s) ==
  /\ call[c].phase = "attempt" /\ Free(s)
  /\ IF s \notin poisoned /\ slot[s] # NoConn
       THEN /\ call' = [call EXCEPT ![c].phase = "use", ![c].slot = s]
            /\ UNCHANGED slot
       ELSE /\ call' = [call EXCEPT ![c].phase = "connect", ![c].slot = s,
                                    ![c].fresh = TRUE]
            /\ slot' = [slot EXCEPT ![s] = NoConn]
  /\ UNCHANGED <<breaker, sinceProbe, server, poisoned, bumped, faults>>

\* attempt: lock a slot and load the generation; a connection of an older
\* generation, or of a poisoned slot, is dropped.
TakeSlot(c, s) ==
  /\ call[c].phase = "attempt" /\ Free(s)
  /\ IF Reusable(s)
       THEN /\ call' = [call EXCEPT ![c].phase = "use", ![c].slot = s]
            /\ UNCHANGED slot
       ELSE /\ call' = [call EXCEPT ![c].phase = "connect", ![c].slot = s,
                                    ![c].fresh = TRUE]
            /\ slot' = [slot EXCEPT ![s] = NoConn]
  /\ UNCHANGED <<breaker, sinceProbe, server, poisoned, bumped, faults>>

\* The attempt failed in transport: try again, or report the failure.  Late
\* answers are not retried for queries.
Retries(c, late) ==
  call[c].tries < MaxRetries /\ (call[c].kind = "bulk" \/ ~late)

\* The calls after c's attempt failed; `all` is what else happened to them.
Transient(c, late, all) ==
  IF Retries(c, late)
    THEN /\ call' = [all EXCEPT ![c].phase = "attempt", ![c].slot = NoSlot,
                       ![c].fresh = FALSE, ![c].tries = @ + 1]
         /\ UNCHANGED <<breaker, sinceProbe>>
    ELSE call' = [all EXCEPT ![c] = NoCall] /\ OnFailure

\* The call ends with an answer of the server; errors are answers too.
Answered(c) == call' = [call EXCEPT ![c] = NoCall] /\ OnSuccess

\* verify_server and connect succeed; the connection gets the generation
\* that was loaded before.
Connect(c) ==
  /\ call[c].phase = "connect" /\ server = "up"
  /\ slot' = [slot EXCEPT ![call[c].slot] =
                [alive |-> TRUE, fresh |-> call[c].fresh]]
  /\ call' = [call EXCEPT ![c].phase = "use"]
  /\ UNCHANGED <<breaker, sinceProbe, server, poisoned, bumped, faults>>

\* Nobody listens: a transport failure that does not bump the generation.
ConnectRefused(c) ==
  /\ call[c].phase = "connect" /\ server = "down"
  /\ Transient(c, FALSE, call)
  /\ UNCHANGED <<server, pool, bumped, faults>>

\* verify_server refuses the server: AuthenticationFailed is not transient.
ServerRefused(c) ==
  /\ call[c].phase = "connect" /\ server = "foreign"
  /\ Answered(c)
  /\ UNCHANGED <<server, pool, bumped, faults>>

\* The server is slow.  verify_server calls it down when its PING is late, a
\* wrong password when its AUTH is; the connect after it times out.
ConnectLate(c) ==
  /\ call[c].phase = "connect" /\ faults < MaxFaults
  /\ \/ Answered(c)
     \/ \E late \in BOOLEAN :
          Transient(c, late, [call EXCEPT ![c].steady = FALSE])
  /\ faults' = faults + 1
  /\ UNCHANGED <<server, pool, bumped>>

Use(c) ==
  /\ call[c].phase = "use" /\ slot[call[c].slot].alive
  /\ Answered(c)
  /\ UNCHANGED <<server, pool, bumped, faults>>

\* The generation goes up: all connections, also those being opened, belong
\* to an older one; c's own is dropped.
Stale(s) == IF slot[s] = NoConn THEN NoConn ELSE [slot[s] EXCEPT !.fresh = FALSE]
Bump(c, late) ==
  /\ slot' = [s \in Slot |-> IF s = call[c].slot THEN NoConn ELSE Stale(s)]
  /\ bumped' = TRUE
  /\ Transient(c, late,
       [d \in Caller |-> [call[d] EXCEPT !.fresh = FALSE,
                                         !.steady = @ /\ (d = c => ~late)]])

\* The server behind the connection is gone: reset or broken pipe.
UseBroken(c) ==
  /\ call[c].phase = "use" /\ ~slot[call[c].slot].alive
  /\ Bump(c, FALSE)
  /\ UNCHANGED <<server, poisoned, faults>>

\* The answer does not come in time.
UseLate(c) ==
  /\ call[c].phase = "use" /\ slot[call[c].slot].alive /\ faults < MaxFaults
  /\ Bump(c, TRUE)
  /\ faults' = faults + 1
  /\ UNCHANGED <<server, poisoned>>

\* The caller panics holding the slot: nothing is reported to the breaker.
Panic(c) ==
  /\ call[c].phase \in {"connect", "use"} /\ faults < MaxFaults
  /\ call' = [call EXCEPT ![c] = NoCall]
  /\ poisoned' = poisoned \cup {call[c].slot}
  /\ faults' = faults + 1
  /\ UNCHANGED <<breaker, sinceProbe, server, slot, bumped>>

-----------------------------------------------------------------------------
\* Moon, the sidecar behind the port.
Crash ==
  /\ server = "up" /\ faults < MaxFaults
  /\ server' = "down"
  /\ slot' = [s \in Slot |-> IF slot[s] = NoConn THEN NoConn
                             ELSE [slot[s] EXCEPT !.alive = FALSE]]
  /\ call' = [c \in Caller |-> [call[c] EXCEPT !.steady = FALSE]]
  /\ bumped' = FALSE
  /\ faults' = faults + 1
  /\ UNCHANGED <<breaker, sinceProbe, poisoned>>

Restart ==
  /\ server \in {"down", "foreign"}
  /\ server' = "up"
  /\ UNCHANGED <<breaker, sinceProbe, pool, call, bumped, faults>>

Usurp ==
  /\ server = "down"
  /\ server' = "foreign"
  /\ UNCHANGED <<breaker, sinceProbe, pool, call, bumped, faults>>

Clock == Tick /\ UNCHANGED <<server, pool, call, bumped, faults>>

CallStep(c) ==
  \/ \E s \in Slot : TakeSlot(c, s)
  \/ Connect(c) \/ ConnectRefused(c) \/ ServerRefused(c)
  \/ Use(c) \/ UseBroken(c)

Next ==
  \/ \E c \in Caller :
       Start(c) \/ CallStep(c) \/ ConnectLate(c) \/ UseLate(c) \/ Panic(c)
  \/ Crash \/ Restart \/ Usurp \/ Clock

Spec == Init /\ [][Next]_vars

\* Time passes and threads run; calls keep coming.
Fairness ==
  /\ WF_vars(Clock)
  /\ \A c \in Caller : WF_vars(CallStep(c))
  /\ WF_vars(\E c \in Caller : Start(c))

FairSpec == Spec /\ Fairness

-----------------------------------------------------------------------------
InFlight(c) == call[c].phase # "idle"

ExecutorTypeOK ==
  /\ BreakerTypeOK
  /\ server \in {"up", "down", "foreign"}
  /\ slot \in [Slot -> Conn \cup {NoConn}]
  /\ poisoned \in SUBSET Slot
  /\ call \in [Caller -> Call]
  /\ bumped \in BOOLEAN
  /\ faults \in 0..MaxFaults

(* conn.rs, Executor::generation: connections opened before a failure "are *)
(* discarded instead of each burning a retry".  However many stale         *)
(* connections a restart of Moon leaves in the pool, and whatever other    *)
(* calls do, a call that starts after it loses one attempt at most.        *)
BurnsOneRetry ==
  \A c \in Caller : InFlight(c) /\ call[c].steady => call[c].tries <= 1

StartsProbe(c) == ~call[c].probe /\ call'[c].probe

(* Whatever calls that began before the breaker opened report late, a      *)
(* server that does not answer gets at most one probe per cooldown.        *)
ProbesSpaced ==
  [][\A c \in Caller : StartsProbe(c) => sinceProbe >= Cooldown - Skew]_vars

(* Once Moon stays up, the breaker does not stay open, also when a probe   *)
(* was lost.                                                               *)
Recovers == <>[](server = "up") => []<>IsClosed
=============================================================================
