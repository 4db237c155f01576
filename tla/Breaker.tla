------------------------------- MODULE Breaker -------------------------------
(***************************************************************************)
(* CircuitBreaker (crates/laya-store/src/breaker.rs): closed, open, half   *)
(* open.                                                                   *)
(*                                                                         *)
(* The code keeps instants (Open{until}, HalfOpen{since}); only the ticks  *)
(* that are left until the next probe may start matter, so `left` counts   *)
(* those: until - now, or since + cooldown - now.  Every method is one     *)
(* critical section, but its caller reads the clock BEFORE it takes the    *)
(* lock: the instant it brings can be up to Skew ticks old, and `left`     *)
(* then starts up to Skew ticks short.                                     *)
(***************************************************************************)
EXTENDS Integers

CONSTANTS
  Threshold,  \* consecutive failed operations that open the breaker
  Cooldown,   \* ticks from opening, or from a probe, to the next probe
  Skew        \* how old the instant given to the breaker can be, in ticks

ASSUME BreakerAssumption ==
  /\ Threshold \in Nat \ {0}
  /\ Cooldown \in Nat \ {0}
  /\ Skew \in 0..Cooldown

VARIABLES
  breaker,    \* the breaker's state
  sinceProbe  \* ticks since the last probe was admitted, at most Cooldown
              \* (history)

Closed(n) == [state |-> "closed", failures |-> n, left |-> 0]
Open(age) == [state |-> "open", failures |-> 0, left |-> Cooldown - age]
HalfOpen(age) == [state |-> "half", failures |-> 0, left |-> Cooldown - age]

IsClosed == breaker.state = "closed"

BreakerInit == breaker = Closed(0) /\ sinceProbe = Cooldown

\* try_acquire: true without a change.
AdmitClosed == IsClosed /\ UNCHANGED <<breaker, sinceProbe>>

\* Faulty variants: an open breaker lets every call pass as a probe; a probe
\* that never reports is never replaced.
AdmitProbeWhenOpen ==
  /\ ~IsClosed
  /\ breaker.state = "open" \/ breaker.left = 0
  /\ \E age \in 0..Skew : breaker' = HalfOpen(age)
  /\ sinceProbe' = 0

AdmitProbeOnce ==
  /\ breaker.state = "open" /\ breaker.left = 0
  /\ \E age \in 0..Skew : breaker' = HalfOpen(age)
  /\ sinceProbe' = 0

\* try_acquire: the cooldown has passed, of an open breaker or of a probe
\* that has not reported yet.  (Before, try_acquire is false and the call
\* returns StoreUnavailable: nothing changes.)
AdmitProbe ==
  /\ ~IsClosed /\ breaker.left = 0
  /\ \E age \in 0..Skew : breaker' = HalfOpen(age)
  /\ sinceProbe' = 0

OnSuccess == breaker' = Closed(0) /\ UNCHANGED sinceProbe

OnFailure ==
  /\ IF IsClosed /\ breaker.failures + 1 < Threshold
       THEN breaker' = Closed(breaker.failures + 1)
       ELSE \E age \in 0..Skew : breaker' = Open(age)
  /\ UNCHANGED sinceProbe

Tick ==
  /\ breaker.left > 0 \/ sinceProbe < Cooldown
  /\ breaker' = [breaker EXCEPT !.left = IF @ > 0 THEN @ - 1 ELSE 0]
  /\ sinceProbe' = IF sinceProbe < Cooldown THEN sinceProbe + 1 ELSE Cooldown

BreakerTypeOK ==
  /\ breaker \in [state : {"closed", "open", "half"},
                  failures : 0..(Threshold - 1), left : 0..Cooldown]
  /\ sinceProbe \in 0..Cooldown
=============================================================================
