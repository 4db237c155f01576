--------------------------- MODULE DaemonProofs -----------------------------
(***************************************************************************)
(* Theorems about the daemon's process and its threads.  Lifetime: a daemon*)
(* that serves owns its files, and a stop ends the daemon it was asked to  *)
(* end, for any number of daemons, hooks and stops.  Server: one worker is *)
(* in the model at a time, the cache holds what the model said of the very *)
(* task and chunk, a query gets its own results, and the slots are counted,*)
(* for any number of connections, workers, tasks and candidates.           *)
(***************************************************************************)
EXTENDS Lifetime, Server, FiniteSetTheorems, TLAPS

(***************************************************************************)
(* Lifetime.                                                               *)
(***************************************************************************)

\* d has taken the lock and still runs.
Holds(d) ==
  daemon[d] \in {"pid", "probe", "unlink", "bind", "moon", "serve", "unbind",
                 "unpid"}

\* The lock is held by who thinks so.
Locks ==
  /\ \A d \in Daemon : Holds(d) <=> lock = d
  /\ \A s \in Stop : At(s, "unlock") <=> lock = s

\* Whoever runs while a stop cleans up took the lock after the stop's look.
LateComers ==
  \A s \in Stop, d \in Daemon : Cleaning(s) /\ Holds(d) => d \in overlapped

Named(d) == daemon[d] \in {"probe", "unlink", "bind", "moon", "serve", "unbind",
                           "unpid"}
Bound(d) == daemon[d] \in {"moon", "serve", "unbind"}

\* OwnsFiles, for every phase of a daemon.
Files ==
  \A d \in Daemon \ overlapped :
    /\ Named(d) => pidfile = d
    /\ Bound(d) => socket = d

Ending(d) == daemon[d] \in {"off", "unbind", "unpid"}

\* StopEndsIt, for every stage of a stop.
AskedIn(s) ==
  LET d == stop[s].asked IN
  /\ At(s, "idle") => d = NoProcess
  /\ d \in Daemon => daemon[d] = "off" \/ Listening(d)
  /\ d \in Daemon \ overlapped =>
       \/ At(s, "ask") \/ At(s, "pid")
       \/ At(s, "term") /\ stop[s].victim = d
       \/ Ending(d)
Asked == \A s \in Stop : AskedIn(s)

Inv == LifetimeTypeOK /\ Locks /\ LateComers /\ Files /\ Asked

-----------------------------------------------------------------------------
\* Types are preserved.
LEMMA TypeStep ==
  ASSUME Inv, [LifetimeNext]_lifetimeVars PROVE LifetimeTypeOK'
<1>1. CASE (\E k \in Hook : Claim(k)) \/ MarkerAges \/ UNCHANGED lifetimeVars
  BY <1>1, LifetimeAssumption DEF Claim, MarkerAges, lifetimeVars, Inv,
          LifetimeTypeOK, StopState, Stage, Connects, paths, starts
<1>2. ASSUME NEW k \in Hook, NEW d \in Daemon,
            Spawn(k, d)
     PROVE LifetimeTypeOK'
  BY <1>2, LifetimeAssumption DEF Spawn, DaemonGoes, Inv, LifetimeTypeOK,
          StopState, Stage, Connects, paths, starts, Unused, Alive
<1>3. ASSUME NEW d \in Daemon,
            TryLock(d) \/ WritePid(d) \/ UnlinkSocket(d) \/ Serve(d)
            \/ ReadShutdown(d) \/ Unbind(d) \/ MoonFails(d)
     PROVE LifetimeTypeOK'
  BY <1>3, LifetimeAssumption DEF TryLock, WritePid, UnlinkSocket, Serve,
          ReadShutdown, Unbind, MoonFails, ExitOf, DaemonGoes, Inv,
          LifetimeTypeOK, StopState, Stage, Connects, paths, starts
<1>4. ASSUME NEW d \in Daemon,
            ProbeSocket(d) \/ Bind(d) \/ Exit(d) \/ Kill(d)
     PROVE LifetimeTypeOK'
  BY <1>4, LifetimeAssumption DEF ProbeSocket, Bind, Exit, Kill, ExitOf,
          DaemonGoes, Inv, LifetimeTypeOK, StopState, Stage, Connects, paths,
          starts
<1>5. ASSUME NEW s \in Stop, BeginStop(s) PROVE LifetimeTypeOK'
  <2> DEFINE asked == IF Connects THEN socket ELSE NoProcess
  <2>1. asked \in Daemon \cup {NoProcess}
    BY DEF Inv, LifetimeTypeOK
  <2> DEFINE began == [stop[s] EXCEPT !.stage = "ask", !.asked = asked]
  <2>2. stop' = [stop EXCEPT ![s] = began]
    BY <1>5 DEF BeginStop
  <2> HIDE DEF asked
  <2>3. began \in StopState
    BY <2>1 DEF Inv, LifetimeTypeOK, StopState, Stage
  <2> HIDE DEF began
  <2>4. stop' \in [Stop -> StopState]
    BY <2>2, <2>3 DEF Inv, LifetimeTypeOK
  <2>5. QED
    BY <1>5, <2>4 DEF BeginStop, Inv, LifetimeTypeOK, paths, starts
<1>6. ASSUME NEW s \in Stop, AskAnswered(s) PROVE LifetimeTypeOK'
  BY <1>6, LifetimeAssumption DEF AskAnswered, DaemonGoes, At, StopGoes, Inv,
          LifetimeTypeOK, StopState, Stage, Connects, paths, starts
<1>7. ASSUME NEW s \in Stop,
            AskNobody(s) \/ AskLate(s) \/ WaitGone(s) \/ ReadPid(s)
            \/ ProbeStale(s) \/ RemovePid(s) \/ RemoveSocket(s)
     PROVE LifetimeTypeOK'
  BY <1>7, LifetimeAssumption DEF AskNobody, AskLate, WaitGone, ReadPid,
          ProbeStale, RemovePid, RemoveSocket, At, StopGoes, Inv,
          LifetimeTypeOK, StopState, Stage, Connects, paths, starts
<1>8. ASSUME NEW s \in Stop, Terminate(s) PROVE LifetimeTypeOK'
  <2> DEFINE termed == [stop[s] EXCEPT !.stage = "check", !.victim = NoProcess]
  <2>1. stop' = [stop EXCEPT ![s] = termed]
    BY <1>8 DEF Terminate
  <2>2. termed \in StopState
    BY DEF Inv, LifetimeTypeOK, StopState, Stage
  <2> HIDE DEF termed
  <2>3. stop' \in [Stop -> StopState]
    BY <2>1, <2>2 DEF Inv, LifetimeTypeOK
  <2>4. QED
    BY <1>8, <2>3 DEF Terminate, ExitOf, Inv, LifetimeTypeOK, paths, starts
<1>9. ASSUME NEW s \in Stop, CheckLock(s) \/ Unlock(s) PROVE LifetimeTypeOK'
  BY <1>9, LifetimeAssumption DEF CheckLock, Unlock, At, StopGoes, Inv,
          LifetimeTypeOK, StopState, Stage, Connects, paths, starts
<1>10. QED
  BY <1>1, <1>2, <1>3, <1>4, <1>5, <1>6, <1>7, <1>8, <1>9
     DEF LifetimeNext, DaemonStep, StopStep

\* The lock changes hands only where its holder takes or leaves it.
LEMMA LocksStep ==
  ASSUME Inv, [LifetimeNext]_lifetimeVars PROVE Locks'
<1>1. CASE (\E k \in Hook : Claim(k)) \/ MarkerAges \/ UNCHANGED lifetimeVars
  BY <1>1, LifetimeAssumption DEF Claim, MarkerAges, lifetimeVars, Inv,
          LifetimeTypeOK, StopState, At, Locks, Holds, Connects, Listening,
          paths, starts
<1>2. ASSUME NEW k \in Hook, NEW d \in Daemon, Spawn(k, d) PROVE Locks'
  BY <1>2, LifetimeAssumption DEF Spawn, DaemonGoes, Inv, LifetimeTypeOK,
          StopState, At, Locks, Holds, Connects, Listening, paths, starts,
          Unused, Alive
<1>3. ASSUME NEW d \in Daemon, TryLock(d) PROVE Locks'
  BY <1>3, LifetimeAssumption DEF TryLock, ExitOf, DaemonGoes, Inv,
          LifetimeTypeOK, StopState, At, Locks, Holds, Connects, Listening,
          paths, starts
<1>4. ASSUME NEW d \in Daemon,
            WritePid(d) \/ UnlinkSocket(d) \/ Serve(d)
            \/ ReadShutdown(d) \/ Unbind(d) \/ MoonFails(d)
     PROVE Locks'
  BY <1>4, LifetimeAssumption DEF WritePid, UnlinkSocket, Serve,
          ReadShutdown, Unbind, MoonFails, DaemonGoes, Inv, LifetimeTypeOK,
          StopState, At, Locks, Holds, Connects, Listening, paths, starts
<1>5. ASSUME NEW d \in Daemon,
            ProbeSocket(d) \/ Bind(d) \/ Exit(d) \/ Kill(d)
     PROVE Locks'
  BY <1>5, LifetimeAssumption DEF ProbeSocket, Bind, Exit, Kill, ExitOf,
          DaemonGoes, Inv, LifetimeTypeOK, StopState, At, Locks, Holds, Connects,
          Listening, paths, starts
<1>6. ASSUME NEW s \in Stop, BeginStop(s) \/ AskAnswered(s) PROVE Locks'
  BY <1>6, LifetimeAssumption DEF BeginStop, AskAnswered, At, DaemonGoes,
          StopGoes, Inv, LifetimeTypeOK, StopState, Locks, Holds, Connects,
          Listening, paths, starts
<1>7. ASSUME NEW s \in Stop,
            AskNobody(s) \/ AskLate(s) \/ WaitGone(s) \/ ReadPid(s)
            \/ ProbeStale(s) \/ RemovePid(s) \/ RemoveSocket(s)
     PROVE Locks'
  BY <1>7, LifetimeAssumption DEF AskNobody, AskLate, WaitGone, ReadPid,
          ProbeStale, RemovePid, RemoveSocket, At, StopGoes, Inv,
          LifetimeTypeOK, StopState, Locks, Holds, Connects, Listening,
          paths, starts
<1>8. ASSUME NEW s \in Stop, Terminate(s) PROVE Locks'
  BY <1>8, LifetimeAssumption DEF Terminate, ExitOf, At, Inv,
          LifetimeTypeOK, StopState, Locks, Holds, Connects, Listening,
          paths, starts
<1>9. ASSUME NEW s \in Stop, CheckLock(s) \/ Unlock(s) PROVE Locks'
  BY <1>9, LifetimeAssumption DEF CheckLock, Unlock, At, StopGoes, Inv,
          LifetimeTypeOK, StopState, Locks, Holds, Connects, Listening,
          paths, starts
<1>10. QED
  BY <1>1, <1>2, <1>3, <1>4, <1>5, <1>6, <1>7, <1>8, <1>9
     DEF LifetimeNext, DaemonStep, StopStep

\* A stop begins to clean up when nobody holds the lock.
LEMMA LateComersStep ==
  ASSUME Inv, [LifetimeNext]_lifetimeVars PROVE LateComers'
<1>1. CASE (\E k \in Hook : Claim(k)) \/ MarkerAges \/ UNCHANGED lifetimeVars
  BY <1>1, LifetimeAssumption DEF Claim, MarkerAges, lifetimeVars, Inv,
          LifetimeTypeOK, StopState, At, Locks, LateComers, Cleaning, Holds,
          Connects, Listening, paths, starts
<1>2. ASSUME NEW k \in Hook, NEW d \in Daemon, Spawn(k, d) PROVE LateComers'
  BY <1>2, LifetimeAssumption DEF Spawn, DaemonGoes, Inv, LifetimeTypeOK,
          StopState, At, Locks, LateComers, Cleaning, Holds, Connects,
          Listening, paths, starts, Unused, Alive
<1>3. ASSUME NEW d \in Daemon, TryLock(d) PROVE LateComers'
  BY <1>3, LifetimeAssumption DEF TryLock, ExitOf, DaemonGoes, Inv,
          LifetimeTypeOK, StopState, At, Locks, LateComers, Cleaning, Holds,
          Connects, Listening, paths, starts
<1>4. ASSUME NEW d \in Daemon,
            WritePid(d) \/ UnlinkSocket(d) \/ Serve(d)
            \/ ReadShutdown(d) \/ Unbind(d) \/ MoonFails(d)
     PROVE LateComers'
  BY <1>4, LifetimeAssumption DEF WritePid, UnlinkSocket, Serve,
          ReadShutdown, Unbind, MoonFails, DaemonGoes, Inv, LifetimeTypeOK,
          StopState, At, Locks, LateComers, Cleaning, Holds, Connects,
          Listening, paths, starts
<1>5. ASSUME NEW d \in Daemon,
            ProbeSocket(d) \/ Bind(d) \/ Exit(d) \/ Kill(d)
     PROVE LateComers'
  BY <1>5, LifetimeAssumption DEF ProbeSocket, Bind, Exit, Kill, ExitOf,
          DaemonGoes, Inv, LifetimeTypeOK, StopState, At, Locks, LateComers,
          Cleaning, Holds, Connects, Listening, paths, starts
<1>6. ASSUME NEW s \in Stop, BeginStop(s) \/ AskAnswered(s) PROVE LateComers'
  BY <1>6, LifetimeAssumption DEF BeginStop, AskAnswered, At, DaemonGoes,
          StopGoes, Inv, LifetimeTypeOK, StopState, Locks, LateComers,
          Cleaning, Holds, Connects, Listening, paths, starts
<1>7. ASSUME NEW s \in Stop,
            AskNobody(s) \/ AskLate(s) \/ WaitGone(s) \/ ReadPid(s)
            \/ ProbeStale(s) \/ RemovePid(s) \/ RemoveSocket(s)
     PROVE LateComers'
  BY <1>7, LifetimeAssumption DEF AskNobody, AskLate, WaitGone, ReadPid,
          ProbeStale, RemovePid, RemoveSocket, At, StopGoes, Inv,
          LifetimeTypeOK, StopState, Locks, LateComers, Cleaning, Holds,
          Connects, Listening, paths, starts
<1>8. ASSUME NEW s \in Stop, Terminate(s) PROVE LateComers'
  BY <1>8, LifetimeAssumption DEF Terminate, ExitOf, At, Inv,
          LifetimeTypeOK, StopState, Locks, LateComers, Cleaning, Holds,
          Connects, Listening, paths, starts
<1>9. ASSUME NEW s \in Stop, CheckLock(s) \/ Unlock(s) PROVE LateComers'
  BY <1>9, LifetimeAssumption DEF CheckLock, Unlock, At, StopGoes, Inv,
          LifetimeTypeOK, StopState, Locks, LateComers, Cleaning, Holds,
          Connects, Listening, paths, starts
<1>10. QED
  BY <1>1, <1>2, <1>3, <1>4, <1>5, <1>6, <1>7, <1>8, <1>9
     DEF LifetimeNext, DaemonStep, StopStep

\* Only the holder of the lock changes the files, and stops those of latecomers.
LEMMA FilesStep ==
  ASSUME Inv, [LifetimeNext]_lifetimeVars PROVE Files'
<1>1. CASE (\E k \in Hook : Claim(k)) \/ MarkerAges \/ UNCHANGED lifetimeVars
  BY <1>1, LifetimeAssumption DEF Claim, MarkerAges, lifetimeVars, Inv,
          LifetimeTypeOK, StopState, At, Locks, LateComers, Cleaning, Holds,
          Files, Named, Bound, Connects, Listening, paths, starts
<1>2. ASSUME NEW k \in Hook, NEW d \in Daemon, Spawn(k, d) PROVE Files'
  BY <1>2, LifetimeAssumption DEF Spawn, DaemonGoes, Inv, LifetimeTypeOK,
          StopState, At, Locks, LateComers, Cleaning, Holds, Files, Named,
          Bound, Connects, Listening, paths, starts, Unused, Alive
<1>3. ASSUME NEW d \in Daemon, TryLock(d) PROVE Files'
  BY <1>3, LifetimeAssumption DEF TryLock, ExitOf, DaemonGoes, Inv,
          LifetimeTypeOK, StopState, At, Locks, LateComers, Cleaning, Holds,
          Files, Named, Bound, Connects, Listening, paths, starts
<1>4. ASSUME NEW d \in Daemon,
            WritePid(d) \/ UnlinkSocket(d) \/ Serve(d)
            \/ ReadShutdown(d) \/ Unbind(d) \/ MoonFails(d)
     PROVE Files'
  BY <1>4, LifetimeAssumption DEF WritePid, UnlinkSocket, Serve,
          ReadShutdown, Unbind, MoonFails, DaemonGoes, Inv, LifetimeTypeOK,
          StopState, At, Locks, LateComers, Cleaning, Holds, Files, Named,
          Bound, Connects, Listening, paths, starts
<1>5. ASSUME NEW d \in Daemon,
            ProbeSocket(d) \/ Bind(d) \/ Exit(d) \/ Kill(d)
     PROVE Files'
  BY <1>5, LifetimeAssumption DEF ProbeSocket, Bind, Exit, Kill, ExitOf,
          DaemonGoes, Inv, LifetimeTypeOK, StopState, At, Locks, LateComers,
          Cleaning, Holds, Files, Named, Bound, Connects, Listening, paths,
          starts
<1>6. ASSUME NEW s \in Stop, BeginStop(s) \/ AskAnswered(s) PROVE Files'
  BY <1>6, LifetimeAssumption DEF BeginStop, AskAnswered, At, DaemonGoes,
          StopGoes, Inv, LifetimeTypeOK, StopState, Locks, LateComers,
          Cleaning, Holds, Files, Named, Bound, Connects, Listening, paths,
          starts
<1>7. ASSUME NEW s \in Stop,
            AskNobody(s) \/ AskLate(s) \/ WaitGone(s) \/ ReadPid(s)
            \/ ProbeStale(s) \/ RemovePid(s) \/ RemoveSocket(s)
     PROVE Files'
  BY <1>7, LifetimeAssumption DEF AskNobody, AskLate, WaitGone, ReadPid,
          ProbeStale, RemovePid, RemoveSocket, At, StopGoes, Inv,
          LifetimeTypeOK, StopState, Locks, LateComers, Cleaning, Holds,
          Files, Named, Bound, Connects, Listening, paths, starts
<1>8. ASSUME NEW s \in Stop, Terminate(s) PROVE Files'
  BY <1>8, LifetimeAssumption DEF Terminate, ExitOf, At, Inv,
          LifetimeTypeOK, StopState, Locks, LateComers, Cleaning, Holds,
          Files, Named, Bound, Connects, Listening, paths, starts
<1>9. ASSUME NEW s \in Stop, CheckLock(s) \/ Unlock(s) PROVE Files'
  BY <1>9, LifetimeAssumption DEF CheckLock, Unlock, At, StopGoes, Inv,
          LifetimeTypeOK, StopState, Locks, LateComers, Cleaning, Holds,
          Files, Named, Bound, Connects, Listening, paths, starts
<1>10. QED
  BY <1>1, <1>2, <1>3, <1>4, <1>5, <1>6, <1>7, <1>8, <1>9
     DEF LifetimeNext, DaemonStep, StopStep

\* What a stop was asked to end is ending, or is what it will signal.
LEMMA AskedStep ==
  ASSUME Inv, [LifetimeNext]_lifetimeVars PROVE Asked'
<1>1. CASE (\E k \in Hook : Claim(k)) \/ MarkerAges \/ UNCHANGED lifetimeVars
  BY <1>1, LifetimeAssumption DEF Claim, MarkerAges, lifetimeVars, Inv,
          LifetimeTypeOK, StopState, At, Locks, Holds, Files, Named, Bound,
          Asked, AskedIn, Ending, Listening, Connects, Alive, paths, starts
<1>2. ASSUME NEW k \in Hook, NEW d \in Daemon, Spawn(k, d) PROVE Asked'
  BY <1>2, LifetimeAssumption DEF Spawn, DaemonGoes, Inv, LifetimeTypeOK,
          StopState, At, Locks, Holds, Files, Named, Bound, Asked, AskedIn,
          Ending, Listening, Connects, Alive, paths, starts, Unused
<1>3. ASSUME NEW d \in Daemon, TryLock(d) PROVE Asked'
  BY <1>3, LifetimeAssumption DEF TryLock, ExitOf, DaemonGoes, Inv,
          LifetimeTypeOK, StopState, At, Locks, Holds, Files, Named, Bound,
          Asked, AskedIn, Ending, Listening, Connects, Alive, paths, starts
<1>4. ASSUME NEW d \in Daemon,
            WritePid(d) \/ UnlinkSocket(d) \/ Serve(d)
            \/ ReadShutdown(d) \/ Unbind(d) \/ MoonFails(d)
     PROVE Asked'
  BY <1>4, LifetimeAssumption DEF WritePid, UnlinkSocket, Serve,
          ReadShutdown, Unbind, MoonFails, DaemonGoes, Inv, LifetimeTypeOK,
          StopState, At, Locks, Holds, Files, Named, Bound, Asked, AskedIn,
          Ending, Listening, Connects, Alive, paths, starts
<1>5. ASSUME NEW d \in Daemon,
            ProbeSocket(d) \/ Bind(d) \/ Exit(d) \/ Kill(d)
     PROVE Asked'
  BY <1>5, LifetimeAssumption DEF ProbeSocket, Bind, Exit, Kill, ExitOf,
          DaemonGoes, Inv, LifetimeTypeOK, StopState, At, Locks, Holds, Files,
          Named, Bound, Asked, AskedIn, Ending, Listening, Connects, Alive,
          paths, starts
<1>6. ASSUME NEW s \in Stop, BeginStop(s) PROVE Asked'
  BY <1>6, LifetimeAssumption DEF BeginStop, At, Inv, LifetimeTypeOK,
          StopState, Locks, Holds, Files, Named, Bound, Asked, AskedIn,
          Ending, Listening, Connects, Alive, paths, starts
<1>7. ASSUME NEW s \in Stop, AskAnswered(s) PROVE Asked'
  BY <1>7, LifetimeAssumption DEF AskAnswered, DaemonGoes, At, StopGoes, Inv,
          LifetimeTypeOK, StopState, Locks, Holds, Files, Named, Bound,
          Asked, AskedIn, Ending, Listening, Connects, Alive, paths, starts
<1>8. ASSUME NEW s \in Stop, ReadPid(s) PROVE Asked'
  BY <1>8, LifetimeAssumption DEF ReadPid, At, StopGoes, Inv,
          LifetimeTypeOK, StopState, Locks, Holds, Files, Named, Bound,
          Asked, AskedIn, Ending, Listening, Connects, Alive, paths, starts
<1>9. ASSUME NEW s \in Stop,
            AskNobody(s) \/ AskLate(s) \/ WaitGone(s) \/ ProbeStale(s)
            \/ RemovePid(s) \/ RemoveSocket(s)
     PROVE Asked'
  BY <1>9, LifetimeAssumption DEF AskNobody, AskLate, WaitGone, ProbeStale,
          RemovePid, RemoveSocket, At, StopGoes, Inv, LifetimeTypeOK,
          StopState, Locks, Holds, Files, Named, Bound, Asked, AskedIn,
          Ending, Listening, Connects, Alive, paths, starts
<1>10. ASSUME NEW s \in Stop, Terminate(s) PROVE Asked'
  BY <1>10, LifetimeAssumption DEF Terminate, ExitOf, At, Inv,
          LifetimeTypeOK, StopState, Locks, Holds, Files, Named, Bound,
          Asked, AskedIn, Ending, Listening, Connects, Alive, paths, starts
<1>11. ASSUME NEW s \in Stop, CheckLock(s) \/ Unlock(s) PROVE Asked'
  BY <1>11, LifetimeAssumption DEF CheckLock, Unlock, At, StopGoes, Inv,
          LifetimeTypeOK, StopState, Locks, Holds, Files, Named, Bound,
          Asked, AskedIn, Ending, Listening, Connects, Alive, paths, starts
<1>12. QED
  BY <1>1, <1>2, <1>3, <1>4, <1>5, <1>6, <1>7, <1>8, <1>9, <1>10, <1>11
     DEF LifetimeNext, DaemonStep, StopStep

-----------------------------------------------------------------------------
\* The invariant holds in every state.
LEMMA Invariance == LifetimeSpec => []Inv
<1>1. LifetimeInit => Inv
  <2>1. SUFFICES ASSUME LifetimeInit PROVE Inv
    OBVIOUS
  <2>2. [stage |-> "idle", victim |-> NoProcess, asked |-> NoProcess] \in StopState
    BY DEF StopState, Stage
  <2>3. LifetimeTypeOK
    <3>1. stop \in [Stop -> StopState]
      BY <2>1, <2>2 DEF LifetimeInit
    <3>2. hook \in [Hook -> {"idle", "claimed"}] /\ marker \in BOOLEAN
      BY <2>1 DEF LifetimeInit
    <3>3. {told, overlapped} \subseteq SUBSET Daemon
      BY <2>1 DEF LifetimeInit
    <3>4. QED
      BY <2>1, <3>1, <3>2, <3>3, LifetimeAssumption DEF LifetimeInit, LifetimeTypeOK
  <2>4. Locks /\ LateComers /\ Files
    BY <2>1, LifetimeAssumption
       DEF LifetimeInit, Locks, Holds, LateComers, Files, Named, Bound, At
  <2>5. Asked
    BY <2>1, LifetimeAssumption DEF LifetimeInit, Asked, AskedIn, At
  <2>6. QED
    BY <2>3, <2>4, <2>5 DEF Inv
<1>2. Inv /\ [LifetimeNext]_lifetimeVars => Inv'
  <2>1. SUFFICES ASSUME Inv, [LifetimeNext]_lifetimeVars PROVE Inv'
    OBVIOUS
  <2>2. QED
    BY <2>1, TypeStep, LocksStep, LateComersStep, FilesStep, AskedStep DEF Inv
<1>3. QED
  BY <1>1, <1>2, PTL DEF LifetimeSpec

\* Every state of Lifetime is one of its types.
THEOREM LifetimeTypeCorrect == LifetimeSpec => []LifetimeTypeOK
<1>1. Inv => LifetimeTypeOK
  BY DEF Inv
<1>2. QED
  BY <1>1, Invariance, PTL

\* A daemon that serves is the one the socket and the pidfile name, for any
\* number of daemons, hooks and stops (cmd_daemon, bind_single, remove_stale),
\* unless it took the lock while a stop was cleaning up.
THEOREM ServersOwnFiles == LifetimeSpec => []OwnsFiles
<1>1. Inv => OwnsFiles
  BY DEF Inv, Files, Named, Bound, OwnsFiles, Serving
<1>2. QED
  BY <1>1, Invariance, PTL

\* A stop that finished has ended the daemon that served when it began, however
\* the daemon answered (stop_daemon), with the same exception.
THEOREM StopsEndDaemons == LifetimeSpec => []StopEndsIt
<1>1. Inv => StopEndsIt
  BY DEF Inv, Asked, AskedIn, Ending, At, StopEndsIt
<1>2. QED
  BY <1>1, Invariance, PTL

-----------------------------------------------------------------------------
(***************************************************************************)
(* Server.                                                                 *)
(***************************************************************************)

\* What may stand at place i of a result for task t.
Own(t, i) == {Nobody, <<t, Candidates[t][i]>>}

\* The call that a worker makes, from its first lookup to its last write.
CallOk(o) ==
  /\ o.task \in Task
  /\ o.next >= 1
  /\ Len(o.out) <= Count(o.task)
  /\ IF o.stage = "read" THEN o.next = Len(o.out) + 1 /\ o.ps = <<>>
                         ELSE Len(o.out) = Count(o.task)
  /\ \A i \in 1..Len(o.out) : o.out[i] \in Own(o.task, i)
  /\ \A j \in 1..Len(o.miss) : o.miss[j] \in 1..Len(o.out)
  /\ Len(o.ps) <= Len(o.miss)
  /\ \A j \in 1..Len(o.ps) : o.ps[j] = <<o.task, Candidates[o.task][o.miss[j]]>>

WorkerOk(o) == o \in WorkerState /\ (o.stage # "off" => CallOk(o))
WorkersOk == worker \in [Worker -> WorkerState] /\ \A w \in Worker : WorkerOk(worker[w])

\* A waiting query has a worker, which works on its task.
Waits ==
  \A c \in Caller :
    /\ query[c].stage = "waiting" <=> query[c].worker # Nobody
    /\ query[c].stage = "waiting" =>
         /\ worker[query[c].worker].stage # "off"
         /\ worker[query[c].worker].task = query[c].task

Result(t, probs) ==
  /\ Len(probs) = Count(t)
  /\ \A i \in 1..Count(t) : probs[i] \in Own(t, i)
  /\ \E i \in 1..Count(t) : probs[i] # Nobody
Results == \A c \in Caller : query[c].mode = "laya" =>
                               query[c].task \in Task /\ Result(query[c].task, query[c].probs)

Flags ==
  /\ busy \in Worker \cup {Nobody} /\ speed \in Nat
  /\ {loaded, poisoned} \subseteq BOOLEAN /\ faults \in 0..MaxFaults
Cache == memo \in [Task -> [Chunk -> Prob]] /\ CacheTruthful
Queries == query \in [Caller -> QueryState]

ScoringInv == Flags /\ Cache /\ Queries /\ WorkersOk /\ OneInModel /\ Waits /\ Results

Slots ==
  /\ conn \in [Caller -> {"closed", "read", "handle"}] /\ active \in Nat
  /\ IsFiniteSet(Served) /\ SlotsExact

IInv == ScoringInv /\ Slots

-----------------------------------------------------------------------------
\* Each step of a call leaves it one.
LEMMA CandidatesAreChunks ==
  ASSUME NEW t \in Task
  PROVE  /\ Candidates[t] \in Seq(Chunk) /\ Count(t) \in Nat \ {0}
         /\ \A i \in 1..Count(t) : Candidates[t][i] \in Chunk
         /\ \A i \in 1..Count(t) : Own(t, i) \subseteq Prob
<1>1. Candidates[t] \in Seq(Chunk) /\ Candidates[t] # <<>>
  BY ScoringAssumption
<1>2. Count(t) \in Nat \ {0} /\ \A i \in 1..Count(t) : Candidates[t][i] \in Chunk
  BY <1>1 DEF Count
<1>3. QED
  BY <1>1, <1>2 DEF Own, Prob

LEMMA IdleOk == WorkerOk(Idle) /\ Idle \in WorkerState /\ Idle.stage = "off"
<1>1. <<>> \in Seq(Prob) /\ <<>> \in Seq(Nat) /\ 0 \in 0..Budget
  BY ScoringAssumption
<1>2. Idle \in WorkerState /\ Idle.stage = "off"
  BY <1>1 DEF WorkerState, Idle
<1>3. QED
  BY <1>2 DEF WorkerOk

LEMMA StartOk ==
  ASSUME NEW t \in Task
  PROVE  WorkerOk([Idle EXCEPT !.stage = "read", !.task = t])
<1> DEFINE r == [Idle EXCEPT !.stage = "read", !.task = t]
<1>1. r \in WorkerState
  BY IdleOk DEF WorkerState
<1>2. r.stage = "read" /\ r.task = t /\ r.out = <<>> /\ r.miss = <<>> /\ r.ps = <<>> /\ r.next = 1
  BY DEF Idle
<1>3. Count(t) \in Nat /\ Len(<<>>) = 0 /\ 1..0 = {}
  BY CandidatesAreChunks
<1>4. CallOk(r)
  <2> HIDE DEF r
  <2> QED
    BY <1>2, <1>3 DEF CallOk
<1>5. QED
  BY <1>1, <1>4 DEF WorkerOk

LEMMA LookupOk ==
  ASSUME NEW o, WorkerOk(o), o.stage = "read", o.next <= Count(o.task),
         NEW p \in Own(o.task, o.next)
  PROVE  WorkerOk([o EXCEPT !.next = o.next + 1, !.out = Append(@, p),
                            !.miss = IF p = Nobody THEN Append(@, o.next) ELSE @])
<1> DEFINE t == o.task
           out == Append(o.out, p)
           miss == IF p = Nobody THEN Append(o.miss, o.next) ELSE o.miss
           r == [o EXCEPT !.next = o.next + 1, !.out = out, !.miss = miss]
<1>1. t \in Task /\ o.next \in Nat /\ o.next = Len(o.out) + 1
      /\ o.out \in Seq(Prob) /\ o.miss \in Seq(Nat) /\ o.ps = <<>>
  BY DEF WorkerOk, CallOk, WorkerState
<1>2. Count(t) \in Nat /\ p \in Prob
  BY <1>1, CandidatesAreChunks DEF WorkerOk, CallOk
<1>3. out \in Seq(Prob) /\ Len(out) = o.next /\ \A i \in 1..Len(out) : out[i] \in Own(t, i)
  BY <1>1, <1>2 DEF WorkerOk, CallOk
<1>4. miss \in Seq(Nat) /\ \A j \in 1..Len(miss) : miss[j] \in 1..Len(out)
  <2>1. CASE p = Nobody
    BY <1>1, <1>3, <2>1 DEF WorkerOk, CallOk
  <2>2. CASE p # Nobody
    BY <1>1, <1>3, <2>2 DEF WorkerOk, CallOk
  <2>3. QED
    BY <2>1, <2>2
<1>5. r \in WorkerState
  <2>1. o \in WorkerState /\ o.next + 1 \in Nat
    BY <1>1 DEF WorkerOk
  <2> HIDE DEF out, miss
  <2>2. QED
    BY <2>1, <1>3, <1>4 DEF WorkerState
<1>6. CallOk(r)
  <2>1. r.task = t /\ r.stage = "read" /\ r.out = out /\ r.miss = miss /\ r.ps = <<>>
        /\ r.next = o.next + 1
    BY <1>1 DEF WorkerOk, WorkerState
  <2> HIDE DEF r, out, miss
  <2>2. QED
    BY SMTT(30), <1>1, <1>2, <1>3, <1>4, <2>1 DEF CallOk
<1>7. QED
  BY <1>5, <1>6 DEF WorkerOk

LEMMA EnterOk ==
  ASSUME NEW o, WorkerOk(o), o.stage = "read", o.next > Count(o.task)
  PROVE  WorkerOk([o EXCEPT !.stage = "model", !.left = Budget])
<1> DEFINE r == [o EXCEPT !.stage = "model", !.left = Budget]
<1>1. o \in WorkerState /\ CallOk(o) /\ o.task \in Task /\ o.out \in Seq(Prob)
      /\ o.next \in Nat
  BY DEF WorkerOk, CallOk, WorkerState
<1>2. r \in WorkerState
  <2>1. Budget \in 0..Budget
    BY ScoringAssumption
  <2>2. QED
    BY <1>1, <2>1 DEF WorkerState
<1>3. r.task = o.task /\ r.stage = "model" /\ r.out = o.out /\ r.miss = o.miss
      /\ r.ps = o.ps /\ r.next = o.next
  BY <1>1 DEF WorkerState
<1>4. o.next = Len(o.out) + 1 /\ Len(o.out) <= Count(o.task) /\ Count(o.task) \in Nat
  BY <1>1, CandidatesAreChunks DEF CallOk
<1>5. Len(o.out) = Count(o.task)
  BY <1>1, <1>4
<1>6. CallOk(r)
  <2> HIDE DEF r
  <2> QED
    BY <1>1, <1>3, <1>5 DEF CallOk
<1>7. QED
  BY <1>2, <1>6 DEF WorkerOk

LEMMA BatchOk ==
  ASSUME NEW o, WorkerOk(o), o.stage = "model", Len(o.ps) < Len(o.miss),
         NEW left \in 0..Budget
  PROVE  LET i == o.miss[Len(o.ps) + 1] IN
         WorkerOk([o EXCEPT !.ps = Append(@, <<o.task, Candidates[o.task][i]>>),
                            !.left = left])
<1> DEFINE t == o.task
           i == o.miss[Len(o.ps) + 1]
           ps == Append(o.ps, <<t, Candidates[t][i]>>)
           r == [o EXCEPT !.ps = ps, !.left = left]
<1>0. o \in WorkerState /\ CallOk(o)
  BY DEF WorkerOk
<1>1. o \in WorkerState /\ CallOk(o) /\ t \in Task /\ o.out \in Seq(Prob)
      /\ o.ps \in Seq(Prob) /\ o.miss \in Seq(Nat)
  <2>1. t \in Task
    BY <1>0 DEF CallOk
  <2>2. o.out \in Seq(Prob) /\ o.ps \in Seq(Prob) /\ o.miss \in Seq(Nat)
    BY <1>0 DEF WorkerState
  <2>3. QED BY <1>0, <2>1, <2>2
<1>2. i \in 1..Count(t)
  BY <1>1, CandidatesAreChunks DEF CallOk
<1>3. Candidates[t][i] \in Chunk
  BY <1>1, <1>2, CandidatesAreChunks
<1>4. ps \in Seq(Prob) /\ Len(ps) = Len(o.ps) + 1
      /\ \A j \in 1..Len(ps) : ps[j] = <<t, Candidates[t][o.miss[j]]>>
  <2> DEFINE p == <<t, Candidates[t][i]>>
  <2>1. p \in Prob
    BY <1>1, <1>3 DEF Prob
  <2>2. \A j \in 1..Len(o.ps) : o.ps[j] = <<t, Candidates[t][o.miss[j]]>>
    BY <1>1 DEF CallOk
  <2>3. p = <<t, Candidates[t][o.miss[Len(o.ps) + 1]]>>
    OBVIOUS
  <2> HIDE DEF p
  <2>4. QED
    BY SMTT(30), <1>1, <2>1, <2>2, <2>3
<1>5. r \in WorkerState
  BY <1>1, <1>4 DEF WorkerState
<1>6. r.task = t /\ r.stage = "model" /\ r.out = o.out /\ r.miss = o.miss /\ r.ps = ps
      /\ r.next = o.next
  BY <1>1 DEF WorkerState
<1>7. CallOk(r)
  <2> HIDE DEF r, ps
  <2> QED
    BY SMTT(30), <1>1, <1>4, <1>6 DEF CallOk, WorkerState
<1>8. QED
  BY <1>5, <1>7 DEF WorkerOk

LEMMA PutOk ==
  ASSUME NEW o, WorkerOk(o), o.stage = "put", o.next <= Len(o.ps)
  PROVE  LET j == o.next
             i == o.miss[j] IN
         /\ i \in 1..Count(o.task)
         /\ o.ps[j] = <<o.task, Candidates[o.task][i]>>
         /\ WorkerOk([o EXCEPT !.next = j + 1, !.out[i] = o.ps[j]])
<1> DEFINE t == o.task
           j == o.next
           i == o.miss[j]
           out == [o.out EXCEPT ![i] = o.ps[j]]
           r == [o EXCEPT !.next = j + 1, !.out = out]
<1>1. o \in WorkerState /\ CallOk(o) /\ t \in Task /\ o.out \in Seq(Prob)
      /\ o.ps \in Seq(Prob) /\ o.miss \in Seq(Nat) /\ j \in 1..Len(o.ps)
  BY SMTT(30) DEF WorkerOk, CallOk, WorkerState
<1>2. i \in 1..Len(o.out) /\ Len(o.out) = Count(t) /\ o.ps[j] = <<t, Candidates[t][i]>>
  <2>1. /\ Len(o.ps) <= Len(o.miss) /\ Len(o.out) = Count(t)
        /\ \A k \in 1..Len(o.miss) : o.miss[k] \in 1..Len(o.out)
        /\ \A k \in 1..Len(o.ps) : o.ps[k] = <<t, Candidates[t][o.miss[k]]>>
    BY <1>1 DEF CallOk
  <2>2. j \in 1..Len(o.miss)
    BY <1>1, <2>1
  <2>3. QED
    BY <1>1, <2>1, <2>2
<1>3. o.ps[j] \in Own(t, i) /\ o.ps[j] \in Prob
  <2>1. o.ps[j] \in Prob
    BY <1>1
  <2>2. QED
    BY <2>1, <1>2 DEF Own
<1>4. out \in Seq(Prob) /\ Len(out) = Len(o.out)
      /\ \A k \in 1..Len(out) : out[k] \in Own(t, k)
  <2>1. \A k \in 1..Len(o.out) : o.out[k] \in Own(t, k)
    BY <1>1 DEF CallOk
  <2>2. out \in Seq(Prob)
    BY <1>1, <1>2, <1>3
  <2>3. Len(out) = Len(o.out)
    BY <1>1
  <2>4. \A k \in 1..Len(o.out) : out[k] = IF k = i THEN o.ps[j] ELSE o.out[k]
    BY <1>1
  <2> HIDE DEF out
  <2>5. QED
    BY <1>3, <2>1, <2>2, <2>3, <2>4
<1>5. r \in WorkerState
  <2>1. j + 1 \in Nat
    BY <1>1 DEF WorkerState
  <2> HIDE DEF out
  <2> QED
    BY <1>1, <1>4, <2>1 DEF WorkerState
<1>6. r.task = t /\ r.stage = "put" /\ r.out = out /\ r.miss = o.miss /\ r.ps = o.ps
      /\ r.next = j + 1
  BY <1>1 DEF WorkerState
<1>7. CallOk(r)
  <2> HIDE DEF r, out
  <2> QED
    BY SMTT(30), <1>1, <1>2, <1>4, <1>6 DEF CallOk
<1>8. QED
  BY <1>2, <1>5, <1>7 DEF WorkerOk

-----------------------------------------------------------------------------
\* Worker w, which makes a call, goes on with it.
Goes(w, r) ==
  /\ worker[w].stage # "off" /\ r.stage # "off" /\ r.task = worker[w].task
  /\ WorkerOk(r) /\ worker' = [worker EXCEPT ![w] = r]
  /\ UNCHANGED query

LEMMA GoingKeeps ==
  ASSUME WorkersOk, Queries, Waits, Results, NEW w \in Worker, NEW r, Goes(w, r)
  PROVE  WorkersOk' /\ Queries' /\ Waits' /\ Results'
<1>1. WorkersOk'
  BY DEF WorkersOk, WorkerOk, Goes
<1>2. \A v \in Worker : (worker'[v].stage = "off" <=> worker[v].stage = "off")
                        /\ worker'[v].task = worker[v].task
  BY DEF WorkersOk, Goes
<1>3. Waits'
  BY <1>2 DEF Waits, Goes, Queries, QueryState
<1>4. QED
  BY <1>1, <1>3 DEF Queries, Results, Goes

LEMMA EndingKeeps ==
  ASSUME WorkersOk, Queries, Waits, Results, NEW w \in Worker, NEW result \in Seq(Prob),
         worker[w].stage # "off", Ends(w, result),
         \/ result = <<>>
         \/ /\ Len(result) = Count(worker[w].task)
            /\ \A i \in 1..Len(result) : result[i] \in Own(worker[w].task, i)
  PROVE  WorkersOk' /\ Queries' /\ Waits' /\ Results'
<1> DEFINE t == worker[w].task
<1>1. WorkersOk'
  BY IdleOk DEF WorkersOk, Ends
<1>2. t \in Task
  BY SMTT(30) DEF WorkersOk, WorkerOk, CallOk
<1>3. ASSUME NEW c \in Caller PROVE query'[c] \in QueryState
  BY ZenonT(60), <1>3 DEF Ends, Queries, QueryState
<1>4. Queries'
  BY <1>3 DEF Queries, Ends
<1>5. ASSUME NEW c \in Caller, query[c].worker # w PROVE query'[c] = query[c]
  BY <1>5 DEF Ends
<1>6. ASSUME NEW c \in Caller, query[c].worker = w
      PROVE  /\ query'[c].stage = "done" /\ query'[c].worker = Nobody
             /\ query'[c].task = t
             /\ query'[c].mode = "laya" =>
                  query'[c].probs = result /\ \E i \in DOMAIN result : result[i] # Nobody
  <2>1. query[c].stage = "waiting"
    BY <1>6, ScoringAssumption DEF Waits
  <2>2. query[c].task = t
    BY <1>6, <2>1 DEF Waits
  <2>3. query[c] \in QueryState
    BY DEF Queries
  <2>4. QED
    BY <1>6, <2>2, <2>3 DEF Ends, QueryState
<1>7. Waits'
  <2>1. ASSUME NEW v \in Worker, v # w PROVE worker'[v] = worker[v]
    BY <2>1 DEF Ends, WorkersOk
  <2>2. ASSUME NEW c \in Caller, query[c].worker # w, query[c].stage = "waiting"
        PROVE  query[c].worker \in Worker \ {w}
    BY <2>2 DEF Waits, Queries, QueryState
  <2>3. QED
    BY SMTT(30), <1>5, <1>6, <2>1, <2>2 DEF Waits
<1>8. Results'
  <2>1. ASSUME NEW c \in Caller, query[c].worker = w, query'[c].mode = "laya"
        PROVE  query'[c].task \in Task /\ Result(query'[c].task, query'[c].probs)
    <3>1. query'[c].task = t /\ query'[c].probs = result
          /\ \E i \in DOMAIN result : result[i] # Nobody
      BY <1>6, <2>1
    <3>2. DOMAIN result = 1..Len(result) /\ result # <<>>
      BY <3>1
    <3>3. QED
      BY <1>2, <3>1, <3>2 DEF Result
  <2>2. QED
    BY <1>5, <2>1 DEF Results
<1>9. QED
  BY SMTT(30), <1>1, <1>4, <1>7, <1>8

-----------------------------------------------------------------------------
\* One lemma per step of the scoring.
LEMMA LookupKeeps ==
  ASSUME ScoringInv, NEW w \in Worker, Lookup(w)
  PROVE  ScoringInv'
<1> DEFINE o == worker[w]
           p == memo[o.task][Candidates[o.task][o.next]]
           r == [o EXCEPT !.next = o.next + 1, !.out = Append(@, p),
                          !.miss = IF p = Nobody THEN Append(@, o.next) ELSE @]
<1>1. o \in WorkerState /\ WorkerOk(o) /\ o.stage = "read" /\ CallOk(o) /\ o.task \in Task
      /\ o.next \in Nat /\ o.next >= 1 /\ o.next <= Count(o.task)
  BY DEF ScoringInv, WorkersOk, Lookup, WorkerOk, CallOk, WorkerState
<1>2. p \in Own(o.task, o.next)
  <2>1. Candidates[o.task][o.next] \in Chunk
    BY <1>1, CandidatesAreChunks
  <2>2. QED
    BY <1>1, <2>1 DEF ScoringInv, Cache, CacheTruthful, Own
<1>3. WorkerOk(r)
  <2> HIDE DEF o, p
  <2> QED
    BY <1>1, <1>2, LookupOk
<1>4. r.stage = "read" /\ r.task = o.task
  BY SMTT(30), <1>1 DEF WorkerState
<1>5. worker' = [worker EXCEPT ![w] = r]
  BY ZenonT(60) DEF Lookup, ScoringInv, WorkersOk
<1> HIDE DEF r, p
<1>6. Goes(w, r)
  BY <1>1, <1>3, <1>4, <1>5 DEF Goes, Lookup
<1>7. WorkersOk' /\ Queries' /\ Waits' /\ Results'
  BY SMTT(30), <1>6, GoingKeeps DEF ScoringInv
<1>8. OneInModel'
  BY <1>1, <1>4, <1>5 DEF OneInModel, InModel, ScoringInv, WorkersOk, Lookup
<1>9. Flags' /\ Cache'
  BY DEF Lookup, ScoringInv, Flags, Cache, CacheTruthful
<1>10. QED
  BY SMTT(30), <1>7, <1>8, <1>9 DEF ScoringInv

LEMMA EnterKeeps ==
  ASSUME ScoringInv, NEW w \in Worker, Enter(w)
  PROVE  ScoringInv'
<1> DEFINE o == worker[w]
<1>1. o \in WorkerState /\ WorkerOk(o) /\ o.stage = "read" /\ CallOk(o) /\ o.task \in Task
      /\ o.next > Count(o.task)
  BY DEF ScoringInv, WorkersOk, Enter, LookedUp, WorkerOk, CallOk
<1>2. Cache' /\ UNCHANGED <<loaded, poisoned, speed, faults>>
  BY DEF Enter, ScoringInv, Cache, CacheTruthful
<1>3. CASE \E result \in {o.out, <<>>} : Ends(w, result) /\ UNCHANGED busy
  <2>1. PICK result \in {o.out, <<>>} : Ends(w, result) /\ UNCHANGED busy
    BY <1>3
  <2>2. o.out \in Seq(Prob) /\ <<>> \in Seq(Prob) /\ Count(o.task) \in Nat
        /\ o.next = Len(o.out) + 1 /\ Len(o.out) <= Count(o.task)
        /\ \A i \in 1..Len(o.out) : o.out[i] \in Own(o.task, i)
    BY <1>1, CandidatesAreChunks DEF CallOk, WorkerState
  <2>3. Len(o.out) = Count(o.task)
    BY <1>1, <2>2
  <2>4. WorkersOk' /\ Queries' /\ Waits' /\ Results'
    BY <1>1, <2>1, <2>2, <2>3, EndingKeeps DEF ScoringInv
  <2>5. OneInModel'
    BY <1>1, <2>1, IdleOk DEF OneInModel, InModel, ScoringInv, WorkersOk, Ends
  <2>6. QED
    BY <1>2, <2>1, <2>4, <2>5 DEF ScoringInv, Flags
<1>4. CASE ToModel(w) /\ busy = Nobody
  <2> DEFINE r == [o EXCEPT !.stage = "model", !.left = Budget]
  <2>1. WorkerOk(r)
    BY <1>1, EnterOk
  <2>2. r.stage = "model" /\ r.task = o.task
    BY <1>1 DEF WorkerState
  <2>3. worker' = [worker EXCEPT ![w] = r]
    BY <1>4 DEF ToModel, ScoringInv, WorkersOk
  <2> HIDE DEF r
  <2>4. WorkersOk' /\ Queries' /\ Waits' /\ Results'
    BY <1>1, <1>4, <2>1, <2>2, <2>3, GoingKeeps DEF ScoringInv, ToModel, Goes
  <2>5. OneInModel'
    BY <1>1, <1>4, <2>2, <2>3, ScoringAssumption
    DEF OneInModel, InModel, ScoringInv, WorkersOk, ToModel
  <2>6. QED
    BY <1>2, <1>4, <2>4, <2>5 DEF ScoringInv, Flags, ToModel
<1>5. QED
  BY <1>3, <1>4 DEF Enter

LEMMA RunBatchKeeps ==
  ASSUME ScoringInv, NEW w \in Worker, RunBatch(w)
  PROVE  ScoringInv'
<1> DEFINE o == worker[w]
           i == o.miss[Len(o.ps) + 1]
<1>1. o \in WorkerState /\ WorkerOk(o) /\ o.stage = "model" /\ Len(o.ps) < Len(o.miss)
  BY SMTT(30) DEF ScoringInv, WorkersOk, RunBatch, Unscored
<1>2. PICK cost \in Cost :
        /\ worker' = [worker EXCEPT ![w].ps = Append(@, <<o.task, Candidates[o.task][i]>>),
                                    ![w].left = Remaining(@, cost)]
        /\ speed' = Updated(cost)
  BY DEF RunBatch
<1> DEFINE left == Remaining(o.left, cost)
           r == [o EXCEPT !.ps = Append(@, <<o.task, Candidates[o.task][i]>>), !.left = left]
<1>3. cost \in Nat /\ speed \in Nat
  BY ScoringAssumption DEF ScoringInv, Flags
<1>4. left \in 0..Budget /\ speed' \in Nat
  <2>1. left \in 0..Budget
    BY SMTT(30), <1>1, <1>3, ScoringAssumption DEF Remaining, WorkerState
  <2>2. (speed * 3 + cost) \div 4 \in Nat
    BY <1>3
  <2>3. QED
    BY <1>2, <1>3, <2>1, <2>2 DEF Updated
<1>5. WorkerOk(r)
  BY <1>1, <1>4, BatchOk
<1>6. r.stage = "model" /\ r.task = o.task
  BY <1>1 DEF WorkerState
<1>7. worker' = [worker EXCEPT ![w] = r]
  BY <1>2 DEF ScoringInv, WorkersOk
<1> HIDE DEF r
<1>8. WorkersOk' /\ Queries' /\ Waits' /\ Results'
  BY <1>1, <1>5, <1>6, <1>7, GoingKeeps DEF ScoringInv, Goes, RunBatch
<1>9. OneInModel'
  BY <1>1, <1>6, <1>7 DEF OneInModel, InModel, ScoringInv, WorkersOk, RunBatch
<1>10. Flags' /\ Cache'
  BY <1>4 DEF RunBatch, ScoringInv, Flags, Cache, CacheTruthful
<1>11. QED
  BY <1>8, <1>9, <1>10 DEF ScoringInv

LEMMA StopBatchesKeeps ==
  ASSUME ScoringInv, NEW w \in Worker, StopBatches(w)
  PROVE  ScoringInv'
<1> DEFINE o == worker[w]
           r == [o EXCEPT !.stage = "put", !.next = 1]
<1>1. o \in WorkerState /\ WorkerOk(o) /\ o.stage = "model" /\ CallOk(o)
  BY DEF ScoringInv, WorkersOk, StopBatches, WorkerOk
<1>2. r \in WorkerState /\ r.stage = "put" /\ r.task = o.task /\ r.out = o.out
      /\ r.miss = o.miss /\ r.ps = o.ps /\ r.next = 1
  BY <1>1 DEF WorkerState
<1>3. worker' = [worker EXCEPT ![w] = r]
  BY DEF StopBatches, ScoringInv, WorkersOk
<1> HIDE DEF r
<1>4. WorkerOk(r)
  BY <1>1, <1>2 DEF WorkerOk, CallOk
<1>5. WorkersOk' /\ Queries' /\ Waits' /\ Results'
  BY <1>1, <1>2, <1>3, <1>4, GoingKeeps DEF ScoringInv, Goes, StopBatches
<1>6. OneInModel'
  BY <1>1, <1>2, <1>3 DEF OneInModel, InModel, ScoringInv, WorkersOk, StopBatches
<1>7. speed - speed \div 4 \in Nat
  BY DEF ScoringInv, Flags
<1>8. Flags' /\ Cache'
  BY <1>7 DEF StopBatches, Decayed, ScoringInv, Flags, Cache, CacheTruthful
<1>9. QED
  BY <1>5, <1>6, <1>8 DEF ScoringInv

LEMMA LateKeeps ==
  ASSUME ScoringInv, NEW w \in Worker, Late(w)
  PROVE  ScoringInv'
<1> DEFINE o == worker[w]
           r == [o EXCEPT !.left = 0]
<1>1. o \in WorkerState /\ WorkerOk(o) /\ o.stage = "model" /\ CallOk(o) /\ 0 \in 0..Budget
  BY ScoringAssumption DEF ScoringInv, WorkersOk, Late, Unscored, WorkerOk
<1>2. r \in WorkerState /\ r.stage = "model" /\ r.task = o.task /\ r.out = o.out
      /\ r.miss = o.miss /\ r.ps = o.ps /\ r.next = o.next
  BY <1>1 DEF WorkerState
<1>3. worker' = [worker EXCEPT ![w] = r]
  BY DEF Late, ScoringInv, WorkersOk
<1> HIDE DEF r
<1>4. WorkerOk(r)
  BY <1>1, <1>2 DEF WorkerOk, CallOk
<1>5. WorkersOk' /\ Queries' /\ Waits' /\ Results'
  BY <1>1, <1>2, <1>3, <1>4, GoingKeeps DEF ScoringInv, Goes, Late
<1>6. OneInModel'
  BY <1>1, <1>2, <1>3 DEF OneInModel, InModel, ScoringInv, WorkersOk, Late
<1>7. Flags' /\ Cache'
  BY ScoringAssumption DEF Late, Fault, ScoringInv, Flags, Cache, CacheTruthful
<1>8. QED
  BY <1>5, <1>6, <1>7 DEF ScoringInv

LEMMA BreaksKeeps ==
  ASSUME ScoringInv, NEW w \in Worker, Breaks(w), poisoned' \in BOOLEAN
  PROVE  ScoringInv'
<1>1. worker[w].stage = "model" /\ Ends(w, <<>>) /\ <<>> \in Seq(Prob)
  BY DEF Breaks, Unscored
<1>2. WorkersOk' /\ Queries' /\ Waits' /\ Results'
  BY <1>1, EndingKeeps DEF ScoringInv
<1>3. OneInModel'
  <2>1. /\ worker' = [worker EXCEPT ![w] = Idle] /\ busy' = Nobody
        /\ worker \in [Worker -> WorkerState] /\ OneInModel
    BY DEF Breaks, Ends, ScoringInv, WorkersOk
  <2>2. InModel(w) /\ Idle.stage \notin {"model", "put"} /\ Nobody \notin Worker
    BY <1>1, IdleOk, ScoringAssumption DEF InModel
  <2>3. ASSUME NEW v \in Worker PROVE ~(InModel(v))'
    <3>1. CASE v = w
      BY <2>1, <2>2, <3>1 DEF InModel
    <3>2. CASE v # w
      BY <2>1, <2>2, <3>2 DEF OneInModel, InModel
    <3>3. QED
      BY <3>1, <3>2
  <2>4. QED
    BY <2>1, <2>2, <2>3 DEF OneInModel
<1>4. Flags' /\ Cache'
  BY ScoringAssumption DEF Breaks, Fault, ScoringInv, Flags, Cache, CacheTruthful
<1>5. QED
  BY <1>2, <1>3, <1>4 DEF ScoringInv

LEMMA PutKeeps ==
  ASSUME ScoringInv, NEW w \in Worker, Put(w)
  PROVE  ScoringInv'
<1> DEFINE o == worker[w]
           j == o.next
           i == o.miss[j]
           r == [o EXCEPT !.next = j + 1, !.out[i] = o.ps[j]]
<1>1. o \in WorkerState /\ WorkerOk(o) /\ o.stage = "put" /\ j <= Len(o.ps)
      /\ o.task \in Task
  BY SMTT(30) DEF ScoringInv, WorkersOk, Put, WorkerOk, CallOk
<1>2. i \in 1..Count(o.task) /\ o.ps[j] = <<o.task, Candidates[o.task][i]>> /\ WorkerOk(r)
  BY <1>1, PutOk
<1>3. r.stage = "put" /\ r.task = o.task
  BY <1>1 DEF WorkerState
<1>4. worker' = [worker EXCEPT ![w] = r]
  BY DEF Put, ScoringInv, WorkersOk
<1>5. Cache'
  <2> DEFINE c == Candidates[o.task][i]
  <2>1. c \in Chunk
    BY SMTT(30), <1>1, <1>2, CandidatesAreChunks
  <2>2. memo' = [memo EXCEPT ![o.task][c] = <<o.task, c>>]
    BY <1>2 DEF Put
  <2> HIDE DEF c, o
  <2>3. <<o.task, c>> \in Prob
    BY SMTT(30), <1>1, <2>1 DEF Prob
  <2>4. QED
    BY <1>1, <2>1, <2>2, <2>3 DEF ScoringInv, Cache, CacheTruthful
<1> HIDE DEF r
<1>6. WorkersOk' /\ Queries' /\ Waits' /\ Results'
  BY <1>1, <1>2, <1>3, <1>4, GoingKeeps DEF ScoringInv, Goes, Put
<1>7. OneInModel'
  BY SMTT(30), <1>1, <1>3, <1>4 DEF OneInModel, InModel, ScoringInv, WorkersOk, Put
<1>8. Flags'
  BY DEF Put, ScoringInv, Flags
<1>9. QED
  BY <1>5, <1>6, <1>7, <1>8 DEF ScoringInv

LEMMA FinishKeeps ==
  ASSUME ScoringInv, NEW w \in Worker, Finish(w)
  PROVE  ScoringInv'
<1> DEFINE o == worker[w]
<1>1. o \in WorkerState /\ CallOk(o) /\ o.stage = "put" /\ Ends(w, o.out)
  BY DEF ScoringInv, WorkersOk, Finish, WorkerOk
<1>2. o.out \in Seq(Prob) /\ Len(o.out) = Count(o.task)
      /\ \A i \in 1..Len(o.out) : o.out[i] \in Own(o.task, i)
  BY <1>1 DEF CallOk, WorkerState
<1>3. WorkersOk' /\ Queries' /\ Waits' /\ Results'
  BY SMTT(30), <1>1, <1>2, EndingKeeps DEF ScoringInv
<1>4. OneInModel'
  <2>1. /\ worker' = [worker EXCEPT ![w] = Idle] /\ busy' = Nobody
        /\ worker \in [Worker -> WorkerState] /\ OneInModel
    BY DEF Finish, Ends, ScoringInv, WorkersOk
  <2>2. InModel(w) /\ Idle.stage \notin {"model", "put"} /\ Nobody \notin Worker
    BY <1>1, IdleOk, ScoringAssumption DEF InModel
  <2>3. ASSUME NEW v \in Worker PROVE ~(InModel(v))'
    <3>1. CASE v = w
      BY <2>1, <2>2, <3>1 DEF InModel
    <3>2. CASE v # w
      BY <2>1, <2>2, <3>2 DEF OneInModel, InModel
    <3>3. QED
      BY <3>1, <3>2
  <2>4. QED
    BY <2>1, <2>2, <2>3 DEF OneInModel
<1>5. Flags' /\ Cache'
  BY DEF Finish, ScoringInv, Flags, Cache, CacheTruthful
<1>6. QED
  BY <1>3, <1>4, <1>5 DEF ScoringInv

\* Loading, expiry, and the connection threads' part.
LEMMA OthersKeep ==
  ASSUME ScoringInv, Load \/ \E t \in Task, c \in Chunk : Expire(t, c)
  PROVE  ScoringInv'
<1>1. UNCHANGED <<busy, poisoned, speed, worker, query, faults>> /\ loaded' \in {loaded, TRUE}
  BY DEF Load, Expire
<1>2. Flags' /\ Queries' /\ WorkersOk' /\ OneInModel' /\ Waits' /\ Results'
  BY <1>1 DEF ScoringInv, Flags, Queries, WorkersOk, OneInModel, InModel, Waits, Results
<1>3. CASE Load
  BY <1>2, <1>3 DEF Load, ScoringInv, Cache, CacheTruthful
<1>4. ASSUME NEW t \in Task, NEW c \in Chunk, Expire(t, c) PROVE Cache'
  BY <1>4 DEF Expire, ScoringInv, Cache, CacheTruthful, Prob
<1>5. QED
  BY <1>2, <1>3, <1>4 DEF ScoringInv

LEMMA AskKeeps ==
  ASSUME ScoringInv, NEW c \in Caller, NEW t \in Task, Ask(c, t)
  PROVE  ScoringInv'
<1>1. Flags' /\ Cache'
  BY DEF Ask, ScoringInv, Flags, Cache, CacheTruthful
<1>2. query[c] \in QueryState /\ query[c].stage = "idle" /\ <<>> \in Seq(Prob)
  <2>1. query[c].stage = "idle"
    BY DEF Ask
  <2>2. QED
    BY <2>1 DEF ScoringInv, Queries
<1>3. CASE /\ query' = [query EXCEPT ![c] =
                 [NoQuery EXCEPT !.stage = "done", !.task = t, !.mode = "lexical"]]
           /\ UNCHANGED worker
  <2> DEFINE q == [NoQuery EXCEPT !.stage = "done", !.task = t, !.mode = "lexical"]
  <2>1. q \in QueryState /\ q.stage = "done" /\ q.worker = Nobody /\ q.mode = "lexical"
    BY <1>2 DEF NoQuery, QueryState
  <2> HIDE DEF q
  <2>2. query' = [query EXCEPT ![c] = q]
    BY <1>3 DEF q
  <2>3. Queries' /\ Waits' /\ Results'
    BY <1>3, <2>1, <2>2 DEF ScoringInv, Queries, Waits, Results
  <2>4. WorkersOk' /\ OneInModel'
    BY <1>3 DEF ScoringInv, WorkersOk, OneInModel, InModel, Ask
  <2>5. QED
    BY <1>1, <2>3, <2>4 DEF ScoringInv
<1>4. ASSUME NEW w \in Worker, worker[w].stage = "off",
             worker' = [worker EXCEPT ![w] = [Idle EXCEPT !.stage = "read", !.task = t]],
             query' = [query EXCEPT ![c] = [NoQuery EXCEPT !.stage = "waiting", !.task = t,
                                                           !.worker = w]]
      PROVE  ScoringInv'
  <2> DEFINE q == [NoQuery EXCEPT !.stage = "waiting", !.task = t, !.worker = w]
             r == [Idle EXCEPT !.stage = "read", !.task = t]
  <2>1. /\ q \in QueryState /\ q.stage = "waiting" /\ q.worker = w /\ q.mode = "none"
        /\ q.task = t
    BY <1>2 DEF NoQuery, QueryState
  <2>2. WorkerOk(r) /\ r.stage = "read" /\ r.task = t
    BY StartOk DEF Idle
  <2> HIDE DEF q, r
  <2>3. query' = [query EXCEPT ![c] = q] /\ worker' = [worker EXCEPT ![w] = r]
    BY <1>4 DEF q, r
  <2>4. WorkersOk'
    BY <2>2, <2>3 DEF ScoringInv, WorkersOk, WorkerOk
  <2>5. OneInModel'
    BY <1>4, <2>2, <2>3 DEF ScoringInv, WorkersOk, OneInModel, InModel, Ask
  <2>6. \A d \in Caller : query[d].stage = "waiting" => query[d].worker \in Worker \ {w}
    BY <1>4, ScoringAssumption DEF ScoringInv, Waits, Queries, QueryState
  <2>7. Waits'
    <3>1. ASSUME NEW d \in Caller, d # c
          PROVE  /\ query'[d] = query[d]
                 /\ query[d].stage = "waiting" =>
                      worker'[query[d].worker] = worker[query[d].worker]
      BY <2>3, <2>6, <3>1 DEF ScoringInv, WorkersOk, Queries
    <3>2. query'[c] = q /\ worker'[w] = r
      BY <2>3 DEF ScoringInv, WorkersOk, Queries
    <3>3. QED
      BY <2>1, <2>2, <3>1, <3>2, ScoringAssumption DEF Waits, ScoringInv
  <2>8. Queries' /\ Results'
    BY <2>1, <2>3 DEF ScoringInv, Queries, Results
  <2>9. QED
    BY <1>1, <2>4, <2>5, <2>7, <2>8 DEF ScoringInv
<1>5. QED
  BY <1>3, <1>4 DEF Ask

LEMMA GiveUpKeeps ==
  ASSUME ScoringInv, NEW c \in Caller, GiveUp(c)
  PROVE  ScoringInv'
<1> DEFINE q == [query[c] EXCEPT !.stage = "done", !.worker = Nobody,
                                 !.mode = "lexical", !.probs = <<>>]
<1>1. query[c] \in QueryState /\ <<>> \in Seq(Prob)
  BY DEF ScoringInv, Queries
<1>2. q \in QueryState /\ q.stage = "done" /\ q.worker = Nobody /\ q.mode = "lexical"
  BY <1>1 DEF QueryState
<1>3. query' = [query EXCEPT ![c] = q]
  BY DEF GiveUp, Answer, ScoringInv, Queries
<1> HIDE DEF q
<1>4. UNCHANGED <<loaded, memo, busy, poisoned, speed, worker, faults>>
  BY DEF GiveUp
<1>5. Queries' /\ Waits' /\ Results'
  BY <1>2, <1>3, <1>4 DEF ScoringInv, Queries, Waits, Results
<1>6. QED
  BY <1>4, <1>5 DEF ScoringInv, Flags, Cache, CacheTruthful, WorkersOk, OneInModel, InModel

LEMMA NoQueryOk ==
  /\ NoQuery \in QueryState /\ NoQuery.stage = "idle" /\ NoQuery.worker = Nobody
  /\ NoQuery.mode = "none"
<1>1. <<>> \in Seq(Prob)
  OBVIOUS
<1>2. QED
  BY <1>1 DEF NoQuery, QueryState

LEMMA ReplyKeeps ==
  ASSUME ScoringInv, NEW c \in Caller, Reply(c)
  PROVE  ScoringInv'
<1>1. NoQuery \in QueryState /\ NoQuery.stage = "idle" /\ NoQuery.worker = Nobody
      /\ NoQuery.mode = "none"
  BY NoQueryOk
<1>2. query' = [query EXCEPT ![c] = NoQuery]
      /\ UNCHANGED <<loaded, memo, busy, poisoned, speed, worker, faults>>
  BY DEF Reply
<1>3. Queries' /\ Waits' /\ Results'
  BY <1>1, <1>2 DEF ScoringInv, Queries, Waits, Results
<1>4. QED
  BY <1>2, <1>3 DEF ScoringInv, Flags, Cache, CacheTruthful, WorkersOk, OneInModel, InModel

-----------------------------------------------------------------------------
\* The slots: a connection is served as long as it has one.
LEMMA ServedGrows ==
  ASSUME Slots, NEW c \in Caller, Accept(c)
  PROVE  Slots'
<1>1. conn' = [conn EXCEPT ![c] = "read"] /\ conn[c] = "closed" /\ active < MaxConns
      /\ active' = active + 1
  BY DEF Accept, Becomes
<1>2. Served' = Served \cup {c} /\ c \notin Served
  BY <1>1 DEF Slots, Served
<1>3. IsFiniteSet(Served') /\ Cardinality(Served') = Cardinality(Served) + 1
  BY <1>2, FS_AddElement DEF Slots
<1>4. QED
  BY <1>1, <1>3, ServerAssumption DEF Slots, SlotsExact

LEMMA ServedShrinks ==
  ASSUME Slots, NEW c \in Caller, conn[c] # "closed", Becomes(c, "closed"),
         active' = active - 1
  PROVE  Slots'
<1>1. Served' = Served \ {c} /\ c \in Served
  BY DEF Slots, Served, Becomes
<1>2. IsFiniteSet(Served') /\ Cardinality(Served') = Cardinality(Served) - 1
      /\ Cardinality(Served') \in Nat
  BY <1>1, FS_RemoveElement, FS_CardinalityType DEF Slots
<1>3. conn' \in [Caller -> {"closed", "read", "handle"}]
  BY DEF Slots, Becomes
<1>4. QED
  BY <1>2, <1>3, ServerAssumption DEF Slots, SlotsExact

LEMMA ServedStays ==
  ASSUME Slots, NEW c \in Caller, conn[c] # "closed", NEW stage \in {"read", "handle"},
         Becomes(c, stage), active' = active
  PROVE  Slots'
<1>1. Served' = Served /\ conn' \in [Caller -> {"closed", "read", "handle"}]
  BY DEF Slots, Served, Becomes
<1>2. QED
  BY <1>1 DEF Slots, SlotsExact

-----------------------------------------------------------------------------
LEMMA InitEstablishes == Init => IInv
<1> SUFFICES ASSUME Init PROVE IInv
  OBVIOUS
<1>1. Served = {}
  BY DEF Init, Served
<1>2. Slots
  BY <1>1, FS_EmptySet, ServerAssumption DEF Init, Slots, SlotsExact
<1>3. Flags /\ Cache
  <2>1. Flags
    <3>1. faults \in 0..MaxFaults /\ busy = Nobody /\ speed = 0
      BY ScoringAssumption DEF Init, ScoringInit
    <3>2. {loaded, poisoned} \subseteq BOOLEAN
      BY Zenon DEF Init, ScoringInit
    <3>3. QED
      BY <3>1, <3>2 DEF Flags
  <2>2. memo = [t \in Task |-> [c \in Chunk |-> Nobody]] /\ Nobody \in Prob
    BY DEF Init, ScoringInit, Prob
  <2>3. Cache
    BY <2>2 DEF Cache, CacheTruthful
  <2>4. QED
    BY <2>1, <2>3
<1>4. WorkersOk /\ OneInModel
  BY IdleOk, ScoringAssumption DEF Init, ScoringInit, WorkersOk, OneInModel, InModel
<1>5. Queries /\ Waits /\ Results
  BY NoQueryOk DEF Init, ScoringInit, Queries, Waits, Results
<1>6. QED
  BY <1>2, <1>3, <1>4, <1>5 DEF IInv, ScoringInv

LEMMA ScoringStepKeeps ==
  ASSUME ScoringInv, ScoringNext
  PROVE  ScoringInv'
<1>1. ASSUME NEW w \in Worker, WorkerStep(w) \/ Late(w) \/ RunFails(w) \/ Panic(w)
      PROVE ScoringInv'
  <2>1. ASSUME RunFails(w) \/ Panic(w) PROVE Breaks(w) /\ poisoned' \in BOOLEAN
    BY <2>1 DEF RunFails, Panic, ScoringInv, Flags
  <2>2. QED
    BY <1>1, <2>1, LookupKeeps, EnterKeeps, RunBatchKeeps, StopBatchesKeeps, PutKeeps,
       FinishKeeps, LateKeeps, BreaksKeeps DEF WorkerStep
<1>2. QED
  BY <1>1, OthersKeep DEF ScoringNext

LEMMA StepKeeps == IInv /\ [Next]_vars => IInv'
<1> SUFFICES ASSUME IInv, [Next]_vars PROVE IInv'
  OBVIOUS
<1> USE DEF IInv
<1>1. ASSUME NEW c \in Caller, Accept(c) PROVE IInv'
  <2>1. ScoringInv'
    BY <1>1 DEF Accept, scoring, ScoringInv, Flags, Cache, CacheTruthful, Queries, WorkersOk,
                OneInModel, InModel, Waits, Results
  <2>2. QED
    BY <1>1, <2>1, ServedGrows
<1>2. ASSUME NEW c \in Caller, Close(c) PROVE IInv'
  <2>1. ScoringInv'
    BY <1>2 DEF Close, scoring, ScoringInv, Flags, Cache, CacheTruthful, Queries, WorkersOk,
                OneInModel, InModel, Waits, Results
  <2>2. Slots'
    BY <1>2, ServedShrinks DEF Close
  <2>3. QED
    BY <2>1, <2>2
<1>3. ASSUME NEW c \in Caller, Reply(c) PROVE IInv'
  <2>1. Slots'
    BY <1>3, ServedShrinks, ServedStays DEF Reply
  <2>2. QED
    BY <1>3, <2>1, ReplyKeeps
<1>4. ASSUME NEW c \in Caller, Shutdown(c) PROVE IInv'
  <2>1. /\ memo' \in [Task -> [Chunk -> Prob]] /\ CacheTruthful'
        /\ faults' \in 0..MaxFaults
    BY <1>4 DEF Shutdown, ScoringInv, Flags, Cache, CacheTruthful
  <2>2. Flags' /\ Cache'
    BY <1>4, <2>1 DEF Shutdown, Flags, Cache
  <2>3. WorkersOk' /\ OneInModel'
    BY <1>4, IdleOk, ScoringAssumption DEF Shutdown, WorkersOk, OneInModel, InModel
  <2>4. Queries' /\ Waits' /\ Results'
    BY <1>4, NoQueryOk DEF Shutdown, Queries, Waits, Results
  <2>5. Slots'
    <3>1. Served' = {} /\ active' = 0 /\ conn' \in [Caller -> {"closed", "read", "handle"}]
      BY <1>4 DEF Shutdown, Served
    <3>2. QED
      BY <3>1, FS_EmptySet, ServerAssumption DEF Slots, SlotsExact
  <2>6. QED
    BY <2>2, <2>3, <2>4, <2>5 DEF ScoringInv
<1>5. ASSUME NEW c \in Caller, Wait(c) PROVE IInv'
  BY <1>5, GiveUpKeeps DEF Wait, Slots, SlotsExact, Served
<1>6. ASSUME NEW c \in Caller, NEW t \in Task, Query(c, t) PROVE IInv'
  <2>1. ScoringInv'
    BY <1>6, AskKeeps DEF Query
  <2>2. Slots'
    BY <1>6, ServedStays DEF Query
  <2>3. QED
    BY <2>1, <2>2
<1>7. CASE Background
  BY <1>7, ScoringStepKeeps DEF Background, Slots, SlotsExact, Served
<1>8. CASE UNCHANGED vars
  BY <1>8 DEF vars, scoring, ScoringInv, Flags, Cache, CacheTruthful, Queries, WorkersOk,
              OneInModel, InModel, Waits, Results, Slots, SlotsExact, Served
<1>9. QED
  BY <1>1, <1>2, <1>3, <1>4, <1>5, <1>6, <1>7, <1>8 DEF Next

LEMMA Inductive == Spec => []IInv
  BY InitEstablishes, StepKeeps, PTL DEF Spec

-----------------------------------------------------------------------------
\* The state of the server, of its workers and of its queries is of the shapes
\* that the variables' comments give (daemon.rs, retriever.rs).
THEOREM TypeCorrect == Spec => []ServerTypeOK
<1>1. IInv => ServerTypeOK
  BY DEF IInv, ScoringInv, Flags, Cache, Queries, WorkersOk, Slots, ServerTypeOK
<1>2. QED
  BY Inductive, <1>1, PTL

\* No slot leaks and none is given twice, however connections end (ConnSlot).
THEOREM SlotsCounted == Spec => []SlotsExact
<1>1. IInv => SlotsExact
  BY DEF IInv, Slots
<1>2. QED
  BY Inductive, <1>1, PTL

\* The model has one user at a time, and busy is set as long as it has one:
\* abandoned workers, errors and panics included (MemoScorer::run).
THEOREM OneWorkerInModel == Spec => []OneInModel
<1>1. IInv => OneInModel
  BY DEF IInv, ScoringInv
<1>2. QED
  BY Inductive, <1>1, PTL

\* Whatever stops a call, what it cached is what the model said of that task
\* and chunk (MemoScorer::run).
THEOREM CacheHoldsTruth == Spec => []CacheTruthful
<1>1. IInv => CacheTruthful
  BY DEF IInv, ScoringInv, Cache
<1>2. QED
  BY Inductive, <1>1, PTL

\* A query is re-ranked by results for its own candidates, in their order
\* (call_scorer_bounded).
THEOREM QueriesGetTheirOwn == Spec => []ResultsOwn
<1>1. IInv => ResultsOwn
  BY DEF IInv, ScoringInv, Results, Result, ResultsOwn, Own
<1>2. QED
  BY Inductive, <1>1, PTL
=============================================================================
