------------------------------ MODULE Lifetime ------------------------------
(***************************************************************************)
(* The life of the daemon: hooks start it when its socket does not answer  *)
(* (crates/laya-cli/src/client.rs), each `laya-codex daemon` takes the     *)
(* lock, writes its pidfile and binds the socket (main.rs, sys.rs,         *)
(* daemon.rs), and `laya-codex stop` asks it to exit, or signals it, and   *)
(* cleans up behind it (client.rs).                                        *)
(*                                                                         *)
(* All of these are processes that meet in three files: the lock, which    *)
(* the kernel frees when its holder exits, the pidfile, and the socket,    *)
(* which names the daemon that bound it and is dead once that is gone.     *)
(***************************************************************************)
EXTENDS Integers

CONSTANTS
  Daemon,     \* processes that run `laya-codex daemon`
  Stop,       \* processes that run `laya-codex stop`
  Hook,       \* processes that call the daemon and start it if need be
  NoProcess,  \* no process: the lock is free, the file does not exist
  MaxMishaps  \* bound of the model: kills, failed starts, late answers

ASSUME LifetimeAssumption ==
  /\ NoProcess \notin Daemon \cup Stop
  /\ Daemon \cap Stop = {}
  /\ MaxMishaps \in Nat

VARIABLES
  lock,        \* who holds daemon.lock
  pidfile,     \* whose pid the pidfile holds
  socket,      \* whose listener the socket file is
  daemon,      \* daemon[d]: how far process d has come
  told,        \* daemons with a Shutdown request they have not read yet
  hook,        \* hook[k]: whether k claimed the right to start a daemon
  marker,      \* the daemon.spawn marker was touched within SPAWN_BACKOFF
  stop,        \* stop[s]: how far stop_daemon has come in process s
  overlapped,  \* daemons that took the lock between the look at the lock and
               \* the removals of a remove_stale (history)
  mishaps      \* mishaps so far

paths == <<lock, pidfile, socket>>
starts == <<hook, marker>>
lifetimeVars == <<paths, daemon, told, starts, stop, overlapped, mishaps>>

Stage == {"idle", "ask", "wait", "pid", "term", "check", "unlock", "rmpid",
          "probe", "rmsock", "done"}

\* victim: the pid read from the pidfile; asked: the daemon that served the
\* socket when stop_daemon began (history).
StopState == [stage : Stage, victim : Daemon \cup {NoProcess},
              asked : Daemon \cup {NoProcess}]

LifetimeInit ==
  /\ lock = NoProcess /\ pidfile = NoProcess /\ socket = NoProcess
  /\ daemon = [d \in Daemon |-> "off"]
  /\ told = {}
  /\ hook = [k \in Hook |-> "idle"] /\ marker = FALSE
  /\ stop = [s \in Stop |->
               [stage |-> "idle", victim |-> NoProcess, asked |-> NoProcess]]
  /\ overlapped = {}
  /\ mishaps = 0

Alive(d) == daemon[d] # "off"
Listening(d) == daemon[d] \in {"moon", "serve", "unbind", "unpid"}

\* UnixStream::connect(socket) succeeds.
Connects == socket # NoProcess /\ Listening(socket)

\* The process d is gone: the kernel frees its lock and closes its listener.
ExitOf(d) ==
  /\ daemon' = [daemon EXCEPT ![d] = "off"]
  /\ lock' = IF lock = d THEN NoProcess ELSE lock
  /\ told' = told \ {d}

DaemonGoes(d, phase) == daemon' = [daemon EXCEPT ![d] = phase]

-----------------------------------------------------------------------------
\* A pid that is free, and that no file and no stop names any more.
Unused(d) ==
  /\ ~Alive(d) /\ d \notin {pidfile, socket}
  /\ \A s \in Stop : stop[s].victim # d

\* connect fails, and claim_spawn finds no recent marker.
Claim(k) ==
  /\ hook[k] = "idle" /\ ~Connects /\ ~marker
  /\ hook' = [hook EXCEPT ![k] = "claimed"]
  /\ UNCHANGED <<paths, daemon, told, marker, stop, overlapped, mishaps>>

\* ... so it touches the marker and spawns a daemon.  Another hook may have
\* looked at the marker before it was touched.
Spawn(k, d) ==
  /\ hook[k] = "claimed" /\ Unused(d)
  /\ hook' = [hook EXCEPT ![k] = "idle"]
  /\ marker' = TRUE
  /\ DaemonGoes(d, "lock")
  /\ overlapped' = overlapped \ {d}
  /\ stop' = [s \in Stop |-> IF stop[s].asked = d
                               THEN [stop[s] EXCEPT !.asked = NoProcess]
                               ELSE stop[s]]
  /\ UNCHANGED <<paths, told, mishaps>>

\* SPAWN_BACKOFF has passed.
MarkerAges ==
  /\ marker /\ marker' = FALSE
  /\ UNCHANGED <<paths, daemon, told, hook, stop, overlapped, mishaps>>

-----------------------------------------------------------------------------
Cleaning(s) == stop[s].stage \in {"rmpid", "probe", "rmsock"}

\* Faulty variant: the daemon goes on without the lock.
TryLockShared(d) ==
  /\ daemon[d] = "lock"
  /\ DaemonGoes(d, "pid") /\ lock' = d /\ UNCHANGED told
  /\ overlapped' = IF \E s \in Stop : Cleaning(s) THEN overlapped \cup {d}
                                                  ELSE overlapped
  /\ UNCHANGED <<pidfile, socket, starts, stop, mishaps>>

\* cmd_daemon: take the lock, or exit quietly.
TryLock(d) ==
  /\ daemon[d] = "lock"
  /\ IF lock = NoProcess
       THEN /\ DaemonGoes(d, "pid") /\ lock' = d /\ UNCHANGED told
            /\ overlapped' = IF \E s \in Stop : Cleaning(s)
                               THEN overlapped \cup {d} ELSE overlapped
       ELSE ExitOf(d) /\ UNCHANGED overlapped
  /\ UNCHANGED <<pidfile, socket, starts, stop, mishaps>>

WritePid(d) ==
  /\ daemon[d] = "pid"
  /\ pidfile' = d
  /\ DaemonGoes(d, "probe")
  /\ UNCHANGED <<lock, socket, told, starts, stop, overlapped, mishaps>>

\* bind_single: exit if a daemon answers on the socket.  The pidfile stays.
ProbeSocket(d) ==
  /\ daemon[d] = "probe"
  /\ IF Connects THEN ExitOf(d)
                 ELSE DaemonGoes(d, "unlink") /\ UNCHANGED <<lock, told>>
  /\ UNCHANGED <<pidfile, socket, starts, stop, overlapped, mishaps>>

\* Faulty variant: the dead socket of an earlier daemon is left in place.
LeaveSocket(d) ==
  /\ daemon[d] = "unlink"
  /\ DaemonGoes(d, "bind")
  /\ UNCHANGED <<paths, told, starts, stop, overlapped, mishaps>>

\* ... remove the dead socket file,
UnlinkSocket(d) ==
  /\ daemon[d] = "unlink"
  /\ socket' = NoProcess
  /\ DaemonGoes(d, "bind")
  /\ UNCHANGED <<lock, pidfile, told, starts, stop, overlapped, mishaps>>

\* ... and bind a new one, which fails while the file exists.
Bind(d) ==
  /\ daemon[d] = "bind"
  /\ IF socket = NoProcess
       THEN socket' = d /\ DaemonGoes(d, "moon") /\ UNCHANGED <<lock, told>>
       ELSE ExitOf(d) /\ UNCHANGED socket
  /\ UNCHANGED <<pidfile, starts, stop, overlapped, mishaps>>

\* run: Moon is up, the store and the retriever are built, serve accepts.
Serve(d) ==
  /\ daemon[d] = "moon"
  /\ DaemonGoes(d, "serve")
  /\ UNCHANGED <<paths, told, starts, stop, overlapped, mishaps>>

\* ensure_moon fails: the same removals as a shutdown.
MoonFails(d) ==
  /\ daemon[d] = "moon" /\ mishaps < MaxMishaps
  /\ DaemonGoes(d, "unbind")
  /\ mishaps' = mishaps + 1
  /\ UNCHANGED <<paths, told, starts, stop, overlapped>>

\* serve_conn reads a Shutdown request that came earlier.
ReadShutdown(d) ==
  /\ daemon[d] = "serve" /\ d \in told
  /\ DaemonGoes(d, "unbind")
  /\ UNCHANGED <<paths, told, starts, stop, overlapped, mishaps>>

\* The shutdown callback: the socket file goes first,
Unbind(d) ==
  /\ daemon[d] = "unbind"
  /\ socket' = NoProcess
  /\ DaemonGoes(d, "unpid")
  /\ UNCHANGED <<lock, pidfile, told, starts, stop, overlapped, mishaps>>

\* ... then the pidfile, if it is its own (remove_own_pidfile), and exit.
Exit(d) ==
  /\ daemon[d] = "unpid"
  /\ pidfile' = IF pidfile = d THEN NoProcess ELSE pidfile
  /\ ExitOf(d)
  /\ UNCHANGED <<socket, starts, stop, overlapped, mishaps>>

\* A crash, or a kill by somebody else.
Kill(d) ==
  /\ Alive(d) /\ mishaps < MaxMishaps
  /\ ExitOf(d)
  /\ mishaps' = mishaps + 1
  /\ UNCHANGED <<pidfile, socket, starts, stop, overlapped>>

-----------------------------------------------------------------------------
At(s, stage) == stop[s].stage = stage
StopGoes(s, stage) == stop' = [stop EXCEPT ![s].stage = stage]

BeginStop(s) ==
  /\ At(s, "idle")
  /\ stop' = [stop EXCEPT ![s].stage = "ask",
                ![s].asked = IF Connects THEN socket ELSE NoProcess]
  /\ UNCHANGED <<paths, daemon, told, starts, overlapped, mishaps>>

\* The daemon acknowledges Shutdown, and begins to exit.
AskAnswered(s) ==
  /\ At(s, "ask") /\ Connects /\ daemon[socket] \in {"serve", "unbind", "unpid"}
  /\ StopGoes(s, "wait")
  /\ IF daemon[socket] = "serve" THEN DaemonGoes(socket, "unbind") ELSE UNCHANGED daemon
  /\ UNCHANGED <<paths, told, starts, overlapped, mishaps>>

\* No acknowledgement in time: the daemon is not serving yet or is slow, and
\* reads the request later, or it has no connection slot left.
AskLate(s) ==
  /\ At(s, "ask") /\ Connects /\ mishaps < MaxMishaps
  /\ told' \in {told, told \cup {socket}}
  /\ StopGoes(s, "pid")
  /\ mishaps' = mishaps + 1
  /\ UNCHANGED <<paths, daemon, starts, overlapped>>

AskNobody(s) ==
  /\ At(s, "ask") /\ ~Connects
  /\ StopGoes(s, "pid")
  /\ UNCHANGED <<paths, daemon, told, starts, overlapped, mishaps>>

\* wait_until: the socket no longer answers, or STOP_WAIT has passed.
\* Stopped::ViaSocket either way.
WaitGone(s) ==
  /\ At(s, "wait")
  /\ StopGoes(s, "done")
  /\ UNCHANGED <<paths, daemon, told, starts, overlapped, mishaps>>

\* The pidfile's pid, if it is that of a live laya-codex process.
ReadPid(s) ==
  /\ At(s, "pid")
  /\ IF pidfile # NoProcess /\ Alive(pidfile)
       THEN stop' = [stop EXCEPT ![s].stage = "term", ![s].victim = pidfile]
       ELSE StopGoes(s, "check")
  /\ UNCHANGED <<paths, daemon, told, starts, overlapped, mishaps>>

\* Faulty variant: the process that holds the pid is not signalled.
TerminateNobody(s) ==
  /\ At(s, "term")
  /\ stop' = [stop EXCEPT ![s].stage = "check", ![s].victim = NoProcess]
  /\ UNCHANGED <<paths, daemon, told, starts, overlapped, mishaps>>

\* SIGTERM, which the daemon does not handle, and wait until it is gone.
Terminate(s) ==
  /\ At(s, "term")
  /\ ExitOf(stop[s].victim)
  /\ stop' = [stop EXCEPT ![s].stage = "check", ![s].victim = NoProcess]
  /\ UNCHANGED <<pidfile, socket, starts, overlapped, mishaps>>

\* remove_stale.  lock_is_held takes the lock to see whether it is free,
CheckLock(s) ==
  /\ At(s, "check")
  /\ IF lock = NoProcess THEN lock' = s /\ StopGoes(s, "unlock")
                      ELSE StopGoes(s, "done") /\ UNCHANGED lock
  /\ UNCHANGED <<pidfile, socket, daemon, told, starts, overlapped, mishaps>>

\* ... and gives it back at once.
Unlock(s) ==
  /\ At(s, "unlock")
  /\ lock' = NoProcess
  /\ StopGoes(s, "rmpid")
  /\ UNCHANGED <<pidfile, socket, daemon, told, starts, overlapped, mishaps>>

RemovePid(s) ==
  /\ At(s, "rmpid")
  /\ pidfile' = NoProcess
  /\ StopGoes(s, "probe")
  /\ UNCHANGED <<lock, socket, daemon, told, starts, overlapped, mishaps>>

ProbeStale(s) ==
  /\ At(s, "probe")
  /\ StopGoes(s, IF Connects THEN "done" ELSE "rmsock")
  /\ UNCHANGED <<paths, daemon, told, starts, overlapped, mishaps>>

RemoveSocket(s) ==
  /\ At(s, "rmsock")
  /\ socket' = NoProcess
  /\ StopGoes(s, "done")
  /\ UNCHANGED <<lock, pidfile, daemon, told, starts, overlapped, mishaps>>

-----------------------------------------------------------------------------
DaemonStep(d) ==
  \/ TryLock(d) \/ WritePid(d) \/ ProbeSocket(d) \/ UnlinkSocket(d) \/ Bind(d)
  \/ Serve(d) \/ ReadShutdown(d) \/ Unbind(d) \/ Exit(d)

StopStep(s) ==
  \/ AskAnswered(s) \/ AskNobody(s) \/ WaitGone(s) \/ ReadPid(s)
  \/ Terminate(s) \/ CheckLock(s) \/ Unlock(s) \/ RemovePid(s)
  \/ ProbeStale(s) \/ RemoveSocket(s)

LifetimeNext ==
  \/ \E k \in Hook : Claim(k) \/ \E d \in Daemon : Spawn(k, d)
  \/ MarkerAges
  \/ \E d \in Daemon : DaemonStep(d) \/ MoonFails(d) \/ Kill(d)
  \/ \E s \in Stop : BeginStop(s) \/ StopStep(s) \/ AskLate(s)

LifetimeSpec == LifetimeInit /\ [][LifetimeNext]_lifetimeVars

\* Processes that were started run on, time passes, and hooks keep coming.
Fairness ==
  /\ \A d \in Daemon : WF_lifetimeVars(DaemonStep(d))
  /\ \A s \in Stop : WF_lifetimeVars(StopStep(s))
  /\ WF_lifetimeVars(MarkerAges)
  /\ WF_lifetimeVars(\E k \in Hook : Claim(k))
  /\ \A k \in Hook : WF_lifetimeVars(\E d \in Daemon : Spawn(k, d))

LifetimeFairSpec == LifetimeSpec /\ Fairness

-----------------------------------------------------------------------------
LifetimeTypeOK ==
  /\ lock \in Daemon \cup Stop \cup {NoProcess}
  /\ {pidfile, socket} \subseteq Daemon \cup {NoProcess}
  /\ daemon \in [Daemon -> {"off", "lock", "pid", "probe", "unlink", "bind",
                            "moon", "serve", "unbind", "unpid"}]
  /\ {told, overlapped} \subseteq SUBSET Daemon
  /\ hook \in [Hook -> {"idle", "claimed"}] /\ marker \in BOOLEAN
  /\ stop \in [Stop -> StopState]
  /\ mishaps \in 0..MaxMishaps

Serving(d) == daemon[d] = "serve"

(* Whatever starts, kills, failed starts and stops went on around it, a    *)
(* daemon that serves is the one the socket and the pidfile name, so that  *)
(* hooks reach it and stop can end it; unless a stop was cleaning up, with *)
(* its look at the lock behind it, when that daemon took the lock.         *)
OwnsFiles ==
  \A d \in Daemon : Serving(d) /\ d \notin overlapped =>
    pidfile = d /\ socket = d

(* When stop has finished, whatever it told its user, the daemon that      *)
(* served the socket when it began no longer serves: also when that did    *)
(* not acknowledge in time, or was still starting.                         *)
StopEndsIt ==
  \A s \in Stop : At(s, "done") /\ stop[s].asked \in Daemon \ overlapped =>
    daemon[stop[s].asked] \in {"off", "unbind", "unpid"}

Reachable == Connects /\ Serving(socket)

(* Once nobody kills, fails or stops daemons any more, hooks bring one up  *)
(* and it stays reachable; unless one of the daemons that started during a *)
(* stop's clean-up holds the lock.                                         *)
ComesBack ==
  <>[](Reachable \/ \E d \in overlapped : Serving(d))
=============================================================================
