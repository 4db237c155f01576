----------------------------- MODULE Supervisor -----------------------------
(***************************************************************************)
(* The Moon supervisor (crates/laya-store/src/supervisor.rs) and the       *)
(* creation of its password file (secure.rs): processes that share one     *)
(* LAYA_CODEX_HOME, the daemon and the command line, call ensure_moon and  *)
(* stop whenever they like.  They meet in the port, which one Moon at a    *)
(* time can bind, in the ACL file, in moon.pid and in the temporary file   *)
(* moon.pid.tmp it is renamed from.                                        *)
(*                                                                         *)
(* The Moon processes are external: one that finds the port taken exits,   *)
(* SIGTERM makes it leave in its own time, SIGKILL at once.                *)
(***************************************************************************)
EXTENDS Integers

CONSTANTS
  Client,  \* processes of laya-codex
  Stopper, \* those among them that call stop
  Moon,    \* pids of Moon processes
  Nobody,  \* no process, no password, no file
  MaxFaults \* bound of the model: kills, crashes, probes and AUTHs that time out

ASSUME SupervisorAssumption ==
  /\ Nobody \notin Client \cup Moon
  /\ Stopper \subseteq Client
  /\ MaxFaults \in Nat

VARIABLES
  acl,      \* the password in the ACL file; a password is named by the
            \* client that generated it
  port,     \* the Moon that answers on the port
  moon,     \* moon[m]: its stage, and the password it was started with
  pidfile,  \* whose pid moon.pid holds
  tmpfile,  \* whose pid moon.pid.tmp holds
  client,   \* client[c]: how far c's call has come
  clean,    \* no two calls overlapped, no client was killed in a call, and no
            \* stop aimed at an own Moon that had died (history)
  missed,   \* a probe timed out on a Moon that was there (history)
  faults    \* faults so far

files == <<acl, pidfile, tmpfile>>
vars == <<files, port, moon, client, clean, missed, faults>>

Stage == {"idle", "acl", "link",
          "check", "recheck", "probe", "pid", "spawn", "poll", "judge", "tmp",
          "rename",
          "aim", "sprobe", "reap", "unfile",
          "term", "quiet", "confirm"}

MoonState == [stage : {"off", "starting", "up", "leaving", "gone"},
              password : Client \cup {Nobody}]

\* goal: the call being made; seen: the Moon that answered the last probe;
\* victim: the pid to signal; kid: the Moon this call spawned; child: the one
\* the supervisor keeps to reap; result: of the last call.
ClientState == [stage : Stage, goal : {"ensure", "stop"},
                password : Client \cup {Nobody},
                seen : Moon \cup {Nobody}, victim : Moon \cup {Nobody},
                kid : Moon \cup {Nobody}, child : Moon \cup {Nobody},
                result : {"none", "ready", "spawned", "failed", "stopped"}]

Alive(m) == m # Nobody /\ moon[m].stage \in {"starting", "up", "leaving"}
Active(c) == client[c].stage # "idle"

NewProcess ==
  [stage |-> "idle", goal |-> "ensure", password |-> Nobody, seen |-> Nobody,
   victim |-> Nobody, kid |-> Nobody, child |-> Nobody, result |-> "none"]

\* At first the port is free, or a password-less Moon serves it: one that an
\* older laya-codex started, or (without the pidfile) a stranger's.
Init ==
  /\ acl = Nobody /\ tmpfile = Nobody
  /\ port \in Moon \cup {Nobody}
  /\ pidfile \in {port, Nobody}
  /\ moon = [m \in Moon |->
       [stage |-> IF m = port THEN "up" ELSE "off", password |-> Nobody]]
  /\ client = [c \in Client |-> NewProcess]
  /\ clean = TRUE /\ missed = FALSE /\ faults = 0

-----------------------------------------------------------------------------
\* The call goes on at a stage, or returns; m is the Moon seen last, which is
\* forgotten (as in Begin) unless the result depends on it.
Goes(c, m, stage) ==
  client' = [client EXCEPT ![c].stage = stage, ![c].seen = m]

Returns(c, m, result) ==
  client' = [client EXCEPT ![c].stage = "idle", ![c].goal = "ensure",
    ![c].result = result, ![c].seen = IF result = "failed" THEN Nobody ELSE m,
    ![c].victim = Nobody, ![c].kid = Nobody]

Fault == faults < MaxFaults /\ faults' = faults + 1

\* What a client with password w makes of the answer of Moon m, or of none.
Classify(m, w) ==
  CASE m = Nobody                -> "down"
    [] m # Nobody /\ moon[m].password = Nobody            -> "unprotected"
    [] m # Nobody /\ moon[m].password = w /\ w # Nobody   -> "ready"
    [] OTHER                     -> "wrong password"

Finds(c, m) == Classify(m, client[c].password)

\* A probe meets m: who answers, or nothing when the answer takes longer than
\* PING_TIMEOUT.
Meets(m) ==
  \/ m = port /\ UNCHANGED <<missed, faults>>
  \/ m = Nobody /\ port # Nobody /\ Fault /\ missed' = TRUE

\* legacy_pid: the pidfile names a live Moon.
LegacyPid == IF Alive(pidfile) THEN pidfile ELSE Nobody

\* A pid no process has, that no file and no call names.
Unused(m) ==
  /\ ~Alive(m) /\ m \notin {pidfile, tmpfile}
  /\ \A c \in Client :
       m \notin {client[c].seen, client[c].victim, client[c].kid,
                 client[c].child}

\* The kernel removes Moon m, and its port with it.
Dies(m) ==
  /\ moon' = [moon EXCEPT ![m].stage = "gone"]
  /\ port' = IF port = m THEN Nobody ELSE port

-----------------------------------------------------------------------------
\* A process starts a call; its first one loads the password.
Begin(c, goal) ==
  /\ client[c].stage = "idle"
  /\ goal = "stop" => c \in Stopper
  /\ client' = [client EXCEPT
       ![c].stage = CASE client[c].password = Nobody -> "acl"
                      [] goal = "ensure" /\ client[c].password # Nobody -> "check"
                      [] OTHER -> "aim",
       ![c].goal = goal, ![c].result = "none", ![c].seen = Nobody]
  /\ clean' = (clean /\ \A d \in Client : ~Active(d))
  /\ UNCHANGED <<files, port, moon, missed, faults>>

\* The password is known: on with the call.
Knows(c, w) ==
  client' = [client EXCEPT
    ![c].password = w,
    ![c].stage = IF client[c].goal = "ensure" THEN "check" ELSE "aim"]

\* load_or_create_acl: use the password that is there, or make one.
ReadAcl(c) ==
  /\ client[c].stage = "acl"
  /\ IF acl # Nobody THEN Knows(c, acl) ELSE Goes(c, Nobody, "link")
  /\ UNCHANGED <<files, port, moon, clean, missed, faults>>

\* Faulty variant: the new file replaces one that appeared meanwhile.
LinkAclClobbering(c) ==
  /\ client[c].stage = "link"
  /\ acl' = c /\ Knows(c, c)
  /\ UNCHANGED <<pidfile, tmpfile, port, moon, clean, missed, faults>>

\* hard_link the finished file into place, or read the winner's.
LinkAcl(c) ==
  /\ client[c].stage = "link"
  /\ IF acl = Nobody THEN acl' = c /\ Knows(c, c)
                     ELSE Knows(c, acl) /\ UNCHANGED acl
  /\ UNCHANGED <<pidfile, tmpfile, port, moon, clean, missed, faults>>

-----------------------------------------------------------------------------
\* ensure_moon looks at the port before anything is spawned ...
Check(c, m) ==
  /\ client[c].stage = "check" /\ Meets(m)
  /\ CASE Finds(c, m) = "ready" -> Returns(c, m, "ready")
       [] Finds(c, m) = "down"  -> Goes(c, m, "probe")
       [] Finds(c, m) = "unprotected"    -> Goes(c, m, "recheck")
       [] Finds(c, m) = "wrong password" -> Returns(c, m, "failed")
  /\ UNCHANGED <<files, port, moon, clean>>

\* ... and goes on past a password-less Moon only if it is_legacy.
Recheck(c, m) ==
  /\ client[c].stage = "recheck" /\ Meets(m)
  /\ IF Finds(c, m) = "unprotected" /\ LegacyPid # Nobody
       THEN Goes(c, m, "probe") ELSE Returns(c, m, "failed")
  /\ UNCHANGED <<files, port, moon, clean>>

\* Faulty variant: whoever answers has the port, so all is well.
ProbeTrusting(c, m) ==
  /\ client[c].stage = "probe" /\ Meets(m)
  /\ IF m # Nobody THEN Returns(c, m, "ready") ELSE Goes(c, m, "spawn")
  /\ UNCHANGED <<files, port, moon, clean>>

\* ensure_running starts with a probe of its own.
Probe(c, m) ==
  /\ client[c].stage = "probe" /\ Meets(m)
  /\ CASE Finds(c, m) = "ready" -> Returns(c, m, "ready")
       [] Finds(c, m) = "down"  -> Goes(c, m, "spawn")
       [] Finds(c, m) = "unprotected"    -> Goes(c, m, "pid")
       [] Finds(c, m) = "wrong password" -> Returns(c, m, "failed")
  /\ UNCHANGED <<files, port, moon, clean>>

\* Whose pid does the pidfile hold now?
ReadLegacyPid(c) ==
  /\ client[c].stage = "pid"
  /\ IF LegacyPid = Nobody
       THEN Returns(c, Nobody, "failed")
       ELSE client' = [client EXCEPT ![c].stage = "term",
                                     ![c].victim = LegacyPid]
  /\ UNCHANGED <<files, port, moon, clean, missed, faults>>

\* terminate: SIGTERM; a Moon that is up answers until it has left.
Terminate(c) ==
  /\ client[c].stage = "term"
  /\ moon' = IF Alive(client[c].victim)
               THEN [moon EXCEPT ![client[c].victim].stage = "leaving"]
               ELSE moon
  /\ Goes(c, client[c].seen, "quiet")
  /\ UNCHANGED <<files, port, clean, missed, faults>>

\* Where terminate returns to.
AfterTerminate(c) == IF client[c].goal = "ensure" THEN "confirm" ELSE "reap"

\* Faulty variant: no SIGKILL after the grace period.
QuietWithoutKill(c, m) ==
  /\ client[c].stage = "quiet" /\ Meets(m)
  /\ Goes(c, client[c].seen, AfterTerminate(c))
  /\ UNCHANGED <<files, port, moon, clean>>

\* Faulty variant: no end to the wait for a quiet port.
QuietPatient(c, m) ==
  /\ client[c].stage = "quiet" /\ m = Nobody /\ Meets(m)
  /\ Goes(c, client[c].seen, AfterTerminate(c))
  /\ UNCHANGED <<files, port, moon, clean>>

\* The port is quiet, or STOP_GRACE has passed and SIGKILL follows (the second
\* wait is for a process that is already dead).
Quiet(c, m) ==
  /\ client[c].stage = "quiet" /\ Meets(m)
  /\ IF m # Nobody /\ Alive(client[c].victim)
       THEN Dies(client[c].victim) ELSE UNCHANGED <<port, moon>>
  /\ Goes(c, client[c].seen, AfterTerminate(c))
  /\ UNCHANGED <<files, clean>>

\* replace_legacy: an error if somebody still answers, else no pidfile is left.
Confirm(c, m) ==
  /\ client[c].stage = "confirm" /\ Meets(m)
  /\ IF m # Nobody THEN Returns(c, m, "failed") ELSE Goes(c, m, "unfile")
  /\ UNCHANGED <<files, port, moon, clean>>

\* Spawn a Moon with the password.  The executable may be missing.
Spawn(c, m) ==
  /\ client[c].stage = "spawn"
  /\ \/ /\ Unused(m)
        /\ moon' = [moon EXCEPT
             ![m] = [stage |-> "starting", password |-> client[c].password]]
        /\ client' = [client EXCEPT ![c].stage = "poll", ![c].kid = m]
     \/ Returns(c, Nobody, "failed") /\ UNCHANGED moon
  /\ UNCHANGED <<files, port, clean, missed, faults>>

\* The wait loop probes ...
Poll(c, m) ==
  /\ client[c].stage = "poll" /\ Meets(m)
  /\ Goes(c, m, "judge")
  /\ UNCHANGED <<files, port, moon, clean>>

\* ... and then looks at the child: another Moon won the port, or this one
\* serves it, or it died, or the loop goes round.
Judge(c) ==
  /\ client[c].stage = "judge"
  /\ LET m == client[c].seen
         died == ~Alive(client[c].kid)
         found == Classify(m, client[c].password) IN
     CASE found = "ready" /\ died  -> Returns(c, m, "ready")
       [] found = "ready" /\ ~died -> Goes(c, m, "tmp")
       [] found # "ready" /\ died  -> Returns(c, m, "failed")
       [] OTHER                    -> Goes(c, m, "poll")
  /\ UNCHANGED <<files, port, moon, clean, missed, faults>>

\* spawn_timeout has passed: the child is killed.
TimeOut(c) ==
  /\ client[c].stage = "judge"
  /\ Finds(c, client[c].seen) # "ready" /\ Alive(client[c].kid)
  /\ Dies(client[c].kid)
  /\ Returns(c, client[c].seen, "failed")
  /\ UNCHANGED <<files, clean, missed, faults>>

\* write_pidfile: the pid goes to moon.pid.tmp ...
WriteTmp(c) ==
  /\ client[c].stage = "tmp"
  /\ tmpfile' = client[c].kid
  /\ Goes(c, client[c].seen, "rename")
  /\ UNCHANGED <<acl, pidfile, port, moon, clean, missed, faults>>

\* Faulty variant: an old moon.pid is not replaced.
RenameTmpOnce(c) ==
  /\ client[c].stage = "rename"
  /\ pidfile' = IF pidfile = Nobody THEN tmpfile ELSE pidfile
  /\ tmpfile' = Nobody
  /\ client' = [client EXCEPT
       ![c].stage = "idle", ![c].result = "spawned",
       ![c].child = client[c].kid, ![c].kid = Nobody]
  /\ UNCHANGED <<acl, port, moon, clean, missed, faults>>

\* ... and is renamed to moon.pid; another call may have renamed it already.
RenameTmp(c) ==
  /\ client[c].stage = "rename"
  /\ IF tmpfile = Nobody
       THEN /\ Returns(c, client[c].seen, "failed")
            /\ UNCHANGED <<tmpfile, pidfile>>
       ELSE /\ pidfile' = tmpfile /\ tmpfile' = Nobody
            /\ client' = [client EXCEPT
                 ![c].stage = "idle", ![c].result = "spawned",
                 ![c].child = client[c].kid, ![c].kid = Nobody]
  /\ UNCHANGED <<acl, port, moon, clean, missed, faults>>

-----------------------------------------------------------------------------
\* stop: the pid is the child's, or the pidfile's.
Aim(c) ==
  /\ client[c].stage = "aim"
  /\ LET victim == IF client[c].child # Nobody THEN client[c].child
                                               ELSE pidfile IN
     /\ client' = [client EXCEPT ![c].stage = "sprobe", ![c].victim = victim]
     /\ clean' = (clean /\ (client[c].child # Nobody => Alive(victim)))
  /\ UNCHANGED <<files, port, moon, missed, faults>>

\* It is signalled only if somebody answers.
StopProbe(c, m) ==
  /\ client[c].stage = "sprobe" /\ Meets(m)
  /\ CASE m = Nobody -> Goes(c, m, "reap")
       [] m # Nobody /\ client[c].victim = Nobody -> Returns(c, m, "failed")
       [] OTHER -> Goes(c, m, "term")
  /\ UNCHANGED <<files, port, moon, clean>>

\* Wait for the child to be gone.
Reap(c) ==
  /\ client[c].stage = "reap" /\ ~Alive(client[c].child)
  /\ client' = [client EXCEPT ![c].stage = "unfile", ![c].child = Nobody]
  /\ UNCHANGED <<files, port, moon, clean, missed, faults>>

\* Remove the pidfile: the end of stop, and of replace_legacy.
RemovePidfile(c) ==
  /\ client[c].stage = "unfile"
  /\ pidfile' = Nobody
  /\ IF client[c].goal = "ensure"
       THEN Goes(c, client[c].seen, "spawn")
       ELSE Returns(c, client[c].seen, "stopped")
  /\ UNCHANGED <<acl, tmpfile, port, moon, clean, missed, faults>>

-----------------------------------------------------------------------------
\* The protected Moon answered PING in time but not the AUTH after it, so its
\* password counts as wrong.  (Where the port is only watched, a miss does.)
AuthLate(c) ==
  /\ client[c].stage \in {"check", "probe"} /\ Finds(c, port) = "ready" /\ Fault
  /\ Returns(c, port, "failed")
  /\ UNCHANGED <<files, port, moon, clean, missed>>

\* The process is killed in a call; a new one may take its place.
Killed(c) ==
  /\ Active(c) /\ Fault
  /\ client' = [client EXCEPT ![c] = NewProcess]
  /\ clean' = FALSE
  /\ UNCHANGED <<files, port, moon, missed>>

\* A new Moon takes the port and answers, or finds it taken and exits.
Bind(m) ==
  /\ moon[m].stage = "starting"
  /\ IF port = Nobody
       THEN /\ port' = m
            /\ moon' = [moon EXCEPT ![m].stage = "up"]
       ELSE Dies(m)
  /\ UNCHANGED <<files, client, clean, missed, faults>>

\* A Moon that was asked to leave has left; one that serves may crash.
Leave(m) ==
  /\ moon[m].stage = "leaving" /\ Dies(m)
  /\ UNCHANGED <<files, client, clean, missed, faults>>

Crash(m) ==
  /\ moon[m].stage = "up" /\ Fault /\ Dies(m)
  /\ UNCHANGED <<files, client, clean, missed>>

-----------------------------------------------------------------------------
\* Steps of a call that need no probe, and those that make one.
Step(c) ==
  \/ ReadAcl(c) \/ LinkAcl(c)
  \/ ReadLegacyPid(c) \/ Terminate(c)
  \/ \E m \in Moon : Spawn(c, m)
  \/ Judge(c) \/ WriteTmp(c) \/ RenameTmp(c)
  \/ Aim(c) \/ Reap(c) \/ RemovePidfile(c)

ProbeStep(c, m) ==
  \/ Check(c, m) \/ Recheck(c, m) \/ Probe(c, m) \/ Quiet(c, m)
  \/ Confirm(c, m) \/ Poll(c, m) \/ StopProbe(c, m)

Call(c) == Step(c) \/ \E m \in Moon \cup {Nobody} : ProbeStep(c, m)

Next ==
  \/ \E c \in Client : \/ \E goal \in {"ensure", "stop"} : Begin(c, goal)
                       \/ Call(c) \/ TimeOut(c) \/ AuthLate(c)
                       \/ Killed(c)
  \/ \E m \in Moon : Bind(m) \/ Leave(m) \/ Crash(m)

Spec == Init /\ [][Next]_vars

\* A process that is not killed goes on with its call, and the deadline of the
\* wait loop passes.  Nothing is assumed of the Moons: one may never answer, or
\* ignore SIGTERM.
FairSpec == Spec /\ \A c \in Client : WF_vars(Call(c)) /\ SF_vars(TimeOut(c))

-----------------------------------------------------------------------------
SupTypeOK ==
  /\ acl \in Client \cup {Nobody}
  /\ {port, pidfile, tmpfile} \subseteq Moon \cup {Nobody}
  /\ moon \in [Moon -> MoonState]
  /\ client \in [Client -> ClientState]
  /\ clean \in BOOLEAN /\ missed \in BOOLEAN
  /\ faults \in 0..MaxFaults

\* load_or_create_acl "never clobbers": every process that has a password, and
\* every protected Moon any of them started, has the one in the ACL file, so no
\* process of this home is ever refused by a Moon of another's.
OnePassword ==
  /\ \A c \in Client : client[c].password \in {Nobody, acl}
  /\ \A m \in Moon : moon[m].password \in {Nobody, acl}

\* ensure_running never settles for a Moon that lets anybody in: what answered
\* a call that succeeded was a Moon started with the password of the ACL file.
ReadyIsOurs ==
  \A c \in Client : client[c].result \in {"ready", "spawned"} =>
    /\ client[c].seen # Nobody /\ acl # Nobody
    /\ moon[client[c].seen].password = acl

\* Once no call is under way, the pidfile names the protected Moon that serves
\* the port: stop and the legacy check can find it.  Calls that overlap, a
\* process killed in a call, a probe that misses a slow Moon, and a stop by the
\* spawner of a dead Moon do break this.
PidfileNamesMoon ==
  (clean /\ ~missed /\ \A c \in Client : ~Active(c)) =>
    (port = Nobody \/ moon[port].password = Nobody \/ pidfile = port)

\* A stop that returned Ok has stopped the Moon that answered when it began,
\* under the same conditions.
StopStops ==
  \A c \in Client :
    (clean /\ ~missed /\ client[c].result = "stopped")
      => ~Alive(client[c].seen)

\* Every ensure_moon returns, whatever the other processes and the Moons do;
\* and so does every stop, unless the pid it aims at or the probe before it
\* misses: then it skips the signals and waits for as long as its child lives.
CallsEnd ==
  \A c \in Client :
    Active(c) ~> \/ ~Active(c)
                 \/ client[c].goal = "stop" /\ (missed \/ ~clean)
=============================================================================
