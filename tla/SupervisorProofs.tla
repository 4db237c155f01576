-------------------------- MODULE SupervisorProofs --------------------------
(***************************************************************************)
(* Theorems about Supervisor, for any number of processes and Moons: one   *)
(* password for a home, and no call settles for a Moon that was not        *)
(* started with it, whatever is killed or crashes; and where no two calls  *)
(* overlap and no probe misses, the pidfile names the Moon that serves and *)
(* a stop has stopped it.                                                  *)
(***************************************************************************)
EXTENDS Supervisor, TLAPS

\* The call of c has found a Moon good.
Vouched(c) == client[c].stage \in {"tmp", "rename"} \/ client[c].result \in {"ready", "spawned"}

Vouchers ==
  \A c \in Client :
    /\ client[c].stage # "idle" => client[c].result = "none"
    /\ Vouched(c) => /\ client[c].seen # Nobody /\ acl # Nobody
                     /\ moon[client[c].seen].password = acl

IInv == SupTypeOK /\ OnePassword /\ Vouchers

-----------------------------------------------------------------------------
\* Only c's record changes, to r.
Moves(c, r) ==
  /\ client' = [client EXCEPT ![c] = r]
  /\ r \in ClientState
  /\ r.stage # "idle" => r.result = "none"

\* No Moon gets another password.
Keep ==
  /\ moon' \in [Moon -> MoonState] /\ port' \in Moon \cup {Nobody}
  /\ \A m \in Moon : moon'[m].password = moon[m].password

\* The rest of the state that has a type and no more.
Rest ==
  /\ {pidfile, tmpfile} \subseteq Moon \cup {Nobody}
  /\ clean \in BOOLEAN /\ missed \in BOOLEAN /\ faults \in 0..MaxFaults

LEMMA MovingKeeps ==
  ASSUME IInv, NEW c \in Client, NEW r, Moves(c, r), Keep, acl' = acl, Rest',
         r.password \in {Nobody, acl},
         r.stage \in {"tmp", "rename"} \/ r.result \in {"ready", "spawned"} =>
           r.seen # Nobody /\ acl # Nobody /\ moon[r.seen].password = acl
  PROVE  IInv'
<1>1. client'[c] = r /\ \A d \in Client \ {c} : client'[d] = client[d]
  BY DEF Moves, IInv, SupTypeOK
<1>2. SupTypeOK'
  BY DEF Moves, Keep, Rest, IInv, SupTypeOK
<1>3. OnePassword'
  BY <1>1 DEF Keep, IInv, OnePassword
<1>4. \A d \in Client : client'[d].seen \in Moon \cup {Nobody}
  BY <1>2 DEF SupTypeOK, ClientState
<1>5. Vouchers'
  BY <1>1, <1>4 DEF Keep, Moves, IInv, Vouchers, Vouched
<1>6. QED
  BY <1>2, <1>3, <1>5 DEF IInv

LEMMA GoingMoves ==
  ASSUME SupTypeOK, NEW c \in Client, NEW m \in Moon \cup {Nobody}, NEW stage \in Stage,
         Goes(c, m, stage), client[c].result = "none"
  PROVE  \E r : /\ Moves(c, r) /\ r.password = client[c].password
                /\ r.stage = stage /\ r.result = "none" /\ r.seen = m
<1> DEFINE r == [client[c] EXCEPT !.stage = stage, !.seen = m]
<1>1. client[c] \in ClientState
  BY DEF SupTypeOK
<1>2. r \in ClientState /\ r.password = client[c].password /\ r.stage = stage
      /\ r.result = "none" /\ r.seen = m
  BY <1>1 DEF ClientState
<1>3. client' = [client EXCEPT ![c] = r]
  BY DEF Goes, SupTypeOK
<1> HIDE DEF r
<1>4. QED
  BY <1>2, <1>3 DEF Moves

LEMMA ReturningMoves ==
  ASSUME SupTypeOK, NEW c \in Client, NEW m \in Moon \cup {Nobody},
         NEW result \in {"ready", "spawned", "failed", "stopped"}, Returns(c, m, result)
  PROVE  \E r : /\ Moves(c, r) /\ r.password = client[c].password
                /\ r.stage = "idle" /\ r.result = result
                /\ r.seen = IF result = "failed" THEN Nobody ELSE m
<1> DEFINE seen == IF result = "failed" THEN Nobody ELSE m
           r == [client[c] EXCEPT !.stage = "idle", !.goal = "ensure", !.result = result,
                                  !.seen = seen, !.victim = Nobody, !.kid = Nobody]
<1>1. client[c] \in ClientState /\ seen \in Moon \cup {Nobody}
  BY DEF SupTypeOK
<1>2. client' = [client EXCEPT ![c] = r]
  BY DEF Returns, SupTypeOK
<1> HIDE DEF seen
<1>3. r \in ClientState /\ r.password = client[c].password /\ r.stage = "idle"
      /\ r.result = result /\ r.seen = seen
  BY ZenonT(60), <1>1 DEF ClientState, Stage
<1> HIDE DEF r
<1>4. QED
  BY <1>2, <1>3 DEF Moves, seen

LEMMA DeathKeeps ==
  ASSUME SupTypeOK, NEW m \in Moon, Dies(m)
  PROVE  Keep
  BY DEF SupTypeOK, Dies, Keep, MoonState

LEMMA StillKeeps ==
  ASSUME SupTypeOK, UNCHANGED <<moon, port>>
  PROVE  Keep
  BY DEF SupTypeOK, Keep

\* What c finds fits its own password only if that is the Moon's.
LEMMA ReadyHasPassword ==
  ASSUME IInv, NEW c \in Client, NEW m \in Moon \cup {Nobody},
         Classify(m, client[c].password) = "ready"
  PROVE  m # Nobody /\ acl # Nobody /\ moon[m].password = acl
<1>1. m # Nobody /\ moon[m].password = client[c].password /\ client[c].password # Nobody
  BY DEF Classify
<1>2. QED
  BY <1>1 DEF IInv, OnePassword

Good(m) == m # Nobody /\ acl # Nobody /\ moon[m].password = acl

LEMMA GoesKeeps ==
  ASSUME IInv, NEW c \in Client, NEW m \in Moon \cup {Nobody}, NEW stage \in Stage,
         client[c].stage # "idle", Goes(c, m, stage), Keep, acl' = acl, Rest',
         stage \in {"tmp", "rename"} => Good(m)
  PROVE  IInv'
<1>1. client[c].result = "none" /\ client[c].password \in {Nobody, acl}
  BY DEF IInv, Vouchers, OnePassword
<1>2. PICK r : /\ Moves(c, r) /\ r.password = client[c].password
               /\ r.stage = stage /\ r.result = "none" /\ r.seen = m
  BY <1>1, GoingMoves DEF IInv
<1>3. QED
  BY <1>1, <1>2, MovingKeeps DEF Good

LEMMA ReturnsKeeps ==
  ASSUME IInv, NEW c \in Client, NEW m \in Moon \cup {Nobody},
         NEW result \in {"ready", "spawned", "failed", "stopped"}, Returns(c, m, result),
         Keep, acl' = acl, Rest', result \in {"ready", "spawned"} => Good(m)
  PROVE  IInv'
<1>1. client[c].password \in {Nobody, acl}
  BY DEF IInv, OnePassword
<1>2. PICK r : /\ Moves(c, r) /\ r.password = client[c].password
               /\ r.stage = "idle" /\ r.result = result
               /\ r.seen = IF result = "failed" THEN Nobody ELSE m
  BY ReturningMoves DEF IInv
<1>3. QED
  BY <1>1, <1>2, MovingKeeps DEF Good

-----------------------------------------------------------------------------
LEMMA MeetingKeeps ==
  ASSUME IInv, NEW m \in Moon \cup {Nobody}, Meets(m), UNCHANGED <<files, clean>>
  PROVE  acl' = acl /\ Rest'
<1>1. acl' = acl /\ {pidfile', tmpfile'} \subseteq Moon \cup {Nobody}
  BY DEF IInv, SupTypeOK, files
<1>2. clean' \in BOOLEAN
  BY DEF IInv, SupTypeOK
<1>3. missed' \in BOOLEAN
  BY DEF IInv, SupTypeOK, Meets
<1>4. faults' \in 0..MaxFaults
  BY SupervisorAssumption DEF IInv, SupTypeOK, Meets, Fault
<1>5. QED
  BY <1>1, <1>2, <1>3, <1>4 DEF Rest

LEMMA ProbesKeep ==
  ASSUME IInv, NEW c \in Client, NEW m \in Moon \cup {Nobody}, ProbeStep(c, m)
  PROVE  IInv'
<1>1. Meets(m) /\ UNCHANGED <<files, clean>> /\ client[c].stage # "idle"
  BY DEF ProbeStep, Check, Recheck, Probe, Quiet, Confirm, Poll, StopProbe
<1>2. acl' = acl /\ Rest'
  BY <1>1, MeetingKeeps
<1>3. client[c].seen \in Moon \cup {Nobody} /\ client[c].victim \in Moon \cup {Nobody}
  BY DEF IInv, SupTypeOK, ClientState
<1>4. CASE Check(c, m) \/ Probe(c, m) \/ Recheck(c, m) \/ Confirm(c, m) \/ Poll(c, m)
           \/ StopProbe(c, m)
  <2>1. Keep
    BY <1>4, StillKeeps DEF Check, Recheck, Probe, Confirm, Poll, StopProbe, IInv
  <2>2. ASSUME NEW result \in {"ready", "failed"}, Returns(c, m, result),
               result = "ready" => Finds(c, m) = "ready"
        PROVE  IInv'
    BY <1>2, <2>1, <2>2, ReturnsKeeps, ReadyHasPassword DEF Finds, Good
  <2>3. ASSUME NEW stage \in Stage \ {"tmp", "rename"}, Goes(c, m, stage) PROVE IInv'
    BY <1>1, <1>2, <2>1, <2>3, GoesKeeps
  <2>4. \/ \E stage \in Stage \ {"tmp", "rename"} : Goes(c, m, stage)
        \/ \E result \in {"ready", "failed"} :
             Returns(c, m, result) /\ (result = "ready" => Finds(c, m) = "ready")
    <3>1. {"check", "recheck", "probe", "pid", "spawn", "judge", "unfile", "reap", "term"}
            \subseteq Stage \ {"tmp", "rename"}
      BY DEF Stage
    <3>2. CASE Check(c, m) \/ Probe(c, m)
      BY <3>1, <3>2 DEF Check, Probe, Finds, Classify
    <3>3. CASE Recheck(c, m) \/ Confirm(c, m) \/ Poll(c, m) \/ StopProbe(c, m)
      BY <3>1, <3>3 DEF Recheck, Confirm, Poll, StopProbe
    <3>4. QED
      BY <1>4, <3>2, <3>3
  <2>5. QED
    BY <2>2, <2>3, <2>4
<1>5. CASE Quiet(c, m)
  <2>1. Keep
    BY <1>3, <1>5, StillKeeps, DeathKeeps DEF Quiet, Alive, IInv
  <2>2. AfterTerminate(c) \in Stage \ {"tmp", "rename"}
    BY DEF AfterTerminate, Stage
  <2>3. QED
    BY <1>1, <1>2, <1>3, <1>5, <2>1, <2>2, GoesKeeps DEF Quiet
<1>6. QED
  BY <1>4, <1>5 DEF ProbeStep

-----------------------------------------------------------------------------
\* A call's steps without a probe.
LEMMA BeginKeeps ==
  ASSUME IInv, NEW c \in Client, NEW goal \in {"ensure", "stop"}, Begin(c, goal)
  PROVE  IInv'
<1> DEFINE stage == CASE client[c].password = Nobody -> "acl"
                      [] goal = "ensure" /\ client[c].password # Nobody -> "check"
                      [] OTHER -> "aim"
           r == [client[c] EXCEPT !.stage = stage, !.goal = goal, !.result = "none",
                                  !.seen = Nobody]
<1>1. client[c] \in ClientState /\ stage \in {"acl", "check", "aim"}
  BY DEF IInv, SupTypeOK
<1>2. client' = [client EXCEPT ![c] = r]
  BY DEF Begin, IInv, SupTypeOK
<1> HIDE DEF stage
<1>3. r \in ClientState /\ r.password = client[c].password /\ r.stage = stage
      /\ r.result = "none"
  <2>1. stage \in Stage
    BY <1>1 DEF Stage
  <2>2. QED
    BY <1>1, <2>1 DEF ClientState
<1> HIDE DEF r
<1>4. Moves(c, r)
  BY <1>2, <1>3 DEF Moves
<1>5. Keep /\ acl' = acl /\ Rest'
  <2>1. UNCHANGED <<files, port, moon, missed, faults>> /\ clean' \in BOOLEAN
    BY DEF Begin, IInv, SupTypeOK
  <2>2. QED
    BY <2>1, StillKeeps DEF files, IInv, SupTypeOK, Rest
<1>6. r.password \in {Nobody, acl}
  BY <1>3 DEF IInv, OnePassword
<1>7. QED
  BY <1>1, <1>3, <1>4, <1>5, <1>6, MovingKeeps

LEMMA KnowingKeeps ==
  ASSUME IInv, NEW c \in Client, client[c].stage # "idle", NEW w \in Client, Knows(c, w),
         UNCHANGED <<pidfile, tmpfile, port, moon, clean, missed, faults>>,
         \/ acl' = acl /\ w = acl
         \/ acl = Nobody /\ acl' = w
  PROVE  IInv'
<1> DEFINE stage == IF client[c].goal = "ensure" THEN "check" ELSE "aim"
           r == [client[c] EXCEPT !.password = w, !.stage = stage]
<1>1. client[c] \in ClientState /\ client[c].result = "none"
  BY DEF IInv, SupTypeOK, Vouchers
<1>2. r \in ClientState /\ r.password = w /\ r.stage \in {"check", "aim"} /\ r.result = "none"
  BY <1>1 DEF ClientState, Stage
<1>3. client' = [client EXCEPT ![c] = r]
  BY DEF Knows, IInv, SupTypeOK
<1> HIDE DEF r
<1>4. acl' = w /\ acl \in {Nobody, w} /\ w # Nobody
  BY SupervisorAssumption
<1>5. SupTypeOK'
  BY <1>2, <1>3, <1>4 DEF IInv, SupTypeOK
<1>6. client'[c] = r /\ \A d \in Client \ {c} : client'[d] = client[d]
  BY <1>3 DEF IInv, SupTypeOK
<1>7. OnePassword'
  BY <1>2, <1>4, <1>6 DEF IInv, OnePassword
<1>8. Vouchers'
  BY <1>2, <1>4, <1>6 DEF IInv, Vouchers, Vouched
<1>9. QED
  BY <1>5, <1>7, <1>8 DEF IInv

LEMMA LoadingKeeps ==
  ASSUME IInv, NEW c \in Client, ReadAcl(c) \/ LinkAcl(c)
  PROVE  IInv'
<1>1. client[c].stage # "idle" /\ acl \in Client \cup {Nobody} /\ Nobody \in Moon \cup {Nobody}
      /\ "link" \in Stage
  BY DEF ReadAcl, LinkAcl, IInv, SupTypeOK, Stage
<1>2. UNCHANGED <<pidfile, tmpfile, port, moon, clean, missed, faults>>
  BY DEF ReadAcl, LinkAcl, files
<1>3. CASE acl # Nobody
  BY <1>1, <1>2, <1>3, KnowingKeeps DEF ReadAcl, LinkAcl, files
<1>4. CASE acl = Nobody /\ LinkAcl(c)
  BY <1>1, <1>2, <1>4, KnowingKeeps DEF LinkAcl
<1>5. CASE acl = Nobody /\ ReadAcl(c)
  <2>1. Goes(c, Nobody, "link") /\ acl' = acl
    BY <1>5 DEF ReadAcl, files
  <2>2. Keep /\ Rest'
    BY <1>2, StillKeeps DEF IInv, SupTypeOK, Rest
  <2>3. QED
    BY <1>1, <2>1, <2>2, GoesKeeps
<1>6. QED
  BY <1>3, <1>4, <1>5

LEMMA JudgeKeeps ==
  ASSUME IInv, NEW c \in Client, Judge(c)
  PROVE  IInv'
<1> DEFINE m == client[c].seen
           found == Classify(m, client[c].password)
<1>1. client[c].stage # "idle" /\ m \in Moon \cup {Nobody} /\ {"tmp", "poll"} \subseteq Stage
  BY DEF Judge, IInv, SupTypeOK, ClientState, Stage
<1>2. Keep /\ acl' = acl /\ Rest'
  BY StillKeeps DEF Judge, files, IInv, SupTypeOK, Rest
<1>3. found = "ready" => Good(m)
  BY <1>1, ReadyHasPassword DEF Good
<1>4. \/ \E stage \in {"tmp", "poll"} : Goes(c, m, stage) /\ (stage = "tmp" => found = "ready")
      \/ \E result \in {"ready", "failed"} :
           Returns(c, m, result) /\ (result = "ready" => found = "ready")
  <2> HIDE DEF m, found
  <2>1. CASE found = "ready"
    BY <2>1 DEF Judge, m, found
  <2>2. CASE found # "ready"
    BY <2>2 DEF Judge, m, found
  <2>3. QED
    BY <2>1, <2>2
<1> HIDE DEF m, found
<1>5. QED
  BY <1>1, <1>2, <1>3, <1>4, GoesKeeps, ReturnsKeeps

LEMMA SpawnKeeps ==
  ASSUME IInv, NEW c \in Client, NEW m \in Moon, Spawn(c, m)
  PROVE  IInv'
<1>1. client[c].stage = "spawn" /\ UNCHANGED <<files, port, clean, missed, faults>>
  BY DEF Spawn
<1>2. acl' = acl /\ Rest'
  BY <1>1 DEF files, IInv, SupTypeOK, Rest
<1>3. CASE Returns(c, Nobody, "failed") /\ UNCHANGED moon
  BY <1>1, <1>2, <1>3, StillKeeps, ReturnsKeeps DEF IInv
<1>4. ASSUME Unused(m),
             moon' = [moon EXCEPT
                       ![m] = [stage |-> "starting", password |-> client[c].password]],
             client' = [client EXCEPT ![c].stage = "poll", ![c].kid = m]
      PROVE  IInv'
  <2> DEFINE r == [client[c] EXCEPT !.stage = "poll", !.kid = m]
  <2>1. client[c] \in ClientState /\ client[c].result = "none"
        /\ client[c].password \in {Nobody, acl}
    BY <1>1 DEF IInv, SupTypeOK, Vouchers, OnePassword
  <2>2. r \in ClientState /\ r.stage = "poll" /\ r.result = "none"
        /\ r.password = client[c].password
    BY <2>1 DEF ClientState, Stage
  <2>3. client' = [client EXCEPT ![c] = r]
    BY <1>4 DEF IInv, SupTypeOK
  <2> HIDE DEF r
  <2>4. moon' \in [Moon -> MoonState]
    BY <1>4, <2>1 DEF IInv, SupTypeOK, ClientState, MoonState
  <2>5. SupTypeOK'
    BY <1>1, <2>2, <2>3, <2>4 DEF IInv, SupTypeOK, files
  <2>6. client'[c] = r /\ \A d \in Client \ {c} : client'[d] = client[d]
    BY <2>3 DEF IInv, SupTypeOK
  <2>7. moon'[m].password = client[c].password
        /\ \A n \in Moon \ {m} : moon'[n] = moon[n]
    BY <1>4 DEF IInv, SupTypeOK
  <2>8. OnePassword'
    BY <1>2, <2>1, <2>2, <2>6, <2>7 DEF IInv, OnePassword
  <2>9. \A d \in Client : client[d].seen \in (Moon \ {m}) \cup {Nobody}
    BY <1>4 DEF Unused, IInv, SupTypeOK, ClientState
  <2>10. Vouchers'
    BY <1>2, <2>2, <2>6, <2>7, <2>9 DEF IInv, Vouchers, Vouched
  <2>11. QED
    BY <2>5, <2>8, <2>10 DEF IInv
<1>5. QED
  BY <1>3, <1>4 DEF Spawn

LEMMA PidfileKeeps ==
  ASSUME IInv, NEW c \in Client, WriteTmp(c) \/ RenameTmp(c) \/ RemovePidfile(c)
  PROVE  IInv'
<1>1. /\ client[c] \in ClientState /\ client[c].stage # "idle" /\ client[c].result = "none"
      /\ client[c].password \in {Nobody, acl} /\ {"rename", "spawn"} \subseteq Stage
      /\ client[c].seen \in Moon \cup {Nobody} /\ client[c].kid \in Moon \cup {Nobody}
  BY DEF WriteTmp, RenameTmp, RemovePidfile, IInv, SupTypeOK, Vouchers, OnePassword,
         ClientState, Stage
<1>2. /\ acl' = acl /\ UNCHANGED <<port, moon, clean, missed, faults>>
      /\ {pidfile', tmpfile'} \subseteq Moon \cup {Nobody}
  BY <1>1 DEF WriteTmp, RenameTmp, RemovePidfile, IInv, SupTypeOK
<1>3. Keep /\ Rest'
  BY <1>2, StillKeeps DEF IInv, SupTypeOK, Rest
<1>4. client[c].stage \in {"tmp", "rename"} => Good(client[c].seen)
  BY DEF IInv, Vouchers, Vouched, Good
<1>5. CASE WriteTmp(c)
  BY <1>1, <1>2, <1>3, <1>4, <1>5, GoesKeeps DEF WriteTmp
<1>6. CASE RemovePidfile(c)
  BY <1>1, <1>2, <1>3, <1>6, GoesKeeps, ReturnsKeeps DEF RemovePidfile
<1>7. CASE RenameTmp(c) /\ tmpfile = Nobody
  BY <1>1, <1>2, <1>3, <1>7, ReturnsKeeps DEF RenameTmp
<1>8. CASE RenameTmp(c) /\ tmpfile # Nobody
  <2> DEFINE r == [client[c] EXCEPT !.stage = "idle", !.result = "spawned",
                                    !.child = client[c].kid, !.kid = Nobody]
  <2>1. r \in ClientState /\ r.stage = "idle" /\ r.password = client[c].password
        /\ r.seen = client[c].seen
    BY <1>1 DEF ClientState, Stage
  <2>2. client' = [client EXCEPT ![c] = r]
    BY <1>8 DEF RenameTmp, IInv, SupTypeOK
  <2> HIDE DEF r
  <2>3. Good(r.seen)
    BY <1>4, <1>8, <2>1 DEF RenameTmp
  <2>4. QED
    BY <1>1, <1>2, <1>3, <2>1, <2>2, <2>3, MovingKeeps DEF Moves, Good
<1>9. QED
  BY <1>5, <1>6, <1>7, <1>8

LEMMA StoppingKeeps ==
  ASSUME IInv, NEW c \in Client, ReadLegacyPid(c) \/ Aim(c) \/ Reap(c) \/ Terminate(c)
  PROVE  IInv'
<1>1. /\ client[c] \in ClientState /\ client[c].result = "none"
      /\ client[c].password \in {Nobody, acl} /\ client[c].stage # "idle"
      /\ {"term", "sprobe", "unfile", "quiet"} \subseteq Stage
      /\ client[c].seen \in Moon \cup {Nobody} /\ client[c].victim \in Moon \cup {Nobody}
      /\ client[c].child \in Moon \cup {Nobody} /\ pidfile \in Moon \cup {Nobody}
  BY DEF ReadLegacyPid, Aim, Reap, Terminate, IInv, SupTypeOK, Vouchers, OnePassword,
         ClientState, Stage
<1>2. acl' = acl /\ UNCHANGED <<pidfile, tmpfile, port, missed, faults>> /\ clean' \in BOOLEAN
  BY DEF ReadLegacyPid, Aim, Reap, Terminate, files, IInv, SupTypeOK
<1>3. Rest'
  BY <1>2 DEF IInv, SupTypeOK, Rest
<1>4. CASE Terminate(c)
  <2>1. moon' = moon \/ \E m \in Moon : moon' = [moon EXCEPT ![m].stage = "leaving"]
    BY <1>1, <1>4 DEF Terminate, Alive
  <2>2. Keep
    BY <1>2, <2>1 DEF Keep, IInv, SupTypeOK, MoonState
  <2>3. QED
    BY <1>1, <1>2, <1>3, <1>4, <2>2, GoesKeeps DEF Terminate
<1>5. ASSUME ReadLegacyPid(c) \/ Aim(c) \/ Reap(c) PROVE Keep
  BY <1>5, StillKeeps DEF ReadLegacyPid, Aim, Reap, IInv
<1>6. CASE ReadLegacyPid(c) /\ LegacyPid = Nobody
  <2>1. Returns(c, Nobody, "failed")
    BY <1>6 DEF ReadLegacyPid
  <2>2. QED
    BY <1>2, <1>3, <1>5, <1>6, <2>1, ReturnsKeeps
<1>7. ASSUME NEW r \in ClientState, r.stage # "tmp", r.stage # "rename", r.result = "none",
             r.password = client[c].password, client' = [client EXCEPT ![c] = r], Keep
      PROVE  IInv'
  BY <1>1, <1>2, <1>3, <1>7, MovingKeeps DEF Moves
<1>8. CASE ReadLegacyPid(c) /\ LegacyPid # Nobody
  <2> DEFINE r == [client[c] EXCEPT !.stage = "term", !.victim = LegacyPid]
  <2>1. LegacyPid \in Moon \cup {Nobody}
    BY <1>1 DEF LegacyPid
  <2>2. r \in ClientState /\ r.stage = "term" /\ r.result = "none"
        /\ r.password = client[c].password
    BY <1>1, <2>1 DEF ClientState
  <2>3. client' = [client EXCEPT ![c] = r]
    BY <1>8 DEF ReadLegacyPid, IInv, SupTypeOK
  <2> HIDE DEF r
  <2>4. QED
    BY <1>5, <1>7, <1>8, <2>2, <2>3
<1>9. CASE Aim(c)
  <2> DEFINE victim == IF client[c].child # Nobody THEN client[c].child ELSE pidfile
             r == [client[c] EXCEPT !.stage = "sprobe", !.victim = victim]
  <2>1. victim \in Moon \cup {Nobody}
    BY <1>1
  <2>2. client' = [client EXCEPT ![c] = r]
    BY <1>9 DEF Aim, IInv, SupTypeOK
  <2> HIDE DEF victim
  <2>3. r \in ClientState /\ r.stage = "sprobe" /\ r.result = "none"
        /\ r.password = client[c].password
    BY <1>1, <2>1 DEF ClientState
  <2> HIDE DEF r
  <2>4. QED
    BY <1>5, <1>7, <1>9, <2>2, <2>3
<1>10. CASE Reap(c)
  <2> DEFINE r == [client[c] EXCEPT !.stage = "unfile", !.child = Nobody]
  <2>1. r \in ClientState /\ r.stage = "unfile" /\ r.result = "none"
        /\ r.password = client[c].password
    BY <1>1 DEF ClientState
  <2>2. client' = [client EXCEPT ![c] = r]
    BY <1>10 DEF Reap, IInv, SupTypeOK
  <2> HIDE DEF r
  <2>3. QED
    BY <1>5, <1>7, <1>10, <2>1, <2>2
<1>11. QED
  BY <1>4, <1>6, <1>8, <1>9, <1>10

LEMMA TimeOutKeeps ==
  ASSUME IInv, NEW c \in Client, TimeOut(c)
  PROVE  IInv'
<1>1. client[c].seen \in Moon \cup {Nobody} /\ client[c].kid \in Moon
  BY DEF TimeOut, Alive, IInv, SupTypeOK, ClientState
<1>2. Keep
  BY <1>1, DeathKeeps DEF TimeOut, IInv
<1>3. acl' = acl /\ Rest'
  BY DEF TimeOut, files, IInv, SupTypeOK, Rest
<1>4. QED
  BY <1>1, <1>2, <1>3, ReturnsKeeps DEF TimeOut

LEMMA AuthLateKeeps ==
  ASSUME IInv, NEW c \in Client, AuthLate(c)
  PROVE  IInv'
<1>1. port \in Moon \cup {Nobody} /\ faults' \in 0..MaxFaults
  BY SupervisorAssumption DEF AuthLate, Fault, IInv, SupTypeOK
<1>2. Keep
  BY StillKeeps DEF AuthLate, IInv
<1>3. acl' = acl /\ Rest'
  BY <1>1 DEF AuthLate, files, IInv, SupTypeOK, Rest
<1>4. QED
  BY <1>1, <1>2, <1>3, ReturnsKeeps DEF AuthLate

LEMMA KilledKeeps ==
  ASSUME IInv, NEW c \in Client, Killed(c)
  PROVE  IInv'
<1>1. NewProcess \in ClientState /\ NewProcess.stage = "idle" /\ NewProcess.result = "none"
      /\ NewProcess.password = Nobody
  BY DEF NewProcess, ClientState, Stage
<1>2. Moves(c, NewProcess)
  BY <1>1 DEF Killed, Moves
<1>3. Keep
  BY StillKeeps DEF Killed, IInv
<1>4. acl' = acl /\ {pidfile', tmpfile'} \subseteq Moon \cup {Nobody} /\ missed' \in BOOLEAN
  BY DEF Killed, files, IInv, SupTypeOK
<1>5. faults' \in 0..MaxFaults /\ clean' \in BOOLEAN
  <2>1. faults' \in 0..MaxFaults
    BY SupervisorAssumption DEF Killed, Fault, IInv, SupTypeOK
  <2>2. clean' = FALSE
    BY DEF Killed
  <2>3. QED
    BY <2>1, <2>2
<1>6. QED
  BY <1>1, <1>2, <1>3, <1>4, <1>5, MovingKeeps DEF Rest

\* What the Moons do themselves.
LEMMA MoonsKeep ==
  ASSUME IInv, NEW m \in Moon, Bind(m) \/ Leave(m) \/ Crash(m)
  PROVE  IInv'
<1>1. UNCHANGED <<files, client, clean, missed>> /\ faults' \in 0..MaxFaults
  BY SupervisorAssumption DEF Bind, Leave, Crash, Fault, IInv, SupTypeOK
<1>2. Keep
  <2>1. CASE Dies(m)
    BY <2>1, DeathKeeps DEF IInv
  <2>2. CASE port' = m /\ moon' = [moon EXCEPT ![m].stage = "up"]
    BY <2>2 DEF Keep, IInv, SupTypeOK, MoonState
  <2>3. QED
    BY <2>1, <2>2 DEF Bind, Leave, Crash
<1>3. SupTypeOK' /\ OnePassword'
  BY <1>1, <1>2 DEF Keep, IInv, SupTypeOK, OnePassword, files
<1>4. \A c \in Client : client[c].seen \in Moon \cup {Nobody}
  BY DEF IInv, SupTypeOK, ClientState
<1>5. Vouchers'
  BY <1>1, <1>2, <1>4 DEF Keep, IInv, Vouchers, Vouched, files
<1>6. QED
  BY <1>3, <1>5 DEF IInv

-----------------------------------------------------------------------------
LEMMA InitEstablishes == Init => IInv
<1> SUFFICES ASSUME Init PROVE IInv
  OBVIOUS
<1>1. NewProcess \in ClientState /\ NewProcess.stage = "idle" /\ NewProcess.result = "none"
      /\ NewProcess.password = Nobody
  BY DEF NewProcess, ClientState, Stage
<1>2. SupTypeOK
  <2>1. acl \in Client \cup {Nobody} /\ {port, pidfile, tmpfile} \subseteq Moon \cup {Nobody}
        /\ faults \in 0..MaxFaults
    BY SupervisorAssumption DEF Init
  <2>2. moon \in [Moon -> MoonState]
    BY DEF Init, MoonState
  <2>3. client \in [Client -> ClientState]
    BY <1>1 DEF Init
  <2>4. clean \in BOOLEAN /\ missed \in BOOLEAN
    BY Zenon DEF Init
  <2>5. QED
    BY <2>1, <2>2, <2>3, <2>4 DEF SupTypeOK
<1>3. OnePassword /\ Vouchers
  BY <1>1 DEF Init, OnePassword, Vouchers, Vouched
<1>4. QED
  BY <1>2, <1>3 DEF IInv

LEMMA StepKeeps == IInv /\ [Next]_vars => IInv'
<1> SUFFICES ASSUME IInv, [Next]_vars PROVE IInv'
  OBVIOUS
<1>1. ASSUME NEW c \in Client, Step(c) PROVE IInv'
  BY <1>1, LoadingKeeps, StoppingKeeps, SpawnKeeps, JudgeKeeps, PidfileKeeps DEF Step
<1>2. ASSUME NEW c \in Client, Call(c) PROVE IInv'
  BY <1>1, <1>2, ProbesKeep DEF Call
<1>3. ASSUME NEW c \in Client,
             \/ \E goal \in {"ensure", "stop"} : Begin(c, goal)
             \/ TimeOut(c) \/ AuthLate(c) \/ Killed(c)
      PROVE  IInv'
  BY <1>3, BeginKeeps, TimeOutKeeps, AuthLateKeeps, KilledKeeps
<1>4. CASE UNCHANGED vars
  BY <1>4 DEF vars, files, IInv, SupTypeOK, OnePassword, Vouchers, Vouched
<1>5. QED
  BY <1>2, <1>3, <1>4, MoonsKeep DEF Next

LEMMA Inductive == Spec => []IInv
  BY InitEstablishes, StepKeeps, PTL DEF Spec

-----------------------------------------------------------------------------
\* The files, the Moons and the calls are of the shapes that the variables'
\* comments give (supervisor.rs).
THEOREM TypeCorrect == Spec => []SupTypeOK
<1>1. IInv => SupTypeOK
  BY DEF IInv
<1>2. QED
  BY Inductive, <1>1, PTL

\* However many processes create the ACL file at once, all of them and all the
\* Moons they start have the password of the one that got in first (secure.rs).
THEOREM HomeHasOnePassword == Spec => []OnePassword
<1>1. IInv => OnePassword
  BY DEF IInv
<1>2. QED
  BY Inductive, <1>1, PTL

\* A call that succeeds met a Moon that was started with the home's password,
\* whoever answered the other probes (ensure_moon, ensure_running).
THEOREM CallsSettleForOurs == Spec => []ReadyIsOurs
<1>1. IInv => ReadyIsOurs
  BY DEF IInv, Vouchers, Vouched, ReadyIsOurs
<1>2. QED
  BY Inductive, <1>1, PTL

-----------------------------------------------------------------------------
\* No two calls overlapped, and no probe missed: what a call then relies on.
\* c has a Moon of its own, that others do not know of yet.
Raising(c) == client[c].stage \in {"poll", "judge", "tmp", "rename"}

\* Moon of c's is the only one; once it was seen, it has the port or is dead.
Raised(c) ==
  LET kid == client[c].kid IN
  /\ port \in {Nobody, kid} /\ \A m \in Moon : Alive(m) => m = kid
  /\ client[c].seen = kid /\ Alive(kid) => port = kid
  /\ client[c].stage = "judge" => client[c].seen \in {Nobody, kid}
  /\ client[c].stage \in {"tmp", "rename"} => client[c].seen = kid
  /\ client[c].stage = "rename" => tmpfile = kid

\* A stop or a replacement aims at the Moon that has the port, and goes on when
\* the port is free.
Aimed(c) ==
  /\ client[c].stage = "sprobe" => port \in {Nobody, client[c].victim} \/ client[c].victim = Nobody
  /\ client[c].stage \in {"term", "quiet"} => port \in {Nobody, client[c].victim}
  /\ client[c].stage \in {"reap", "confirm", "unfile", "spawn"} => port = Nobody

\* The only Moon is the one with the port; the pidfile names it, if there is
\* one, unless it is a stranger's.
Settled ==
  /\ \A m \in Moon : Alive(m) => m = port
  /\ \/ port \in {Nobody, pidfile}
     \/ pidfile = Nobody /\ moon[port].password = Nobody

Stopped(c) == client[c].result = "stopped" => ~Alive(client[c].seen)

CalmInv ==
  /\ \A c, d \in Client : Active(c) /\ Active(d) => c = d
  /\ \A c \in Client : (Raising(c) => Raised(c)) /\ Aimed(c) /\ Stopped(c)
  /\ (\A c \in Client : ~Raising(c)) => Settled

Serves == port # Nobody => moon[port].stage \in {"up", "leaving"}
SInv == Serves /\ (clean /\ ~missed => CalmInv)

LEMMA OthersIdle ==
  ASSUME CalmInv, NEW c \in Client, Active(c), NEW d \in Client \ {c}
  PROVE  ~Active(d)
  BY DEF CalmInv

\* What a step of c's must see to: the others are idle, and no Moon they saw
\* comes to life.
Alone(c) ==
  /\ \A d \in Client \ {c} : ~Active(d) /\ client'[d] = client[d]
  /\ \A m \in Moon : Alive(m)' => Alive(m) \/ \A d \in Client \ {c} : client[d].seen # m

LEMMA CalmStep ==
  ASSUME IInv, CalmInv, NEW c \in Client, Alone(c),
         (Raising(c) => Raised(c))', Aimed(c)', Stopped(c)',
         ~Raising(c)' => Settled'
  PROVE  CalmInv'
<1>1. \A d \in Client \ {c} : ~Active(d)' /\ ~Raising(d)' /\ client'[d] = client[d]
  BY DEF Alone, Active, Raising
<1>2. ASSUME NEW d \in Client \ {c} PROVE Aimed(d)' /\ Stopped(d)'
  <2>1. Aimed(d)'
    BY <1>1 DEF Aimed, Active
  <2>2. client[d].seen \in Moon \cup {Nobody} /\ Stopped(d)
    BY DEF IInv, SupTypeOK, ClientState, CalmInv
  <2>3. Alive(client[d].seen)' => Alive(client[d].seen)
    BY <1>1, <2>2 DEF Alone, Alive
  <2>4. QED
    BY <1>1, <2>1, <2>2, <2>3 DEF Stopped
<1>3. QED
  BY <1>1, <1>2 DEF CalmInv

\* A step that leaves the Moons and the pidfile alone.
LEMMA CalmMove ==
  ASSUME IInv, CalmInv, NEW c \in Client, UNCHANGED <<moon, port, pidfile>>,
         \A d \in Client \ {c} : ~Active(d) /\ client'[d] = client[d],
         ~Raising(c), ~Raising(c)', Aimed(c)', Stopped(c)'
  PROVE  CalmInv'
<1>1. \A m \in Moon : Alive(m)' <=> Alive(m)
  BY DEF Alive
<1>2. Settled
  BY DEF CalmInv, Raising, Active
<1>3. Settled' /\ Alone(c)
  BY <1>1, <1>2 DEF Settled, Alone
<1>4. QED
  BY <1>3, CalmStep

\* c's record afterwards.
LEMMA Moved ==
  ASSUME IInv, NEW c \in Client, NEW r, client' = [client EXCEPT ![c] = r]
  PROVE  client'[c] = r /\ \A d \in Client \ {c} : client'[d] = client[d]
  BY DEF IInv, SupTypeOK

LEMMA GoneTo ==
  ASSUME IInv, NEW c \in Client, NEW m, NEW stage, Goes(c, m, stage)
  PROVE  /\ client'[c].stage = stage /\ client'[c].seen = m
         /\ client'[c].victim = client[c].victim /\ client'[c].kid = client[c].kid
         /\ client'[c].result = client[c].result
         /\ \A d \in Client \ {c} : client'[d] = client[d]
<1>1. client[c] \in ClientState
  BY DEF IInv, SupTypeOK
<1>2. /\ client'[c] = [client[c] EXCEPT !.stage = stage, !.seen = m]
      /\ \A d \in Client \ {c} : client'[d] = client[d]
  BY DEF Goes, IInv, SupTypeOK
<1>3. QED
  BY <1>1, <1>2 DEF ClientState

LEMMA Returned ==
  ASSUME IInv, NEW c \in Client, NEW m, NEW result, Returns(c, m, result)
  PROVE  /\ client'[c].stage = "idle" /\ client'[c].result = result
         /\ result # "failed" => client'[c].seen = m
         /\ \A d \in Client \ {c} : client'[d] = client[d]
<1>1. client[c] \in ClientState
  BY DEF IInv, SupTypeOK
<1>2. /\ client'[c] = [client[c] EXCEPT !.stage = "idle", !.goal = "ensure",
           !.result = result, !.seen = IF result = "failed" THEN Nobody ELSE m,
           !.victim = Nobody, !.kid = Nobody]
      /\ \A d \in Client \ {c} : client'[d] = client[d]
  BY DEF Returns, IInv, SupTypeOK
<1>3. QED
  BY <1>1, <1>2 DEF ClientState

LEMMA CalmGoes ==
  ASSUME IInv, CalmInv, NEW c \in Client, NEW m, NEW stage, Active(c), ~Raising(c),
         Goes(c, m, stage), UNCHANGED <<moon, port, pidfile>>,
         stage \notin {"poll", "judge", "tmp", "rename", "sprobe"},
         \/ stage \in {"link", "recheck", "probe", "pid"}
         \/ port = Nobody
         \/ stage = "term" /\ port = client[c].victim
  PROVE  CalmInv'
<1>1. client[c].result = "none"
  BY DEF Active, IInv, Vouchers
<1>2. /\ client'[c].stage = stage /\ client'[c].victim = client[c].victim
      /\ client'[c].result = client[c].result
      /\ \A d \in Client \ {c} : client'[d] = client[d]
  BY GoneTo
<1>3. \A d \in Client \ {c} : ~Active(d)
  BY OthersIdle
<1>4. ~Raising(c)' /\ Aimed(c)' /\ Stopped(c)'
  BY <1>1, <1>2 DEF Raising, Aimed, Stopped
<1>5. QED
  BY <1>2, <1>3, <1>4, CalmMove

LEMMA CalmReturns ==
  ASSUME IInv, CalmInv, NEW c \in Client, NEW m, NEW result, Active(c), ~Raising(c),
         Returns(c, m, result), UNCHANGED <<moon, port, pidfile>>, result # "stopped"
  PROVE  CalmInv'
<1>1. /\ client'[c].stage = "idle" /\ client'[c].result = result
      /\ \A d \in Client \ {c} : ~Active(d) /\ client'[d] = client[d]
  BY Returned, OthersIdle
<1>2. ~Raising(c)' /\ Aimed(c)' /\ Stopped(c)'
  BY <1>1 DEF Raising, Aimed, Stopped
<1>3. QED
  BY <1>1, <1>2, CalmMove

LEMMA BeginCalm ==
  ASSUME IInv, CalmInv, NEW c \in Client, NEW goal \in {"ensure", "stop"}, Begin(c, goal),
         clean'
  PROVE  CalmInv'
<1> DEFINE stage == CASE client[c].password = Nobody -> "acl"
                      [] goal = "ensure" /\ client[c].password # Nobody -> "check"
                      [] OTHER -> "aim"
           r == [client[c] EXCEPT !.stage = stage, !.goal = goal, !.result = "none",
                                  !.seen = Nobody]
<1>1. client[c] \in ClientState /\ stage \in {"acl", "check", "aim"}
  BY DEF IInv, SupTypeOK
<1>2. client' = [client EXCEPT ![c] = r]
  BY DEF Begin
<1> HIDE DEF stage
<1>3. r.stage = stage /\ r.result = "none"
  BY <1>1 DEF ClientState
<1> HIDE DEF r
<1>4. \A d \in Client : ~Active(d)
  BY DEF Begin
<1>5. client'[c] = r /\ \A d \in Client \ {c} : client'[d] = client[d]
  BY <1>2, Moved
<1>6. ~Raising(c) /\ ~Raising(c)' /\ Aimed(c)' /\ Stopped(c)'
  BY <1>1, <1>3, <1>4, <1>5 DEF Raising, Aimed, Stopped, Active
<1>7. UNCHANGED <<moon, port, pidfile>>
  BY DEF Begin, files
<1>8. QED
  BY <1>4, <1>5, <1>6, <1>7, CalmMove

LEMMA LoadingCalm ==
  ASSUME IInv, CalmInv, NEW c \in Client, ReadAcl(c) \/ LinkAcl(c)
  PROVE  CalmInv'
<1>1. Active(c) /\ ~Raising(c) /\ UNCHANGED <<moon, port, pidfile>>
  BY DEF ReadAcl, LinkAcl, Active, Raising, files
<1>2. CASE Goes(c, Nobody, "link")
  BY <1>1, <1>2, CalmGoes
<1>3. ASSUME NEW w, Knows(c, w) PROVE CalmInv'
  <2> DEFINE stage == IF client[c].goal = "ensure" THEN "check" ELSE "aim"
             r == [client[c] EXCEPT !.password = w, !.stage = stage]
  <2>1. client[c] \in ClientState /\ client[c].result = "none"
    BY <1>1 DEF IInv, SupTypeOK, Vouchers, Active
  <2>2. client' = [client EXCEPT ![c] = r]
    BY <1>3 DEF Knows, IInv, SupTypeOK
  <2>3. r.stage \in {"check", "aim"} /\ r.result = "none"
    BY <2>1 DEF ClientState
  <2> HIDE DEF r
  <2>4. client'[c] = r /\ \A d \in Client \ {c} : ~Active(d) /\ client'[d] = client[d]
    BY <1>1, <2>2, Moved, OthersIdle
  <2>5. ~Raising(c)' /\ Aimed(c)' /\ Stopped(c)'
    BY <2>3, <2>4 DEF Raising, Aimed, Stopped
  <2>6. QED
    BY <1>1, <2>4, <2>5, CalmMove
<1>4. QED
  BY <1>2, <1>3 DEF ReadAcl, LinkAcl

\* The probes that only look.
LEMMA LookingCalm ==
  ASSUME IInv, Serves, CalmInv, NEW c \in Client, NEW m \in Moon \cup {Nobody}, m = port,
         \/ Check(c, m) \/ Recheck(c, m) \/ Probe(c, m) \/ Confirm(c, m) \/ StopProbe(c, m)
  PROVE  CalmInv'
<1>1. Active(c) /\ ~Raising(c) /\ UNCHANGED <<moon, port, pidfile>>
  BY DEF Check, Recheck, Probe, Confirm, StopProbe, Active, Raising, files
<1>2. ASSUME NEW result \in {"ready", "failed"}, Returns(c, m, result) PROVE CalmInv'
  BY <1>1, <1>2, CalmReturns
<1>3. CASE Check(c, m) \/ Recheck(c, m) \/ Probe(c, m)
  <2>1. CASE Finds(c, m) = "down"
    <3>1. port = Nobody
      BY <2>1 DEF Finds, Classify
    <3>2. (\E stage \in {"probe", "spawn"} : Goes(c, m, stage)) \/ Returns(c, m, "failed")
      BY <1>3, <2>1 DEF Check, Recheck, Probe
    <3>3. QED
      BY <1>1, <1>2, <3>1, <3>2, CalmGoes
  <2>2. CASE Finds(c, m) # "down"
    <3>1. \/ \E stage \in {"recheck", "probe", "pid"} : Goes(c, m, stage)
          \/ \E result \in {"ready", "failed"} : Returns(c, m, result)
      <4>1. Finds(c, m) \in {"ready", "unprotected", "wrong password"}
        BY <2>2 DEF Finds, Classify
      <4> HIDE DEF Finds
      <4>2. QED
        BY <1>3, <2>2, <4>1 DEF Check, Recheck, Probe
    <3>2. QED
      BY <1>1, <1>2, <3>1, CalmGoes
  <2>3. QED
    BY <2>1, <2>2
<1>4. CASE Confirm(c, m)
  <2>1. port = Nobody
    BY <1>4 DEF Confirm, CalmInv, Aimed
  <2>2. QED
    BY <1>1, <1>4, <2>1, CalmGoes DEF Confirm
<1>5. CASE StopProbe(c, m)
  <2>1. CASE m = Nobody
    BY <1>1, <1>5, <2>1, CalmGoes DEF StopProbe
  <2>2. CASE m # Nobody /\ client[c].victim = Nobody
    BY <1>2, <1>5, <2>2 DEF StopProbe
  <2>3. CASE m # Nobody /\ client[c].victim # Nobody
    <3>1. port = client[c].victim /\ Goes(c, m, "term")
      BY <1>5, <2>3 DEF StopProbe, CalmInv, Aimed
    <3>2. QED
      BY <1>1, <3>1, CalmGoes
  <2>4. QED
    BY <2>1, <2>2, <2>3
<1>6. QED
  BY <1>3, <1>4, <1>5

LEMMA AimingCalm ==
  ASSUME IInv, CalmInv, NEW c \in Client, ReadLegacyPid(c) \/ Aim(c) \/ Reap(c), clean'
  PROVE  CalmInv'
<1>1. /\ Active(c) /\ ~Raising(c) /\ UNCHANGED <<moon, port, pidfile>>
      /\ client[c] \in ClientState /\ client[c].result = "none"
  BY DEF ReadLegacyPid, Aim, Reap, Active, Raising, files, IInv, SupTypeOK, Vouchers
<1>2. Settled
  BY <1>1, OthersIdle DEF CalmInv, Raising, Active
<1>3. \A d \in Client \ {c} : ~Active(d)
  BY <1>1, OthersIdle
<1>4. ASSUME NEW r, client' = [client EXCEPT ![c] = r], r.result = "none",
             \/ r.stage = "sprobe" /\ (port \in {Nobody, r.victim} \/ r.victim = Nobody)
             \/ r.stage = "term" /\ port \in {Nobody, r.victim}
             \/ r.stage = "unfile" /\ port = Nobody
      PROVE  CalmInv'
  <2>1. client'[c] = r /\ \A d \in Client \ {c} : client'[d] = client[d]
    BY <1>4, Moved
  <2>2. ~Raising(c)' /\ Aimed(c)' /\ Stopped(c)'
    BY <1>1, <1>4, <2>1 DEF Raising, Aimed, Stopped
  <2>3. QED
    BY <1>1, <1>3, <2>1, <2>2, CalmMove
<1>5. CASE ReadLegacyPid(c)
  <2>1. CASE LegacyPid = Nobody
    BY <1>1, <1>5, <2>1, CalmReturns DEF ReadLegacyPid
  <2>2. CASE LegacyPid # Nobody
    <3> DEFINE r == [client[c] EXCEPT !.stage = "term", !.victim = LegacyPid]
    <3>1. LegacyPid = port
      BY <1>2, <2>2 DEF LegacyPid, Settled, Alive, IInv, SupTypeOK
    <3>2. r.stage = "term" /\ r.result = "none" /\ r.victim = LegacyPid
      BY <1>1 DEF ClientState
    <3>3. client' = [client EXCEPT ![c] = r]
      BY <1>5, <2>2 DEF ReadLegacyPid
    <3> HIDE DEF r
    <3>4. QED
      BY <1>4, <3>1, <3>2, <3>3
  <2>3. QED
    BY <2>1, <2>2
<1>6. CASE Aim(c)
  <2> DEFINE victim == IF client[c].child # Nobody THEN client[c].child ELSE pidfile
             r == [client[c] EXCEPT !.stage = "sprobe", !.victim = victim]
  <2>1. port \in {Nobody, victim} \/ victim = Nobody
    <3>1. CASE client[c].child # Nobody
      <4>1. Alive(client[c].child) /\ client[c].child \in Moon
        BY <1>1, <1>6, <3>1 DEF Aim, ClientState
      <4>2. QED
        BY <1>2, <3>1, <4>1 DEF Settled
    <3>2. CASE client[c].child = Nobody
      BY <1>2, <3>2 DEF Settled
    <3>3. QED
      BY <3>1, <3>2
  <2>2. client' = [client EXCEPT ![c] = r]
    BY <1>6 DEF Aim
  <2> HIDE DEF victim
  <2>3. r.stage = "sprobe" /\ r.result = "none" /\ r.victim = victim
    BY <1>1 DEF ClientState
  <2> HIDE DEF r
  <2>4. QED
    BY <1>4, <2>1, <2>2, <2>3
<1>7. CASE Reap(c)
  <2> DEFINE r == [client[c] EXCEPT !.stage = "unfile", !.child = Nobody]
  <2>1. port = Nobody
    BY <1>7 DEF Reap, CalmInv, Aimed
  <2>2. r.stage = "unfile" /\ r.result = "none"
    BY <1>1 DEF ClientState
  <2>3. client' = [client EXCEPT ![c] = r]
    BY <1>7 DEF Reap
  <2> HIDE DEF r
  <2>4. QED
    BY <1>4, <2>1, <2>2, <2>3
<1>8. QED
  BY <1>5, <1>6, <1>7

\* SIGTERM, then SIGKILL: the port is free afterwards.
LEMMA TerminateCalm ==
  ASSUME IInv, CalmInv, NEW c \in Client, Terminate(c)
  PROVE  CalmInv'
<1>1. /\ Active(c) /\ ~Raising(c) /\ UNCHANGED <<port, pidfile>>
      /\ Goes(c, client[c].seen, "quiet") /\ client[c].result = "none"
      /\ port \in {Nobody, client[c].victim}
  <2>1. /\ Active(c) /\ ~Raising(c) /\ UNCHANGED <<port, pidfile>>
        /\ client[c].stage = "term" /\ Goes(c, client[c].seen, "quiet")
    BY DEF Terminate, Active, Raising, files
  <2>2. QED
    BY <2>1 DEF Active, IInv, Vouchers, CalmInv, Aimed
<1>2. /\ client'[c].stage = "quiet" /\ client'[c].victim = client[c].victim
      /\ client'[c].result = client[c].result
      /\ \A d \in Client \ {c} : client'[d] = client[d]
  BY <1>1, GoneTo
<1>3. \A m \in Moon : (Alive(m)' <=> Alive(m)) /\ moon'[m].password = moon[m].password
  <2>1. CASE moon' = moon
    BY <2>1 DEF Alive
  <2>2. ASSUME NEW v \in Moon, Alive(v), moon' = [moon EXCEPT ![v].stage = "leaving"]
        PROVE  \A m \in Moon : (Alive(m)' <=> Alive(m)) /\ moon'[m].password = moon[m].password
    BY <2>2 DEF Alive, IInv, SupTypeOK, MoonState
  <2>3. client[c].victim \in Moon \cup {Nobody}
    BY DEF IInv, SupTypeOK, ClientState
  <2>4. QED
    BY <2>1, <2>2, <2>3 DEF Terminate, Alive
<1>4. Settled
  BY <1>1, OthersIdle DEF CalmInv, Raising, Active
<1>5. Settled' /\ Alone(c)
  <2>1. port \in Moon \cup {Nobody}
    BY DEF IInv, SupTypeOK
  <2>2. QED
    BY <1>1, <1>2, <1>3, <1>4, <2>1, OthersIdle DEF Settled, Alone
<1>6. ~Raising(c)' /\ Aimed(c)' /\ Stopped(c)'
  BY <1>1, <1>2 DEF Raising, Aimed, Stopped
<1>7. QED
  BY <1>5, <1>6, CalmStep

LEMMA QuietCalm ==
  ASSUME IInv, Serves, CalmInv, NEW c \in Client, Quiet(c, port)
  PROVE  CalmInv'
<1>1. /\ Active(c) /\ ~Raising(c) /\ pidfile' = pidfile
      /\ Goes(c, client[c].seen, AfterTerminate(c)) /\ client[c].result = "none"
      /\ port \in {Nobody, client[c].victim} /\ port \in Moon \cup {Nobody}
  <2>1. /\ Active(c) /\ ~Raising(c) /\ pidfile' = pidfile /\ client[c].stage = "quiet"
        /\ Goes(c, client[c].seen, AfterTerminate(c))
    BY DEF Quiet, Active, Raising, files
  <2>2. QED
    BY <2>1 DEF Active, IInv, SupTypeOK, Vouchers, CalmInv, Aimed
<1>2. Settled
  BY <1>1, OthersIdle DEF CalmInv, Raising, Active
<1>3. port' = Nobody /\ \A m \in Moon : ~Alive(m)'
  <2>1. CASE port = Nobody
    <3>1. UNCHANGED <<port, moon>>
      BY <2>1 DEF Quiet
    <3>2. QED
      BY <1>2, <2>1, <3>1 DEF Settled, Alive
  <2>2. CASE port # Nobody
    <3>1. port = client[c].victim /\ Alive(port)
      BY <1>1, <2>2 DEF Serves, Alive
    <3>2. Dies(port)
      BY <2>2, <3>1 DEF Quiet
    <3>3. QED
      BY <1>1, <1>2, <2>2, <3>2 DEF Dies, Settled, Alive, IInv, SupTypeOK
  <2>3. QED
    BY <2>1, <2>2
<1>4. /\ client'[c].stage = AfterTerminate(c) /\ client'[c].result = client[c].result
      /\ \A d \in Client \ {c} : client'[d] = client[d]
  <2>1. PICK m, stage : m = client[c].seen /\ stage = AfterTerminate(c)
    OBVIOUS
  <2>2. Goes(c, m, stage)
    BY <1>1, <2>1
  <2>3. QED
    BY <2>1, <2>2, GoneTo
<1>5. Settled' /\ Alone(c)
  BY <1>1, <1>3, <1>4, OthersIdle DEF Settled, Alone
<1>6. ~Raising(c)' /\ Aimed(c)' /\ Stopped(c)'
  BY <1>1, <1>3, <1>4 DEF AfterTerminate, Raising, Aimed, Stopped
<1>7. QED
  BY <1>5, <1>6, CalmStep

\* A Moon is raised ...
LEMMA SpawnCalm ==
  ASSUME IInv, CalmInv, NEW c \in Client, NEW m \in Moon, Spawn(c, m)
  PROVE  CalmInv'
<1>1. Active(c) /\ ~Raising(c) /\ UNCHANGED <<port, pidfile>> /\ client[c].stage = "spawn"
  BY DEF Spawn, Active, Raising, files
<1>2. port = Nobody /\ Settled
  BY <1>1, OthersIdle DEF CalmInv, Raising, Active, Aimed
<1>3. \A n \in Moon : ~Alive(n)
  BY <1>2 DEF Settled, Alive
<1>4. CASE Returns(c, Nobody, "failed") /\ UNCHANGED moon
  BY <1>1, <1>4, CalmReturns
<1>5. ASSUME Unused(m),
             moon' = [moon EXCEPT
                       ![m] = [stage |-> "starting", password |-> client[c].password]],
             client' = [client EXCEPT ![c].stage = "poll", ![c].kid = m]
      PROVE  CalmInv'
  <2> DEFINE r == [client[c] EXCEPT !.stage = "poll", !.kid = m]
  <2>1. client[c] \in ClientState /\ client[c].result = "none"
    BY <1>1 DEF IInv, SupTypeOK, Vouchers
  <2>2. r.stage = "poll" /\ r.result = "none" /\ r.kid = m /\ r.seen = client[c].seen
    BY <2>1 DEF ClientState
  <2>3. client' = [client EXCEPT ![c] = r]
    BY <1>5
  <2> HIDE DEF r
  <2>4. client'[c] = r /\ \A d \in Client \ {c} : client'[d] = client[d]
    BY <2>3, Moved
  <2>5. \A n \in Moon : Alive(n)' => n = m
    BY <1>3, <1>5 DEF Alive, IInv, SupTypeOK
  <2>6. \A d \in Client : client[d].seen # m
    BY <1>5 DEF Unused
  <2>7. Alone(c)
    BY <1>1, <2>4, <2>5, <2>6, OthersIdle DEF Alone
  <2>8. Raising(c)' /\ Raised(c)' /\ Aimed(c)' /\ Stopped(c)'
    BY <1>1, <1>2, <2>2, <2>4, <2>5, <2>6 DEF Raising, Raised, Aimed, Stopped
  <2>9. QED
    BY <2>7, <2>8, CalmStep
<1>6. QED
  BY <1>4, <1>5 DEF Spawn

\* ... and looked after: what holds of it until the call ends.
LEMMA RaisedGoes ==
  ASSUME IInv, CalmInv, NEW c \in Client, NEW m, Raising(c),
         NEW stage \in {"poll", "judge", "tmp", "rename"}, Goes(c, m, stage),
         UNCHANGED <<moon, port>>,
         m = client[c].kid /\ Alive(m) => port = m,
         stage = "judge" => m \in {Nobody, client[c].kid},
         stage \in {"tmp", "rename"} => m = client[c].kid,
         stage = "rename" => tmpfile' = client[c].kid
  PROVE  CalmInv'
<1>1. Active(c) /\ Raised(c) /\ client[c].result = "none"
  BY DEF Raising, Active, CalmInv, IInv, Vouchers
<1>2. /\ client'[c].stage = stage /\ client'[c].seen = m /\ client'[c].kid = client[c].kid
      /\ client'[c].result = "none"
      /\ \A d \in Client \ {c} : client'[d] = client[d]
  BY <1>1, GoneTo
<1>3. \A n : Alive(n)' <=> Alive(n)
  BY DEF Alive
<1>4. Raised(c)'
  <2>1. port \in {Nobody, client[c].kid} /\ \A n \in Moon : Alive(n) => n = client[c].kid
    BY <1>1 DEF Raised
  <2>2. client'[c].seen = client'[c].kid /\ Alive(client[c].kid)' => port' = client'[c].kid
    BY <1>2, <1>3
  <2>3. QED
    BY <1>2, <1>3, <2>1, <2>2 DEF Raised, Alive
<1>5. Raising(c)' /\ Aimed(c)' /\ Stopped(c)'
  BY <1>2 DEF Raising, Aimed, Stopped
<1>6. Alone(c)
  BY <1>1, <1>2, <1>3, OthersIdle DEF Alone
<1>7. QED
  BY <1>4, <1>5, <1>6, CalmStep

\* A call that gives up leaves no Moon.
LEMMA RaisedFails ==
  ASSUME IInv, CalmInv, NEW c \in Client, NEW m, NEW result, Active(c),
         Returns(c, m, result), result # "stopped", port' = Nobody,
         \A n \in Moon : ~Alive(n)'
  PROVE  CalmInv'
<1>1. /\ client'[c].stage = "idle" /\ client'[c].result = result
      /\ \A d \in Client \ {c} : ~Active(d) /\ client'[d] = client[d]
  BY Returned, OthersIdle
<1>2. ~Raising(c)' /\ Aimed(c)' /\ Stopped(c)'
  BY <1>1 DEF Raising, Aimed, Stopped
<1>3. Settled' /\ Alone(c)
  BY <1>1 DEF Settled, Alone
<1>4. QED
  BY <1>1, <1>2, <1>3, CalmStep

LEMMA WatchingCalm ==
  ASSUME IInv, Serves, CalmInv, NEW c \in Client, Poll(c, port) \/ Judge(c) \/ TimeOut(c)
  PROVE  CalmInv'
<1> DEFINE kid == client[c].kid
<1>1. /\ Active(c) /\ Raising(c) /\ Raised(c)
      /\ kid \in Moon \cup {Nobody} /\ port \in Moon \cup {Nobody}
  BY DEF Poll, Judge, TimeOut, Active, Raising, CalmInv, IInv, SupTypeOK, ClientState
<1>2. CASE Poll(c, port)
  BY <1>1, <1>2, RaisedGoes DEF Poll, Raised
<1>3. CASE Judge(c)
  <2> DEFINE m == client[c].seen
             found == Classify(m, client[c].password)
  <2>1. /\ m \in {Nobody, kid} /\ (m = kid /\ Alive(kid) => port = kid)
        /\ UNCHANGED <<moon, port>>
    BY <1>1, <1>3 DEF Judge, Raised
  <2>2. CASE ~Alive(kid)
    <3>1. port = Nobody
      BY <1>1, <2>2 DEF Raised, Serves, Alive
    <3>2. \A n \in Moon : ~Alive(n)'
      BY <1>1, <2>1, <2>2 DEF Raised, Alive
    <3>3. \E result \in {"ready", "failed"} : Returns(c, m, result)
      BY <1>3, <2>2 DEF Judge
    <3>4. QED
      BY <1>1, <2>1, <3>1, <3>2, <3>3, RaisedFails
  <2>3. CASE Alive(kid)
    <3>1. \/ found = "ready" /\ Goes(c, m, "tmp")
          \/ Goes(c, m, "poll")
      BY <1>3, <2>3 DEF Judge
    <3>2. found = "ready" => m # Nobody
      BY DEF Classify
    <3> HIDE DEF found, m
    <3>3. QED
      BY <1>1, <2>1, <2>3, <3>1, <3>2, RaisedGoes
  <2>4. QED
    BY <2>2, <2>3
<1>4. CASE TimeOut(c)
  <2>1. Dies(kid) /\ kid # Nobody
    BY <1>4 DEF TimeOut, Alive
  <2>2. port' = Nobody /\ \A n \in Moon : ~Alive(n)'
    BY <1>1, <2>1 DEF Dies, Raised, Alive, IInv, SupTypeOK, MoonState
  <2>3. QED
    BY <1>1, <1>4, <2>2, RaisedFails DEF TimeOut
<1>5. QED
  BY <1>2, <1>3, <1>4

LEMMA PidfileCalm ==
  ASSUME IInv, CalmInv, NEW c \in Client, WriteTmp(c) \/ RenameTmp(c) \/ RemovePidfile(c)
  PROVE  CalmInv'
<1> DEFINE kid == client[c].kid
<1>1. /\ Active(c) /\ UNCHANGED <<moon, port>>
      /\ client[c] \in ClientState /\ client[c].result = "none"
      /\ \A n : Alive(n)' <=> Alive(n)
  BY DEF WriteTmp, RenameTmp, RemovePidfile, Active, IInv, SupTypeOK, Vouchers, Alive
<1>2. CASE WriteTmp(c)
  <2>1. Raising(c) /\ Raised(c) /\ client[c].seen = kid
    BY <1>2 DEF WriteTmp, Raising, Raised, CalmInv
  <2>2. kid = kid /\ Alive(kid) => port = kid
    BY <2>1 DEF Raised
  <2>3. Goes(c, kid, "rename") /\ tmpfile' = kid
    BY <1>2, <2>1 DEF WriteTmp
  <2>4. QED
    BY <1>1, <2>1, <2>2, <2>3, RaisedGoes
<1>3. CASE RenameTmp(c)
  <2>1. Raising(c) /\ Raised(c) /\ client[c].seen = kid /\ tmpfile = kid
    BY <1>3 DEF RenameTmp, Raising, Raised, CalmInv
  <2>2. port \in {Nobody, kid} /\ \A n \in Moon : Alive(n) => n = kid /\ n = port
    BY <2>1 DEF Raised
  <2>3. CASE tmpfile = Nobody
    <3>1. port' = Nobody /\ \A n \in Moon : ~Alive(n)'
      BY <1>1, <2>1, <2>2, <2>3 DEF Alive
    <3>2. Returns(c, kid, "failed")
      BY <1>3, <2>1, <2>3 DEF RenameTmp
    <3>3. QED
      BY <1>1, <3>1, <3>2, RaisedFails
  <2>4. CASE tmpfile # Nobody
    <3> DEFINE r == [client[c] EXCEPT !.stage = "idle", !.result = "spawned",
                                      !.child = client[c].kid, !.kid = Nobody]
    <3>1. r.stage = "idle" /\ r.result = "spawned"
      BY <1>1 DEF ClientState
    <3>2. client' = [client EXCEPT ![c] = r] /\ pidfile' = kid
      BY <1>3, <2>1, <2>4 DEF RenameTmp
    <3> HIDE DEF r
    <3>3. client'[c] = r /\ \A d \in Client \ {c} : client'[d] = client[d]
      BY <3>2, Moved
    <3>4. Settled' /\ Alone(c)
      BY <1>1, <2>2, <3>2, <3>3, OthersIdle DEF Settled, Alone
    <3>5. ~Raising(c)' /\ Aimed(c)' /\ Stopped(c)'
      BY <3>1, <3>3 DEF Raising, Aimed, Stopped
    <3>6. QED
      BY <3>4, <3>5, CalmStep
  <2>5. QED
    BY <2>3, <2>4
<1>4. CASE RemovePidfile(c)
  <2> DEFINE m == client[c].seen
  <2>1. port = Nobody /\ ~Raising(c)
    BY <1>4 DEF RemovePidfile, CalmInv, Aimed, Raising
  <2>2. Settled
    BY <1>1, <2>1, OthersIdle DEF CalmInv, Raising, Active
  <2>3. \A n \in Moon \cup {Nobody} : ~Alive(n)
    BY <2>1, <2>2 DEF Settled, Alive
  <2>4. m \in Moon \cup {Nobody}
    BY <1>1 DEF ClientState
  <2>5. Goes(c, m, "spawn") \/ Returns(c, m, "stopped")
    BY <1>4 DEF RemovePidfile
  <2>6. /\ \/ client'[c].stage = "spawn" /\ client'[c].result = "none"
           \/ client'[c].stage = "idle" /\ client'[c].seen = m
        /\ \A d \in Client \ {c} : client'[d] = client[d]
    <3> HIDE DEF m
    <3>1. CASE Goes(c, m, "spawn")
      BY <1>1, <3>1, GoneTo
    <3>2. CASE Returns(c, m, "stopped")
      BY <3>2, Returned
    <3>3. QED
      BY <2>5, <3>1, <3>2
  <2>7. Settled' /\ Alone(c)
    BY <1>1, <2>1, <2>3, <2>6, OthersIdle DEF Settled, Alone
  <2>8. ~Raising(c)' /\ Aimed(c)' /\ Stopped(c)'
    BY <1>1, <2>1, <2>3, <2>4, <2>6 DEF Raising, Aimed, Stopped
  <2>9. QED
    BY <2>7, <2>8, CalmStep
<1>5. QED
  BY <1>2, <1>3, <1>4

\* What the Moons do themselves.
LEMMA DeathCalm ==
  ASSUME IInv, CalmInv, NEW v \in Moon, Dies(v), UNCHANGED <<client, pidfile, tmpfile>>
  PROVE  CalmInv'
<1>1. /\ port' = IF port = v THEN Nobody ELSE port
      /\ \A n \in Moon : (Alive(n)' <=> Alive(n) /\ n # v)
                         /\ moon'[n].password = moon[n].password
  BY DEF Dies, Alive, IInv, SupTypeOK, MoonState
<1>2. port \in Moon \cup {Nobody}
        /\ \A c \in Client : client[c].seen \in Moon \cup {Nobody}
                             /\ client[c].kid \in Moon \cup {Nobody}
  BY DEF IInv, SupTypeOK, ClientState
<1>3. ASSUME NEW c \in Client PROVE (Raising(c) => Raised(c))' /\ Aimed(c)' /\ Stopped(c)'
  <2>1. (Raising(c) => Raised(c)) /\ Aimed(c) /\ Stopped(c)
    BY DEF CalmInv
  <2>2. (Raising(c) => Raised(c))'
    BY <1>1, <1>2, <2>1 DEF Raising, Raised, Alive
  <2>3. Aimed(c)'
    BY <1>1, <2>1 DEF Aimed
  <2>4. Stopped(c)'
    BY <1>1, <1>2, <2>1 DEF Stopped, Alive
  <2>5. QED
    BY <2>2, <2>3, <2>4
<1>4. (\A c \in Client : ~Raising(c))' => Settled'
  <2>1. (\A c \in Client : ~Raising(c))' => Settled
    BY DEF Raising, CalmInv
  <2>2. Settled => Settled'
    BY <1>1, <1>2 DEF Settled
  <2>3. QED
    BY <2>1, <2>2
<1>5. (\A c, d \in Client : Active(c) /\ Active(d) => c = d)'
  BY DEF CalmInv, Active
<1>6. QED
  BY <1>3, <1>4, <1>5 DEF CalmInv

LEMMA MoonsCalm ==
  ASSUME IInv, Serves, CalmInv, NEW v \in Moon, Bind(v) \/ Leave(v) \/ Crash(v)
  PROVE  CalmInv'
<1>1. UNCHANGED <<client, pidfile, tmpfile>>
  BY DEF Bind, Leave, Crash, files
<1>2. CASE Dies(v)
  BY <1>1, <1>2, DeathCalm
<1>3. CASE Bind(v) /\ port = Nobody
  <2>1. /\ port' = v /\ Alive(v)
        /\ \A n \in Moon : (Alive(n)' <=> Alive(n))
    BY <1>3, SupervisorAssumption DEF Bind, Alive, IInv, SupTypeOK, MoonState
  <2>2. PICK c \in Client : Raising(c)
    BY <1>3, <2>1, SupervisorAssumption DEF CalmInv, Settled, Alive
  <2>3. Raised(c) /\ v = client[c].kid /\ Active(c) /\ client[c].seen \in Moon \cup {Nobody}
    BY <2>1, <2>2 DEF CalmInv, Raised, Raising, Active, IInv, SupTypeOK, ClientState
  <2>4. (Raising(c) => Raised(c))'
    BY <1>1, <2>1, <2>3, SupervisorAssumption DEF Raising, Raised, Alive
  <2>5. Aimed(c)' /\ Stopped(c)'
    BY <1>1, <2>1, <2>2, <2>3, OthersIdle DEF Raising, Aimed, IInv, Vouchers, Stopped, Active
  <2>6. Raising(c)' /\ Alone(c)
    BY <1>1, <2>1, <2>2, <2>3, OthersIdle DEF Raising, Alone
  <2>7. QED
    BY <2>4, <2>5, <2>6, CalmStep
<1>4. QED
  BY <1>2, <1>3 DEF Bind, Leave, Crash

\* Who has the port is up, or leaving.
LEMMA ServesStays == IInv /\ Serves /\ [Next]_vars => Serves'
<1> SUFFICES ASSUME IInv, Serves, [Next]_vars PROVE Serves'
  OBVIOUS
<1>1. port \in Moon \cup {Nobody} /\ port' \in Moon \cup {Nobody}
  <2>1. IInv'
    BY StepKeeps
  <2>2. QED
    BY <2>1 DEF IInv, SupTypeOK
<1>2. CASE UNCHANGED <<moon, port>>
  BY <1>2 DEF Serves
<1>3. ASSUME NEW v \in Moon, Dies(v) PROVE Serves'
  BY <1>1, <1>3 DEF Dies, Serves, IInv, SupTypeOK
<1>4. ASSUME NEW c \in Client, Terminate(c) PROVE Serves'
  <2>1. client[c].victim \in Moon \cup {Nobody} /\ port' = port
    BY <1>4 DEF Terminate, IInv, SupTypeOK, ClientState
  <2>2. ASSUME NEW v \in Moon, moon' = [moon EXCEPT ![v].stage = "leaving"] PROVE Serves'
    BY <1>1, <2>1, <2>2 DEF Serves, IInv, SupTypeOK, MoonState
  <2>3. QED
    BY <1>2, <1>4, <2>1, <2>2 DEF Terminate, Alive
<1>5. ASSUME NEW c \in Client, NEW m \in Moon, Spawn(c, m) PROVE Serves'
  <2>1. port' = port
    BY <1>5 DEF Spawn
  <2>2. CASE Unused(m) /\ moon' = [moon EXCEPT
               ![m] = [stage |-> "starting", password |-> client[c].password]]
    <3>1. port # m
      <4>1. Unused(m)
        BY <2>2
      <4>2. ~Alive(m) /\ m # Nobody
        BY <4>1, SupervisorAssumption DEF Unused
      <4>3. QED
        BY <4>2 DEF Alive, Serves
    <3>2. PICK r : moon' = [moon EXCEPT ![m] = r]
      BY <2>2
    <3>3. \A n \in Moon \ {m} : moon'[n] = moon[n]
      BY <3>2 DEF IInv, SupTypeOK
    <3>4. QED
      BY <1>1, <2>1, <3>1, <3>3 DEF Serves
  <2>3. QED
    BY <1>2, <1>5, <2>1, <2>2 DEF Spawn
<1>6. ASSUME NEW m \in Moon, Bind(m) PROVE Serves'
  BY <1>1, <1>3, <1>6 DEF Bind, Serves, IInv, SupTypeOK, MoonState
<1>7. ASSUME NEW c \in Client, NEW m \in Moon \cup {Nobody}, Quiet(c, m) PROVE Serves'
  <2>1. client[c].victim \in Moon \cup {Nobody}
    BY DEF IInv, SupTypeOK, ClientState
  <2>2. QED
    BY <1>2, <1>3, <1>7, <2>1 DEF Quiet, Alive
<1>8. ASSUME NEW c \in Client, TimeOut(c) PROVE Serves'
  <2>1. client[c].kid \in Moon
    BY <1>8 DEF TimeOut, Alive, IInv, SupTypeOK, ClientState
  <2>2. QED
    BY <1>3, <1>8, <2>1 DEF TimeOut
<1>9. ASSUME NEW c \in Client, Call(c) PROVE Serves'
  <2>1. CASE \E m \in Moon : Spawn(c, m)
    BY <1>5, <2>1
  <2>2. CASE Terminate(c)
    BY <1>4, <2>2
  <2>3. ASSUME NEW m \in Moon \cup {Nobody}, ProbeStep(c, m) PROVE Serves'
    <3>1. UNCHANGED <<moon, port>> \/ Quiet(c, m)
      BY <2>3 DEF ProbeStep, Check, Recheck, Probe, Confirm, Poll, StopProbe
    <3>2. QED
      BY <1>2, <1>7, <3>1
  <2>4. CASE \/ ReadAcl(c) \/ LinkAcl(c) \/ ReadLegacyPid(c) \/ Judge(c) \/ WriteTmp(c)
             \/ RenameTmp(c) \/ Aim(c) \/ Reap(c) \/ RemovePidfile(c)
    <3>1. UNCHANGED <<moon, port>>
      BY <2>4 DEF ReadAcl, LinkAcl, ReadLegacyPid, Judge, WriteTmp, RenameTmp, Aim, Reap,
                  RemovePidfile
    <3>2. QED
      BY <1>2, <3>1
  <2>5. QED
    BY <1>9, <2>1, <2>2, <2>3, <2>4 DEF Call, Step
<1>10. ASSUME NEW c \in Client,
              (\E goal \in {"ensure", "stop"} : Begin(c, goal)) \/ AuthLate(c) \/ Killed(c)
       PROVE  Serves'
  <2>1. UNCHANGED <<moon, port>>
    BY <1>10 DEF Begin, AuthLate, Killed
  <2>2. QED
    BY <1>2, <2>1
<1>11. ASSUME NEW m \in Moon, Leave(m) \/ Crash(m) PROVE Serves'
  BY <1>3, <1>11 DEF Leave, Crash
<1>12. CASE UNCHANGED vars
  BY <1>2, <1>12 DEF vars
<1>13. QED
  BY <1>6, <1>8, <1>9, <1>10, <1>11, <1>12 DEF Next

\* While nothing overlaps and no probe misses, every step keeps to this.
LEMMA CalmStays ==
  IInv /\ Serves /\ CalmInv /\ [Next]_vars /\ clean' /\ ~missed' => CalmInv'
<1> SUFFICES ASSUME IInv, Serves, CalmInv, [Next]_vars, clean', ~missed' PROVE CalmInv'
  OBVIOUS
<1>1. ASSUME NEW c \in Client, NEW m \in Moon \cup {Nobody}, ProbeStep(c, m) PROVE CalmInv'
  <2>1. m = port
    BY <1>1 DEF ProbeStep, Check, Recheck, Probe, Quiet, Confirm, Poll, StopProbe, Meets
  <2>2. QED
    BY <1>1, <2>1, LookingCalm, QuietCalm, WatchingCalm DEF ProbeStep
<1>2. ASSUME NEW c \in Client, Step(c) PROVE CalmInv'
  BY <1>2, LoadingCalm, AimingCalm, TerminateCalm, SpawnCalm, WatchingCalm, PidfileCalm
  DEF Step
<1>3. ASSUME NEW c \in Client, NEW goal \in {"ensure", "stop"}, Begin(c, goal) PROVE CalmInv'
  BY <1>3, BeginCalm
<1>4. ASSUME NEW c \in Client, TimeOut(c) PROVE CalmInv'
  BY <1>4, WatchingCalm
<1>5. ASSUME NEW c \in Client, AuthLate(c) \/ Killed(c) PROVE CalmInv'
  <2>1. CASE AuthLate(c)
    <3>1. Active(c) /\ ~Raising(c) /\ UNCHANGED <<moon, port, pidfile>>
      BY <2>1 DEF AuthLate, Active, Raising, files
    <3>2. QED
      BY <2>1, <3>1, CalmReturns DEF AuthLate
  <2>2. CASE Killed(c)
    BY <2>2 DEF Killed
  <2>3. QED
    BY <1>5, <2>1, <2>2
<1>6. ASSUME NEW m \in Moon, Bind(m) \/ Leave(m) \/ Crash(m) PROVE CalmInv'
  BY <1>6, MoonsCalm
<1>7. CASE UNCHANGED vars
  BY <1>7 DEF vars, files, CalmInv, Active, Raising, Raised, Aimed, Settled, Stopped, Alive
<1>8. QED
  BY <1>1, <1>2, <1>3, <1>4, <1>5, <1>6, <1>7 DEF Next, Call

\* The two flags only ever say worse.
LEMMA CalmBefore == IInv /\ [Next]_vars /\ clean' /\ ~missed' => clean /\ ~missed
<1> SUFFICES ASSUME IInv, [Next]_vars, clean', ~missed' PROVE clean /\ ~missed
  OBVIOUS
<1>1. CASE UNCHANGED <<clean, missed>>
  BY Zenon, <1>1
<1>2. ASSUME NEW c \in Client, NEW m \in Moon \cup {Nobody}, ProbeStep(c, m)
      PROVE  clean /\ ~missed
  <2>1. UNCHANGED clean
    BY <1>2 DEF ProbeStep, Check, Recheck, Probe, Quiet, Confirm, Poll, StopProbe
  <2>2. UNCHANGED missed \/ missed' = TRUE
    BY <1>2 DEF ProbeStep, Check, Recheck, Probe, Quiet, Confirm, Poll, StopProbe, Meets
  <2>3. UNCHANGED missed
    BY Zenon, <2>2
  <2>4. QED
    BY <1>1, <2>1, <2>3
<1>3. ASSUME NEW c \in Client, Step(c) PROVE clean /\ ~missed
  <2>1. CASE Aim(c)
    <3>1. clean' => clean
      BY Zenon, <2>1 DEF Aim
    <3>2. missed' = missed
      BY <2>1 DEF Aim
    <3>3. QED
      BY Zenon, <3>1, <3>2
  <2>2. CASE ~Aim(c)
    <3>1. UNCHANGED <<clean, missed>>
      BY <1>3, <2>2 DEF Step, ReadAcl, LinkAcl, ReadLegacyPid, Terminate, Spawn, Judge,
                        WriteTmp, RenameTmp, Reap, RemovePidfile
    <3>2. QED
      BY <1>1, <3>1
  <2>3. QED
    BY <2>1, <2>2
<1>4. ASSUME NEW c \in Client, NEW goal \in {"ensure", "stop"}, Begin(c, goal)
      PROVE  clean /\ ~missed
  <2>1. clean' => clean
    BY Zenon, <1>4 DEF Begin
  <2>2. missed' = missed
    BY <1>4 DEF Begin
  <2>3. QED
    BY Zenon, <2>1, <2>2
<1>5. ASSUME NEW c \in Client, TimeOut(c) \/ AuthLate(c) \/ Killed(c)
      PROVE  clean /\ ~missed
  <2>1. UNCHANGED <<clean, missed>> \/ clean' = FALSE
    BY <1>5 DEF TimeOut, AuthLate, Killed
  <2>2. QED
    BY <1>1, <2>1
<1>6. ASSUME NEW m \in Moon, Bind(m) \/ Leave(m) \/ Crash(m) PROVE clean /\ ~missed
  BY <1>1, <1>6 DEF Bind, Leave, Crash
<1>7. CASE UNCHANGED vars
  BY <1>1, <1>7 DEF vars
<1>8. QED
  BY <1>2, <1>3, <1>4, <1>5, <1>6, <1>7 DEF Next, Call

LEMMA Calm == Spec => [](IInv /\ SInv)
<1>1. Init => SInv
  <2> SUFFICES ASSUME Init PROVE Serves /\ CalmInv
    BY DEF SInv
  <2>1. Serves
    BY DEF Init, Serves
  <2>2. \A c \in Client : client[c].stage = "idle" /\ client[c].result = "none"
    BY DEF Init, NewProcess
  <2>3. Settled
    BY DEF Init, Settled, Alive
  <2>4. QED
    BY <2>1, <2>2, <2>3 DEF CalmInv, Active, Raising, Aimed, Stopped
<1>2. IInv /\ SInv /\ [Next]_vars => SInv'
  BY ServesStays, CalmStays, CalmBefore DEF SInv
<1>3. QED
  BY <1>1, <1>2, InitEstablishes, StepKeeps, PTL DEF Spec

\* Between calls the pidfile names the protected Moon that has the port, so a
\* stop, or the check of an old Moon, finds it: if no two calls overlapped, no
\* process was killed in one, and no probe missed (supervisor.rs).
THEOREM PidfileFindsMoon == Spec => []PidfileNamesMoon
<1>1. SInv => PidfileNamesMoon
  BY DEF SInv, CalmInv, Raising, Active, Settled, PidfileNamesMoon
<1>2. QED
  BY Calm, <1>1, PTL

\* A stop that returned Ok has stopped the Moon that answered it, for as long
\* as its process makes no other call, and on the same conditions.
THEOREM StopHasStopped == Spec => []StopStops
<1>1. SInv => StopStops
  BY DEF SInv, CalmInv, Stopped, StopStops
<1>2. QED
  BY Calm, <1>1, PTL
=============================================================================
