------------------------------- MODULE Setup -------------------------------
(***************************************************************************)
(* `laya-codex init` (crates/laya-cli/src/init.rs, main.rs cmd_init): the  *)
(* hooks are merged into .claude/settings.local.json and the MCP server    *)
(* into .mcp.json, both planned before either is written, the second's     *)
(* failure undoing the first; while an editor may change the files, a call *)
(* may fail, or the process be killed.  Doctor then judges the result.     *)
(* A file is replaced atomically (replace_file: a new file, renamed).      *)
(***************************************************************************)
EXTENDS Doctor, Loops

CONSTANTS
  Key,        \* keys and servers that are not laya-codex's
  Program,    \* programs that a hook or a server may name
  Contents,   \* [file -> what it may hold to begin with, or be changed to]
  Project,    \* what .claude/settings.json may hold
  User,       \* what the user's settings may hold
  Ours,       \* Ours[program]: the handler that init installs for it
  Exe,        \* the running program's own path
  Bare,       \* "laya-codex", to be looked up
  Paths,      \* values of PATH: sequences of "relative", "none", "same", "other"
  Machine,    \* what doctor may find besides the files, and through the Unsafe ones
  MaxRuns,    \* bound of the model: init runs
  MaxEdits,   \* bound of the model: changes by the editor
  MaxFaults   \* bound of the model: calls that fail, or kill the process

Target == {"local", "mcp"}
Backing == [local |-> "backupLocal", mcp |-> "backupMcp"]
Writing == [local |-> "writeLocal", mcp |-> "writeMcp"]

\* A settings file that can be parsed, and any other.
Json ==
  [keys : SUBSET Key, hooks : [Event -> Seq(SUBSET DOMAIN Runs)],
   plugin : {"on", "off", None}, server : Program \cup {None}]
NoJson == Junk \cup {Absent, Unsafe}

ASSUME SetupAssumption ==
  /\ {MaxRuns, MaxEdits, MaxFaults} \subseteq Nat
  /\ DOMAIN Contents = Target
  /\ NoJson \cap Json = {} /\ \A f \in Target : Contents[f] \subseteq Json \cup NoJson
  /\ \A p \in {Exe, Bare} :
       p \in Program /\ Ours[p] \in LayaHook \cap DOMAIN Runs /\ Runs[Ours[p]] = p
  /\ DOMAIN Odd \subseteq Junk /\ \A c \in DOMAIN Odd : Odd[c] \in Json
  /\ \A m \in Machine : m.through \in [Target -> Json \cup Junk \cup {Absent}]
  /\ Absent \notin Junk /\ None \notin {"ok", "error", "killed"}

VARIABLES
  file, bak,        \* what the two files hold, and their .bak
  project, user,    \* the settings init does not touch
  step,             \* what init does next
  plan,             \* plan[f]: action and content
  original,         \* what it would roll back to
  result,           \* of the last run: None, "ok", "error"
  before, touched,  \* the files at its start; the editor was there since
  failed,           \* calls that failed in it
  runs, edits, faults

setupVars == <<file, bak, project, user, step, plan, original, result, before,
               touched, failed, runs, edits, faults>>
trees == <<file, bak>>
settings == <<project, user>>
history == <<before, touched, runs>>
mishaps == <<failed, faults>>

SetupInit ==
  /\ file \in [Target -> UNION {Contents[f] : f \in Target}]
  /\ \A f \in Target : file[f] \in Contents[f]
  /\ bak \in [Target -> {Absent, Unsafe}]
  /\ project \in Project /\ user \in User
  /\ step = "idle" /\ plan = <<>> /\ original = <<>> /\ result = None
  /\ before = file /\ touched = FALSE /\ failed = 0
  /\ runs = 0 /\ edits = 0 /\ faults = 0

-----------------------------------------------------------------------------
\* program_for: the bare name only if looking it up finds this very program.
ProgramFor(path) ==
  IF \E i \in DOMAIN path :
       path[i] = "same" /\ \A j \in 1..(i - 1) : path[j] = "none"
  THEN Bare ELSE Exe

Empty == [keys |-> {}, hooks |-> [e \in Event |-> <<>>], plugin |-> None, server |-> None]

\* What the groups hold besides laya-codex's handlers.
Others(groups) == [i \in DOMAIN groups |-> groups[i] \ LayaHook]

\* A mutant: groups with a handler of laya-codex are dropped whole.
StrippedOfGroups(groups) ==
  At(groups, {i \in DOMAIN groups : groups[i] \cap LayaHook = {}})

\* merge_settings: laya-codex's handlers are dropped everywhere, a group only
\* if it held nothing else; then one group is added.
Stripped(groups) ==
  At(Others(groups), {i \in DOMAIN groups : groups[i] = {} \/ Others(groups)[i] # {}})
MergeSettings(c, program) ==
  [c EXCEPT !.hooks = [e \in Event |-> Append(Stripped(@[e]), {Ours[program]})]]

MergeMcp(c, program) == [c EXCEPT !.server = program]

Merge(f, c, program) ==
  IF f = "local" THEN MergeSettings(c, program) ELSE MergeMcp(c, program)

\* plan_file; what cannot be merged is an error, or to be replaced.
PlanFile(f, program, force) ==
  LET c == file[f]
      new == Merge(f, IF IsJson(c) THEN c ELSE Empty, program) IN
  CASE c = Absent -> [action |-> "create", content |-> new]
    [] c \in Junk -> [action |-> IF force THEN "replace" ELSE "error", content |-> new]
    [] c = new -> [action |-> "unchanged", content |-> c]
    [] OTHER -> [action |-> "update", content |-> new]

Finish(r) ==
  /\ step' = "idle" /\ result' = r
  /\ plan' = <<>> /\ original' = <<>>

\* run_with up to the dry run's return: both targets and both backups are
\* checked, and both files planned, before anything is written.
Plan(path, force, dry) ==
  /\ step = "idle" /\ runs < MaxRuns
  /\ runs' = runs + 1 /\ before' = file /\ touched' = FALSE /\ failed' = 0
  /\ LET p == [f \in Target |-> PlanFile(f, ProgramFor(path), force)] IN
     IF \/ \E f \in Target : file[f] = Unsafe \/ p[f].action = "error"
        \/ \E f \in Target : p[f].action = "replace" /\ bak[f] = Unsafe
       THEN Finish("error")
     ELSE IF dry THEN Finish(None)
     ELSE /\ plan' = p /\ step' = "originals" /\ result' = None
          /\ original' = <<>>
  /\ UNCHANGED <<trees, settings, edits, faults>>

\* n more calls fail.
Mishaps(n) ==
  /\ faults + n <= MaxFaults
  /\ faults' = faults + n /\ failed' = failed + n

\* A file that cannot be read counts as absent.
Originals ==
  /\ step = "originals"
  /\ \/ original' = file /\ UNCHANGED mishaps
     \/ Mishaps(1) /\ \E f \in Target : original' = [file EXCEPT ![f] = Absent]
  /\ step' = "backupLocal"
  /\ UNCHANGED <<trees, settings, plan, result, history, edits>>

Other(f) == IF f = "local" THEN "mcp" ELSE "local"

\* What run_with does when apply fails: the file written before is restored.
RollbackNothing(f) == UNCHANGED file
Rollback(f) ==
  IF f = "mcp" /\ (original["local"] # Absent \/ plan["local"].action # "unchanged")
  THEN file' = [file EXCEPT !["local"] = original["local"]] ELSE UNCHANGED file

\* ... and what if that fails too, which nobody hears of.
Fails(f, n) ==
  /\ \/ Rollback(f) /\ Mishaps(n)
     \/ f = "mcp" /\ UNCHANGED file /\ Mishaps(n + 1)
  /\ UNCHANGED bak
  /\ Finish("error")

\* apply, in two steps: the target is checked again, and backed up as it now
\* is if it is to be replaced; a target that is gone cannot be read.
BackUp(f) ==
  /\ step = Backing[f]
  /\ IF \/ plan[f].action # "unchanged" /\ file[f] = Unsafe
        \/ plan[f].action = "replace" /\ file[f] = Absent
       THEN Fails(f, 0)
       ELSE /\ bak' = IF plan[f].action = "replace" THEN [bak EXCEPT ![f] = file[f]] ELSE bak
            /\ step' = Writing[f]
            /\ UNCHANGED <<file, plan, original, result, mishaps>>
  /\ UNCHANGED <<settings, history, edits>>

WriteFile(f) ==
  /\ step = Writing[f]
  /\ file' = IF plan[f].action = "unchanged" THEN file
             ELSE [file EXCEPT ![f] = plan[f].content]
  /\ IF f = "local"
       THEN step' = "backupMcp" /\ UNCHANGED <<plan, original, result>>
       ELSE Finish("ok")
  /\ UNCHANGED <<bak, settings, history, edits, mishaps>>

\* A call of apply fails: no space, no permission.
CallFails(f) ==
  /\ step \in {Backing[f], Writing[f]} /\ plan[f].action # "unchanged"
  /\ Fails(f, 1)
  /\ UNCHANGED <<settings, history, edits>>

Killed ==
  /\ step # "idle" /\ Mishaps(1)
  /\ Finish("killed")
  /\ UNCHANGED <<trees, settings, history, edits>>

\* The editor changes one of the files.
Edit(f) ==
  /\ edits < MaxEdits /\ edits' = edits + 1
  /\ \E c \in Contents[f] \ {file[f]} : file' = [file EXCEPT ![f] = c]
  /\ touched' = TRUE
  /\ UNCHANGED <<bak, settings, step, plan, original, result, before, runs, mishaps>>

-----------------------------------------------------------------------------
\* doctor follows a symlink and reads a file of any size.
SeenAt(f, m) == IF file[f] = Unsafe THEN m.through[f] ELSE Seen(file[f])
Scopes(m) == <<SeenAt("local", m), Seen(project), Seen(user)>>

\* doctor's run: every check.  One that takes too long fails (bounded); it
\* changes nothing.
Checks(m) ==
  [c \in {"home", "moon", "auth", "model", "daemon", "index", "hooks", "mcp"} |->
     CASE c = "home" -> IF m.home THEN "pass" ELSE "fail"
       [] c = "moon" -> CheckMoon(m.bin, m.probe)
       [] c = "auth" -> CheckAuth(m.probe)
       [] c = "model" -> CheckModel(m.model, m.env)
       [] c = "daemon" -> CheckDaemon(m.pong, IF m.model.dir = "disabled" THEN None ELSE m.model.dir)
       [] c = "index" -> CheckIndex(m.files, m.writes)
       [] c = "hooks" -> CheckHooks(SeenAt("local", m), Seen(project), Seen(user))
       [] c = "mcp" -> CheckMcp(SeenAt("mcp", m), SeenAt("local", m), Seen(project), Seen(user))]

SetupNext ==
  \/ \E path \in Paths, force, dry \in BOOLEAN : Plan(path, force, dry)
  \/ Originals
  \/ \E f \in Target : BackUp(f) \/ WriteFile(f) \/ CallFails(f) \/ Edit(f)
  \/ Killed

SetupSpec == SetupInit /\ [][SetupNext]_setupVars

-----------------------------------------------------------------------------
\* What c holds besides laya-codex's hooks and server.
ForeignGroups(groups) ==
  At(Others(groups), {i \in DOMAIN groups : Others(groups)[i] # {}})
Foreign(c) ==
  [keys |-> c.keys, plugin |-> c.plugin,
   hooks |-> [e \in Event |-> ForeignGroups(c.hooks[e])]]

(* init.rs: "Merging keeps every unrelated key, hook and server", and what  *)
(* cannot be merged is never overwritten without a backup: whatever fails,  *)
(* and wherever the process dies, what a file held is in it or in its .bak, *)
(* if nobody else wrote it meanwhile.                                       *)
NothingLost ==
  ~touched /\ failed <= 1 =>
    \A f \in Target :
      \/ before[f] \in {Absent, file[f], bak[f]}
      \/ IsJson(before[f]) /\ IsJson(file[f]) /\ Foreign(file[f]) = Foreign(before[f])

(* run_with: "a failed second write rolls the first one back".  A run that  *)
(* fails at most once has left both files as they were, and one that ends   *)
(* well has merged the hooks into the one and the server of the same        *)
(* program into the other, if nobody else wrote them meanwhile.             *)
Merged(program) ==
  [f \in Target |-> Merge(f, IF IsJson(before[f]) THEN before[f] ELSE Empty, program)]
AllOrNothing ==
  ~touched =>
    /\ result = "error" /\ failed <= 1 => file = before
    /\ result = "ok" => \E program \in {Exe, Bare} : file = Merged(program)

\* The daemon can have a Moon: ours answers, or it can start one.
Servable(m) ==
  m.probe = "ready" \/ (m.bin = "ok" /\ m.probe \in {"down", "legacy"})

(* doctor exits 0 only where the hooks can work: each event has a hook that *)
(* runs, or the plugin is on, and there is, or can be, a Moon; the check of *)
(* the binary and that of the port agree on who serves.                     *)
ExitZeroServable ==
  step = "idle" /\ result # None =>
    \A m \in Machine : ExitCode(Range(Checks(m))) = 0 =>
      /\ Servable(m)
      /\ \/ PluginEnabled(Scopes(m))
         \/ \A e \in Event : \E h \in HooksIn(Scopes(m)[1], e) \cup HooksIn(Scopes(m)[2], e) :
              Runs[h] \in Found
=============================================================================
