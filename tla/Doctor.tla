------------------------------- MODULE Doctor -------------------------------
(***************************************************************************)
(* `laya-codex doctor` (crates/laya-cli/src/doctor.rs) and what it reads:  *)
(* the files that enable laya-codex for a repository (init.rs merges into  *)
(* two of them), the Moon on the port and its binary, the model and the    *)
(* settings it is served with (serving.rs).  A check is its level.         *)
(***************************************************************************)
EXTENDS Integers, Sequences, SequencesExt, FiniteSets

CONSTANTS
  Event,      \* HOOK_EVENTS
  LayaHook,   \* hook commands that is_laya_hook accepts
  Runs,       \* the program a hook command runs
  Found,      \* programs that exe_found finds
  Junk,       \* texts of a settings file that init cannot merge
  Odd,        \* Odd[text]: what doctor reads of those that are JSON of another shape
  Absent,     \* no file
  Unsafe,     \* a symlink, a directory, or a file over MAX_JSON_BYTES
  None,       \* no answer, no value, not set
  Malformed   \* a serving block that cannot be read

\* What is found in a JSON file: [keys, hooks, plugin, server], where hooks[e]
\* is a sequence of groups of handlers, plugin what enabledPlugins says.
IsJson(c) == c \notin Junk \cup {Absent, Unsafe}

\* What a check reads of a text: it looks for what it wants, whatever the shape.
Seen(c) == IF c \in DOMAIN Odd THEN Odd[c] ELSE c

-----------------------------------------------------------------------------
\* plugin_enabled: the most specific scope that mentions the plugin decides.
PluginEnabled(scopes) ==
  \E i \in DOMAIN scopes :
    /\ IsJson(scopes[i]) /\ scopes[i].plugin = "on"
    /\ \A j \in 1..(i - 1) : IsJson(scopes[j]) => scopes[j].plugin = None

HooksIn(c, e) == IF IsJson(c) THEN UNION ToSet(c.hooks[e]) \cap LayaHook ELSE {}

\* check_hooks_with, on what is seen of settings.local.json, settings.json and
\* the user's: Junk is then no JSON at all.
CheckHooks(local, project, user) ==
  LET cmds(e) == HooksIn(local, e) \cup HooksIn(project, e)
      all == UNION {cmds(e) : e \in Event} IN
  CASE {local, project} \cap Junk # {} -> "fail"
    [] all = {} /\ PluginEnabled(<<local, project, user>>) -> "pass"
    [] \E e \in Event : cmds(e) = {} -> "fail"
    [] \E h \in all : Runs[h] \notin Found -> "fail"
    [] OTHER -> "pass"

\* check_mcp_with.
CheckMcp(mcp, local, project, user) ==
  IF (IsJson(mcp) /\ mcp.server # None) \/ PluginEnabled(<<local, project, user>>)
  THEN "pass" ELSE "warn"

-----------------------------------------------------------------------------
\* What answers on the Moon port, as MoonSupervisor::probe and is_legacy say;
\* "no password": the password could not be loaded.
Probes == {"ready", "down", "legacy", "unprotected", "foreign", "no password"}

\* check_moon: bin is "missing", "broken" or "ok"; what answers must be ours
\* (a mutant: anything that answers will do).
CheckMoonByPort(bin, probe) ==
  IF bin = "ok" THEN "pass" ELSE IF probe # "down" THEN "warn" ELSE "fail"
CheckMoon(bin, probe) ==
  IF bin = "ok" THEN "pass" ELSE IF probe = "ready" THEN "warn" ELSE "fail"

CheckAuth(probe) ==
  CASE probe \in {"ready", "down"} -> "pass"
    [] probe = "legacy" -> "warn"
    [] OTHER -> "fail"

\* check_index: files is None (not read) or their number, writes what a test
\* write said.
CheckIndex(files, writes) ==
  CASE writes = "paused" -> "fail"
    [] writes = "failed" /\ files # None -> "warn"
    [] files \in {None, 0} -> "warn"
    [] OTHER -> "pass"

\* check_daemon: its reply to a ping, and the model that is installed.
CheckDaemon(pong, installed) ==
  IF pong = None \/ ~pong.sameVersion THEN "warn"
  ELSE IF None \notin {pong.model, installed} /\ pong.model # installed THEN "warn"
  ELSE "pass"

-----------------------------------------------------------------------------
Or(a, b) == IF a # None THEN a ELSE b

\* serving.rs resolve: the environment over the model's block over the
\* defaults; a field that is not set is None.
Serving(block, env, default) ==
  LET top == Or(Or(env.top, block.top), default.top) IN
  [state |-> Or(Or(env.state, block.state), default.state),
   top |-> top,
   search |-> Or(Or(env.top, block.search), top)]

\* env_conflicts: the fields of the block that the environment overrides.
EnvConflicts(block, env) ==
  {f \in {"state", "top"} : None \notin {env[f], block[f]} /\ env[f] # block[f]}
    \cup (IF None \notin {env.top, block.search} /\ block.search # block.top
              /\ env.top # block.search
          THEN {"search"} ELSE {})

\* check_model: m.dir is "disabled", None, "incomplete" or the model; its block
\* None, Malformed or a block.
CheckModel(m, env) ==
  CASE m.dir = "disabled" -> "pass"
    [] m.dir \in {None, "incomplete"} -> "warn"
    [] m.block \in {None, Malformed} -> "warn"
    [] EnvConflicts(m.block, env) # {} -> "warn"
    [] ~m.metal -> "warn"
    [] OTHER -> "pass"

\* exit_code: only a failed check counts.
ExitCode(checks) == IF "fail" \in checks THEN 1 ELSE 0
=============================================================================
