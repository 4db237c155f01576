----------------------------- MODULE MCCommands -----------------------------
(* Two of the program's commands with files of their own: `init` (with     *)
(* `doctor`) and `trace`.  They share nothing, so a behaviour has one of   *)
(* them at work, and the other still as it was.                            *)
EXTENDS Setup, TraceLog

CONSTANTS prompt, mine, ours, bare, linter, broken, odd, hook, server

VARIABLE subject

MCRuns == [h \in {ours, bare, linter} |-> IF h = ours THEN "exe" ELSE IF h = bare THEN "laya-codex"
                                          ELSE "lint"]
MCOurs == [p \in {"exe", "laya-codex"} |-> IF p = "exe" THEN ours ELSE bare]

File_(keys, hooks, plugin, srv) ==
  [keys |-> keys, hooks |-> [e \in Event |-> hooks], plugin |-> plugin, server |-> srv]
MCContents ==
  [f \in {"local", "mcp"} |->
     IF f = "local"
       THEN {Absent, odd, Unsafe, File_({mine}, <<{linter, ours}, {bare}, {}>>, None, None),
             File_({}, <<>>, "off", None)}
       ELSE {Absent, broken, File_({mine}, <<>>, None, None)}]
\* `hooks` is no object, say, but the plugin is on.
MCOdd == [c \in {odd} |-> File_({}, <<>>, "on", None)]
MCProject == {Absent, File_({}, <<{bare}>>, None, None)}
MCUser == {Absent, File_({}, <<>>, "on", None)}
MCPaths == {<<"none", "same">>, <<"other", "same">>}

Block(s, t, q) == [state |-> s, top |-> t, search |-> q]
Model(dir, block, metal) == [dir |-> dir, block |-> block, metal |-> metal]
NoEnv == [state |-> None, top |-> None]
Base ==
  [home |-> TRUE, bin |-> "ok", probe |-> "ready", files |-> 3, writes |-> "ok",
   pong |-> [sameVersion |-> TRUE, model |-> "m"], env |-> NoEnv,
   through |-> [local |-> File_({}, <<{bare}>>, None, None), mcp |-> Absent],
   model |-> Model("m", Block(1, 1, 2), TRUE)]
MCMachine ==
  {[Base EXCEPT !.home = h, !.bin = b, !.probe = p] :
     h \in BOOLEAN, b \in {"missing", "broken", "ok"}, p \in Probes}
  \cup {[Base EXCEPT !.files = f, !.writes = w] :
     f \in {None, 0, 3}, w \in {"ok", "paused", "failed"}}
  \cup {[Base EXCEPT !.model = m] :
     m \in {Model("disabled", None, TRUE), Model(None, None, TRUE), Model("incomplete", None, TRUE),
            Model("m", None, TRUE), Model("m", Malformed, TRUE), Model("m", Block(1, 1, 2), FALSE)}}
  \cup {[Base EXCEPT !.pong = p] :
     p \in {None, [sameVersion |-> FALSE, model |-> None], [sameVersion |-> TRUE, model |-> "old"]}}
  \cup {[Base EXCEPT !.model = Model("m", Block(1, t, q), TRUE),
                     !.env = [state |-> None, top |-> et]] :
     t \in {None, 1}, q, et \in {None, 1, 2}}
  \cup {[Base EXCEPT !.env = [state |-> 2, top |-> None]]}
  \cup {[Base EXCEPT !.through["local"] = c] : c \in {Absent, broken}}

MCEnvSet == [w \in {hook, server} |-> "unset"]

vars == <<setupVars, logVars, subject>>

Init ==
  /\ SetupInit /\ LogInit
  /\ \/ subject = "setup" /\ marked /\ bak["mcp"] = Absent
     \/ /\ subject = "trace" /\ \A f \in Target : file[f] = Absent /\ bak[f] = Absent
        /\ project = Absent /\ user = Absent
Next ==
  \/ subject = "setup" /\ SetupNext /\ UNCHANGED <<logVars, subject>>
  \/ subject = "trace" /\ LogNext /\ UNCHANGED <<setupVars, subject>>
Spec == Init /\ [][Next]_vars
=============================================================================
