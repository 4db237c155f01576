------------------------------ MODULE TraceLog ------------------------------
(***************************************************************************)
(* The trace of hooks and MCP messages (crates/laya-cli/src/trace.rs) and  *)
(* the daemon's request capture (capture.rs): JSON lines that several      *)
(* processes append to one file, without a lock, and that each of them     *)
(* rotates when it finds it full; the commands that turn it on and off,    *)
(* read it and delete it.  A file is an inode with its lines; a writer     *)
(* that has it open keeps it through a rename or an unlink.                *)
(***************************************************************************)
EXTENDS Integers, Sequences, FiniteSets

CONSTANTS
  Writer,       \* processes that record: hooks, an MCP server, the daemon
  Once,         \* those that resolve the log when they start, not per record
  MarkerIsOn,   \* the marker file turns the log on (trace), or off (capture)
  EnvSet,       \* [Writer -> {"unset", "off", "on"}], the environment variable
  MaxBytes,     \* MAX_BYTES, in lines
  MaxInode,     \* bound of the model: files made
  MaxLines,     \* bound of the model: records of each writer
  MaxCommands   \* bound of the model: commands the user runs

ASSUME TraceLogAssumption ==
  /\ {MaxBytes, MaxInode, MaxLines, MaxCommands} \subseteq Nat \ {0}
  /\ Once \subseteq Writer /\ MarkerIsOn \in BOOLEAN
  /\ EnvSet \in [Writer -> {"unset", "off", "on"}]

Inode == 1..MaxInode
NoFile == 0

VARIABLES
  marked,   \* the marker file exists
  text,     \* the lines of each inode made so far
  cur, old, \* the inodes of trace.jsonl and trace.1.jsonl, or NoFile
  stage,    \* what a writer does next: idle, on, off, sized, rotate, open
  handle,   \* the inode a writer has open
  written,  \* records of each writer so far
  reader,   \* what `show` read so far: nothing, the rotated file, both
  commands  \* commands so far

logVars == <<marked, text, cur, old, stage, handle, written, reader, commands>>

Unread == [stage |-> "idle", lines |-> <<>>]

\* Tracer::resolve, capture::resolve.
Resolve(w) ==
  CASE EnvSet[w] = "on" -> TRUE
    [] EnvSet[w] = "off" -> FALSE
    [] OTHER -> marked = MarkerIsOn

LogInit ==
  /\ marked \in BOOLEAN
  /\ text = <<>> /\ cur = NoFile /\ old = NoFile
  /\ stage = [w \in Writer |-> IF w \notin Once THEN "idle"
                               ELSE IF Resolve(w) THEN "on" ELSE "off"]
  /\ handle = [w \in Writer |-> NoFile]
  /\ written = [w \in Writer |-> 0]
  /\ reader = Unread /\ commands = 0

-----------------------------------------------------------------------------

\* try_record, system call by system call.  Its stat finds the file full, or
\* not.
Stat(w) ==
  /\ stage' = [stage EXCEPT ![w] = IF cur # NoFile /\ Len(text[cur]) >= MaxBytes
                                    THEN "rotate" ELSE "open"]
  /\ UNCHANGED <<marked, text, cur, old, handle, written, reader, commands>>

Record(w) ==
  /\ written[w] < MaxLines
  /\ stage[w] = "on" \/ (stage[w] = "idle" /\ Resolve(w))
  /\ Stat(w)

\* What the writer goes back to when its record is written, or failed.
Rest(w) == IF w \in Once THEN "on" ELSE "idle"

\* rename: whatever the name now stands for replaces the rotated file; if it
\* stands for nothing the record is given up.
Rotate(w) ==
  /\ stage[w] = "rotate"
  /\ IF cur = NoFile
       THEN /\ stage' = [stage EXCEPT ![w] = Rest(w)]
            /\ written' = [written EXCEPT ![w] = @ + 1]
            /\ UNCHANGED <<cur, old>>
       ELSE /\ old' = cur /\ cur' = NoFile
            /\ stage' = [stage EXCEPT ![w] = "open"]
            /\ UNCHANGED written
  /\ UNCHANGED <<marked, text, handle, reader, commands>>

\* open for appending, made if there is none.
Open(w) ==
  /\ stage[w] = "open"
  /\ IF cur # NoFile THEN UNCHANGED <<text, cur>>
     ELSE Len(text) < MaxInode /\ text' = Append(text, <<>>) /\ cur' = Len(text')
  /\ handle' = [handle EXCEPT ![w] = cur']
  /\ stage' = [stage EXCEPT ![w] = "write"]
  /\ UNCHANGED <<marked, old, written, reader, commands>>

\* One write(2) of the whole line, on a file opened for appending.
WriteLine(w) ==
  /\ stage[w] = "write"
  /\ text' = [text EXCEPT ![handle[w]] = Append(@, <<w, written[w]>>)]
  /\ written' = [written EXCEPT ![w] = @ + 1]
  /\ handle' = [handle EXCEPT ![w] = NoFile]
  /\ stage' = [stage EXCEPT ![w] = Rest(w)]
  /\ UNCHANGED <<marked, cur, old, reader, commands>>

-----------------------------------------------------------------------------
Command == commands < MaxCommands /\ commands' = commands + 1

\* cmd_on and cmd_off of both logs: the marker is made or deleted.
Switch ==
  /\ Command
  /\ marked' = ~marked
  /\ UNCHANGED <<text, cur, old, stage, handle, written, reader>>

\* cmd_clear unlinks the file, then the rotated one.
ClearCur ==
  /\ Command /\ reader = Unread
  /\ cur' = NoFile /\ reader' = [Unread EXCEPT !.stage = "clear"]
  /\ UNCHANGED <<marked, text, old, stage, handle, written>>
ClearOld ==
  /\ reader.stage = "clear"
  /\ old' = NoFile /\ reader' = Unread
  /\ UNCHANGED <<marked, text, cur, stage, handle, written, commands>>

Lines(inode) == IF inode = NoFile THEN <<>> ELSE text[inode]

\* read_entries: the rotated file, then the file.
ReadOld ==
  /\ Command /\ reader = Unread
  /\ reader' = [stage |-> "half", lines |-> Lines(old)]
  /\ UNCHANGED <<marked, text, cur, old, stage, handle, written>>
\* A mutant: the file is put before the rotated one.
ReadCurFirst ==
  /\ reader.stage = "half"
  /\ reader' = [stage |-> "read", lines |-> Lines(cur) \o reader.lines]
  /\ UNCHANGED <<marked, text, cur, old, stage, handle, written, commands>>
ReadCur ==
  /\ reader.stage = "half"
  /\ reader' = [stage |-> "read", lines |-> reader.lines \o Lines(cur)]
  /\ UNCHANGED <<marked, text, cur, old, stage, handle, written, commands>>
Shown ==
  /\ reader.stage = "read" /\ reader' = Unread
  /\ UNCHANGED <<marked, text, cur, old, stage, handle, written, commands>>

LogNext ==
  \/ \E w \in Writer : Record(w) \/ Rotate(w) \/ Open(w) \/ WriteLine(w)
  \/ Switch \/ ClearCur \/ ClearOld \/ ReadOld \/ ReadCur \/ Shown

LogSpec == LogInit /\ [][LogNext]_logVars

-----------------------------------------------------------------------------
(* What is shown is in the order it was written in, for each writer, and    *)
(* nothing is shown twice (trace.rs, read_entries: "oldest first"); over    *)
(* rotations by others between any two of the calls, and in the middle of   *)
(* the read.                                                                *)
WriterOrder ==
  reader.stage = "read" =>
    \A i, j \in DOMAIN reader.lines :
      i < j /\ reader.lines[i][1] = reader.lines[j][1] =>
        reader.lines[i][2] < reader.lines[j][2]
=============================================================================
