---------------------------- MODULE CommandProofs ----------------------------
(***************************************************************************)
(* Proofs about the commands that run outside the daemon: the trace that   *)
(* several processes write, rotate and read without a lock (TraceLog), for *)
(* any number of writers, lines and rotations; init with its two files and *)
(* its rollback (Setup), for any contents, runs and failures; and the MCP  *)
(* server's search for names (Lookup), for any files, changes and limits.  *)
(***************************************************************************)
EXTENDS Setup, TraceLog, Lookup, LoopProofs

(***************************************************************************)
(* The trace.                                                              *)
(***************************************************************************)
\* A line: who wrote it, and which of his lines it is.
Line == Writer \X Nat

\* Every writer's lines in s are in the order they were written; those in s
\* were all written before those in t.
Ordered(s) ==
  \A i, j \in 1..Len(s) : i < j /\ s[i][1] = s[j][1] => s[i][2] < s[j][2]
Before(s, t) ==
  \A i \in 1..Len(s), j \in 1..Len(t) : s[i][1] = t[j][1] => s[i][2] < t[j][2]
Begins(s, t) ==
  Len(s) <= Len(t) /\ \A i \in 1..Len(s) : s[i] = t[i]

LEMMA OrderedConcat ==
  ASSUME NEW s \in Seq(Line), NEW t \in Seq(Line),
         Ordered(s), Ordered(t), Before(s, t)
  PROVE  Ordered(s \o t)
<1> DEFINE r == s \o t
<1>1. /\ Len(s) \in Nat /\ Len(t) \in Nat /\ Len(r) = Len(s) + Len(t)
      /\ \A i \in 1..Len(s) : r[i] = s[i]
      /\ \A i \in 1..Len(r) : i > Len(s) => i - Len(s) \in 1..Len(t) /\ r[i] = t[i - Len(s)]
  OBVIOUS
<1> SUFFICES ASSUME NEW i \in 1..Len(r), NEW j \in 1..Len(r), i < j, r[i][1] = r[j][1]
             PROVE  r[i][2] < r[j][2]
  BY DEF Ordered
<1> HIDE DEF r
<1>2. CASE j <= Len(s)
  <2>1. i \in 1..Len(s) /\ j \in 1..Len(s)
    BY <1>1, <1>2
  <2>2. r[i] = s[i] /\ r[j] = s[j]
    BY <1>1, <2>1
  <2>3. QED BY <2>1, <2>2 DEF Ordered
<1>3. CASE i <= Len(s) /\ j > Len(s)
  <2>1. i \in 1..Len(s) /\ r[i] = s[i]
    BY <1>1, <1>3
  <2>2. PICK b \in 1..Len(t) : r[j] = t[b]
    BY <1>1, <1>3
  <2>3. QED BY <2>1, <2>2 DEF Before
<1>4. CASE i > Len(s)
  <2>1. PICK a \in 1..Len(t) : a = i - Len(s)
    BY <1>1, <1>4
  <2>2. PICK b \in 1..Len(t) : b = j - Len(s)
    BY <1>1, <1>4
  <2>3. r[i] = t[a] /\ r[j] = t[b] /\ a < b
    <3>1. i \in Nat /\ j \in Nat /\ j > Len(s)
      BY <1>1, <1>4
    <3>2. QED
      BY <1>1, <1>4, <2>1, <2>2, <3>1
  <2>4. QED
    BY <2>3 DEF Ordered
<1>5. QED
  BY <1>1, <1>2, <1>3, <1>4

LEMMA OrderedAppend ==
  ASSUME NEW s \in Seq(Line), NEW e \in Line, Ordered(s),
         \A i \in 1..Len(s) : s[i][1] = e[1] => s[i][2] < e[2]
  PROVE  Ordered(Append(s, e))
<1> DEFINE r == Append(s, e)
<1>1. /\ Len(r) = Len(s) + 1 /\ Len(s) \in Nat /\ r[Len(s) + 1] = e
      /\ \A i \in 1..Len(s) : r[i] = s[i]
  BY AppendIs
<1> HIDE DEF r
<1>2. Ordered(r)
  BY <1>1 DEF Ordered
<1>3. QED
  BY <1>2 DEF r

-----------------------------------------------------------------------------
LogTypeOK ==
  /\ text \in Seq(Seq(Line))
  /\ cur \in 0..Len(text) /\ old \in 0..Len(text)
  /\ handle \in [Writer -> 0..Len(text)]
  /\ written \in [Writer -> Nat]
  /\ stage \in [Writer -> {"idle", "on", "off", "rotate", "open", "write"}]
  /\ reader \in [stage : {"idle", "clear", "half", "read"}, lines : Seq(Line)]

\* The file is the last inode made, and not the rotated one.
Names ==
  /\ cur # NoFile => cur = Len(text)
  /\ old # NoFile => old # cur

\* A writer that has an inode open has written to no later one.
Opened ==
  \A w \in Writer :
    /\ stage[w] = "write" <=> handle[w] # NoFile
    /\ stage[w] = "write" => \A x \in 1..Len(text) : x > handle[w] =>
         \A i \in 1..Len(text[x]) : text[x][i][1] # w

\* A writer's lines are numbered in the order of the inodes, and in each.
Numbered ==
  \A x \in 1..Len(text) :
    /\ \A i \in 1..Len(text[x]) : text[x][i][2] < written[text[x][i][1]]
    /\ Ordered(text[x])
    /\ \A y \in 1..Len(text) : x < y => Before(text[x], text[y])

\* What a reader has of the rotated file is older than what it has still to
\* read: the beginning of an inode that is not, and will not be, the file.
Reading ==
  /\ reader.stage = "half" =>
       \/ reader.lines = <<>>
       \/ \E x \in 1..Len(text) : x # cur /\ Begins(reader.lines, text[x])
  /\ reader.stage = "read" => Ordered(reader.lines)

LogInv == LogTypeOK /\ Names /\ Opened /\ Numbered /\ Reading

LEMMA LogTypes ==
  ASSUME LogInv
  PROVE  /\ Len(text) \in Nat
         /\ \A x \in 1..Len(text) : Len(text[x]) \in Nat
         /\ \A x \in 1..Len(text) : \A i \in 1..Len(text[x]) : text[x][i] \in Line
         /\ \A w \in Writer : handle[w] \in 0..Len(text) /\ written[w] \in Nat
         /\ reader.lines \in Seq(Line) /\ Len(reader.lines) \in Nat
  BY DEF LogInv, LogTypeOK

\* The parts of the invariant that speak of lines alone.
LEMMA LinesStay ==
  ASSUME LogInv, UNCHANGED <<text, stage, handle, written>>
  PROVE  Opened' /\ Numbered'
<1>1. Opened /\ Numbered
  BY DEF LogInv
<1>2. UNCHANGED <<text, stage, handle, written>>
  OBVIOUS
<1>3. QED BY <1>1, <1>2 DEF Opened, Numbered

LEMMA LogInitOk == LogInit => LogInv
<1> SUFFICES ASSUME LogInit PROVE LogInv
  OBVIOUS
<1>1. Len(text) = 0 /\ text \in Seq(Seq(Line))
  BY DEF LogInit
<1>2. LogTypeOK
  BY <1>1 DEF LogInit, LogTypeOK, NoFile, Unread
<1>3. QED
  BY <1>1, <1>2 DEF LogInit, LogInv, Names, Opened, Numbered, Reading, NoFile, Unread

-----------------------------------------------------------------------------
\* A step that makes no line and opens nothing: of a writer before it opens the
\* file or after its rename, or of the user.
LEMMA NamesMove ==
  ASSUME LogInv, UNCHANGED <<text, handle>>, LogTypeOK', Names',
         \A w \in Writer : /\ written[w] <= written'[w]
                           /\ stage'[w] = "write" <=> stage[w] = "write",
         cur' \in {cur, NoFile},
         Reading'
  PROVE  LogInv'
<1>1. Opened'
  BY DEF LogInv, Opened
<1>2. Numbered'
  <2> SUFFICES ASSUME NEW x \in 1..Len(text), NEW i \in 1..Len(text[x])
               PROVE  text[x][i][2] < written'[text[x][i][1]]
    BY DEF LogInv, Numbered, Ordered, Before
  <2>1. text[x][i] \in Line
    BY DEF LogInv, LogTypeOK
  <2>2. PICK w \in Writer, n \in Nat : w = text[x][i][1] /\ n = text[x][i][2]
    BY <2>1 DEF Line
  <2>3. n < written[w] /\ written[w] \in Nat /\ written'[w] \in Nat
    BY <2>2 DEF LogInv, Numbered, LogTypeOK
  <2>4. QED
    BY <2>2, <2>3
<1>3. QED
  BY <1>1, <1>2 DEF LogInv

LEMMA ReadingStays ==
  ASSUME LogInv, UNCHANGED <<text, reader>>, cur' \in {cur, NoFile}
  PROVE  Reading'
<1>1. \A x \in 1..Len(text) : x # cur => x # cur'
  BY DEF NoFile
<1>2. QED
  BY <1>1 DEF LogInv, Reading, Ordered, Begins

LEMMA StatKeeps ==
  ASSUME LogInv, NEW w \in Writer, Record(w) \/ Rotate(w) PROVE LogInv'
<1>1. /\ UNCHANGED <<text, handle, reader>> /\ cur' \in {cur, NoFile}
      /\ old' \in {old, cur} /\ (old' # old => cur' = NoFile)
      /\ stage' \in [Writer -> {"idle", "on", "off", "rotate", "open", "write"}]
      /\ \A v \in Writer : stage'[v] = "write" <=> stage[v] = "write"
  BY DEF Record, Rotate, Stat, Rest, LogInv, LogTypeOK
<1>2. /\ written' \in [Writer -> Nat]
      /\ \A v \in Writer : written[v] <= written'[v]
  <2>1. written \in [Writer -> Nat]
    BY DEF LogInv, LogTypeOK
  <2>2. written' = written \/ written' = [written EXCEPT ![w] = @ + 1]
    BY DEF Record, Rotate, Stat
  <2>3. QED
    BY <2>1, <2>2
<1>3. LogTypeOK' /\ Names'
  BY <1>1, <1>2 DEF LogInv, LogTypeOK, Names, NoFile
<1>4. QED
  BY <1>1, <1>2, <1>3, ReadingStays, NamesMove

LEMMA UserKeeps ==
  ASSUME LogInv, Switch \/ ClearCur \/ ClearOld \/ Shown PROVE LogInv'
<1>1. /\ UNCHANGED <<text, handle, stage, written>> /\ cur' \in {cur, NoFile}
      /\ old' \in {old, NoFile}
      /\ reader' = reader \/ reader' = Unread \/ reader' = [Unread EXCEPT !.stage = "clear"]
  BY DEF Switch, ClearCur, ClearOld, Shown
<1> DEFINE R == [stage : {"idle", "clear", "half", "read"}, lines : Seq(Line)]
<1>2. /\ reader' \in R
      /\ reader' = reader \/ reader'.stage \in {"idle", "clear"}
  <2>1. reader \in R
    BY DEF LogInv, LogTypeOK
  <2>2. Unread \in R /\ [Unread EXCEPT !.stage = "clear"] \in R
    <3>1. <<>> \in Seq(Line)
      OBVIOUS
    <3>2. QED
      BY <3>1 DEF Unread
  <2>3. Unread.stage = "idle" /\ [Unread EXCEPT !.stage = "clear"].stage = "clear"
    BY DEF Unread
  <2>4. QED
    BY <1>1, <2>1, <2>2, <2>3
<1>3. LogTypeOK' /\ Names'
  BY <1>2, <1>1 DEF LogInv, LogTypeOK, Names, NoFile
<1>4. Reading'
  BY <1>2, <1>1, ReadingStays DEF Reading
<1>5. \A w \in Writer : written[w] <= written'[w] /\ (stage'[w] = "write" <=> stage[w] = "write")
  BY <1>1 DEF LogInv, LogTypeOK
<1>6. QED
  BY <1>1, <1>3, <1>4, <1>5, NamesMove

\* open: the file, or a new and empty one.
LEMMA OpenKeeps ==
  ASSUME LogInv, NEW w \in Writer, Open(w) PROVE LogInv'
<1> DEFINE n == Len(text)
<1>1. /\ n \in Nat /\ stage[w] = "open" /\ UNCHANGED <<old, written, reader>>
      /\ handle' = [handle EXCEPT ![w] = cur']
      /\ stage' = [stage EXCEPT ![w] = "write"]
  BY DEF Open, LogInv, LogTypeOK
<1>2. /\ text' \in Seq(Seq(Line)) /\ n <= Len(text') /\ cur' = Len(text')
      /\ cur' # NoFile /\ cur' \in Nat
      /\ \A x \in 1..n : text'[x] = text[x]
      /\ \A x \in 1..Len(text') : x > n => text'[x] = <<>> /\ x = cur'
  <2>1. CASE cur # NoFile
    BY <1>1, <2>1 DEF Open, LogInv, LogTypeOK, Names, NoFile
  <2>2. CASE cur = NoFile
    <3>1. <<>> \in Seq(Line) /\ text \in Seq(Seq(Line))
      BY DEF LogInv, LogTypeOK
    <3>2. text' = Append(text, <<>>) /\ cur' = Len(text')
      BY <2>2 DEF Open
    <3>3. QED
      BY <1>1, <3>1, <3>2, AppendIs DEF NoFile
  <2>3. QED
    BY <2>1, <2>2
<1>3. \A x \in 1..Len(text') : x \in 1..n \/ Len(text'[x]) = 0
  BY <1>1, <1>2
<1>4. LogTypeOK'
  BY <1>1, <1>2 DEF LogInv, LogTypeOK
<1>5. Names'
  BY <1>1, <1>2 DEF LogInv, LogTypeOK, Names, NoFile, Open
<1>6. Opened'
  <2> SUFFICES ASSUME NEW v \in Writer
               PROVE  /\ stage'[v] = "write" <=> handle'[v] # NoFile
                      /\ stage'[v] = "write" =>
                           \A x \in 1..Len(text') : x > handle'[v] =>
                             \A i \in 1..Len(text'[x]) : text'[x][i][1] # v
    BY DEF Opened
  <2>1. CASE v = w
    BY <1>1, <1>2, <2>1 DEF LogInv, LogTypeOK
  <2>2. CASE v # w
    <3>1. stage'[v] = stage[v] /\ handle'[v] = handle[v]
      BY <1>1, <2>2 DEF LogInv, LogTypeOK
    <3>2. \A x \in 1..n : x > handle[v] /\ stage[v] = "write" =>
            \A i \in 1..Len(text'[x]) : text'[x][i][1] # v
      BY <1>2 DEF LogInv, Opened
    <3>3. QED
      BY <1>3, <3>1, <3>2 DEF LogInv, Opened
  <2>3. QED
    BY <2>1, <2>2
<1>7. Numbered'
  <2> SUFFICES ASSUME NEW x \in 1..Len(text')
               PROVE  /\ \A i \in 1..Len(text'[x]) :
                           text'[x][i][2] < written[text'[x][i][1]]
                      /\ Ordered(text'[x])
                      /\ \A y \in 1..Len(text') : x < y => Before(text'[x], text'[y])
    BY <1>1 DEF Numbered
  <2>1. CASE x \in 1..n
    <3>1. \A y \in 1..Len(text') : x < y => Before(text'[x], text'[y])
      <4> SUFFICES ASSUME NEW y \in 1..Len(text'), x < y PROVE Before(text'[x], text'[y])
        OBVIOUS
      <4>1. CASE y \in 1..n
        BY <1>2, <2>1, <4>1 DEF LogInv, Numbered
      <4>2. CASE Len(text'[y]) = 0
        BY <4>2 DEF Before
      <4>3. QED
        BY <1>3, <4>1, <4>2
    <3>2. QED
      BY <1>2, <2>1, <3>1 DEF LogInv, Numbered
  <2>2. CASE Len(text'[x]) = 0
    BY <2>2 DEF Ordered, Before
  <2>3. QED
    BY <1>3, <2>1, <2>2
<1>8. Reading'
  <2>1. ASSUME NEW x \in 1..n, x # cur, Begins(reader.lines, text[x])
        PROVE  x \in 1..Len(text') /\ x # cur' /\ Begins(reader.lines, text'[x])
    <3>1. x # cur'
      BY <1>1, <1>2, <2>1 DEF Open, LogInv, LogTypeOK, Names
    <3>2. QED
      BY <1>1, <1>2, <2>1, <3>1
  <2>2. QED
    BY <1>1, <2>1 DEF LogInv, Reading, Ordered
<1>9. QED
  BY <1>4, <1>5, <1>6, <1>7, <1>8 DEF LogInv

\* write: one line more in the inode the writer has open, whatever it is by now.
LEMMA WriteLineKeeps ==
  ASSUME LogInv, NEW w \in Writer, WriteLine(w) PROVE LogInv'
<1>1. PICK h \in 1..Len(text) : h = handle[w]
  <2>1. handle[w] \in 0..Len(text) /\ handle[w] # 0 /\ Len(text) \in Nat
    BY LogTypes DEF WriteLine, LogInv, Opened, NoFile
  <2>2. QED
    BY <2>1
<1>2. PICK n \in Nat : n = written[w]
  BY DEF LogInv, LogTypeOK
<1>3. PICK e \in Line : e = <<w, n>> /\ e[1] = w /\ e[2] = n
  <2>1. <<w, n>> \in Line
    BY DEF Line
  <2>2. QED
    BY <2>1
<1>4. /\ stage[w] = "write" /\ UNCHANGED <<cur, old, reader>>
      /\ text' = [text EXCEPT ![h] = Append(@, e)]
      /\ handle' = [handle EXCEPT ![w] = NoFile]
      /\ written' = [written EXCEPT ![w] = n + 1]
      /\ stage' = [stage EXCEPT ![w] = Rest(w)]
      /\ Rest(w) \in {"idle", "on"}
  BY <1>1, <1>2, <1>3 DEF WriteLine, Rest
<1>5. PICK s \in Seq(Line) : s = text[h]
  BY DEF LogInv, LogTypeOK
<1>6. /\ text' \in Seq(Seq(Line)) /\ Len(text') = Len(text)
      /\ text'[h] = Append(s, e)
      /\ \A x \in 1..Len(text) : x # h => text'[x] = text[x]
  BY <1>4, <1>5 DEF LogInv, LogTypeOK
<1>7. /\ Len(text'[h]) = Len(s) + 1 /\ Len(s) \in Nat /\ text'[h][Len(s) + 1] = e
      /\ \A i \in 1..Len(s) : text'[h][i] = s[i]
  BY <1>6, AppendIs
<1>8. \A x \in 1..Len(text) : \A i \in 1..Len(text'[x]) :
         \/ i \in 1..Len(text[x]) /\ text'[x][i] = text[x][i]
         \/ x = h /\ text'[x][i] = e /\ i = Len(s) + 1
  <2> SUFFICES ASSUME NEW x \in 1..Len(text), NEW i \in 1..Len(text'[x])
               PROVE  \/ i \in 1..Len(text[x]) /\ text'[x][i] = text[x][i]
                      \/ x = h /\ text'[x][i] = e /\ i = Len(s) + 1
    OBVIOUS
  <2>1. CASE x # h
    BY <1>6, <2>1
  <2>2. CASE x = h
    <3>1. i \in 1..Len(s) \/ i = Len(s) + 1
      BY <1>7, <2>2
    <3>2. QED
      BY <1>5, <1>7, <2>2, <3>1
  <2>3. QED
    BY <2>1, <2>2
<1>9. LogTypeOK'
  BY <1>4, <1>6 DEF LogInv, LogTypeOK, NoFile
<1>10. Names'
  BY <1>4, <1>6 DEF LogInv, Names
<1>11. Opened'
  <2> SUFFICES ASSUME NEW v \in Writer
               PROVE  /\ stage'[v] = "write" <=> handle'[v] # NoFile
                      /\ stage'[v] = "write" =>
                           \A x \in 1..Len(text') : x > handle'[v] =>
                             \A i \in 1..Len(text'[x]) : text'[x][i][1] # v
    BY DEF Opened
  <2>1. CASE v = w
    BY <1>4, <2>1 DEF LogInv, LogTypeOK
  <2>2. CASE v # w
    <3>1. stage'[v] = stage[v] /\ handle'[v] = handle[v]
      BY <1>4, <2>2 DEF LogInv, LogTypeOK
    <3>2. \A x \in 1..Len(text) : x > handle[v] /\ stage[v] = "write" =>
            \A i \in 1..Len(text'[x]) : text'[x][i][1] # v
      BY <1>3, <1>8, <2>2 DEF LogInv, Opened
    <3>3. QED
      BY <1>6, <3>1, <3>2 DEF LogInv, Opened
  <2>3. QED
    BY <2>1, <2>2
<1>12. Numbered'
  <2> SUFFICES ASSUME NEW x \in 1..Len(text)
               PROVE  /\ \A i \in 1..Len(text'[x]) :
                           text'[x][i][2] < written'[text'[x][i][1]]
                      /\ Ordered(text'[x])
                      /\ \A y \in 1..Len(text) : x < y => Before(text'[x], text'[y])
    BY <1>6 DEF Numbered
  <2>1. \A i \in 1..Len(text[x]) :
          /\ text[x][i][1] \in Writer /\ text[x][i][2] \in Nat
          /\ text[x][i][2] < written[text[x][i][1]]
          /\ text[x][i][1] = w => text[x][i][2] < n
    <3> SUFFICES ASSUME NEW i \in 1..Len(text[x])
                 PROVE  /\ text[x][i][1] \in Writer /\ text[x][i][2] \in Nat
                        /\ text[x][i][2] < written[text[x][i][1]]
                        /\ text[x][i][1] = w => text[x][i][2] < n
      OBVIOUS
    <3>1. text[x][i] \in Line
      BY LogTypes
    <3>2. QED
      BY <1>2, <3>1 DEF LogInv, Numbered, Line
  <2>2. ASSUME NEW i \in 1..Len(text'[x])
        PROVE  text'[x][i][2] < written'[text'[x][i][1]]
    <3>1. \A v \in Writer : written[v] \in Nat
                              /\ written'[v] = IF v = w THEN n + 1 ELSE written[v]
      BY <1>2, <1>4 DEF LogInv, LogTypeOK
    <3>2. CASE i \in 1..Len(text[x]) /\ text'[x][i] = text[x][i]
      <4>1. PICK v \in Writer, m \in Nat : v = text[x][i][1] /\ m = text[x][i][2]
        BY <2>1, <3>2
      <4>2. m < written[v] /\ (v = w => m < n)
        BY <2>1, <3>2, <4>1
      <4>3. m < written'[v]
        <5>1. CASE v = w
          BY <3>1, <4>2, <5>1
        <5>2. CASE v # w
          BY <3>1, <4>2, <5>2
        <5>3. QED
          BY <5>1, <5>2
      <4>4. QED
        BY <3>2, <4>1, <4>3
    <3>3. CASE text'[x][i] = e
      BY <1>3, <3>1, <3>3
    <3>4. QED
      BY <1>8, <3>2, <3>3
  <2>3. Ordered(text'[x])
    <3>1. CASE x = h
      BY <1>3, <1>5, <1>6, <2>1, <3>1, OrderedAppend DEF LogInv, Numbered
    <3>2. CASE x # h
      BY <1>6, <3>2 DEF LogInv, Numbered
    <3>3. QED
      BY <3>1, <3>2
  <2>4. ASSUME NEW y \in 1..Len(text), x < y PROVE Before(text'[x], text'[y])
    <3> SUFFICES ASSUME NEW i \in 1..Len(text'[x]), NEW j \in 1..Len(text'[y]),
                        text'[x][i][1] = text'[y][j][1]
                 PROVE  text'[x][i][2] < text'[y][j][2]
      BY DEF Before
    <3>1. CASE x = h /\ text'[x][i] = e
      <4>1. y > h /\ y # h
        BY <2>4, <3>1
      <4>2. j \in 1..Len(text[y]) /\ text[y][j][1] = w
        BY <1>3, <1>6, <3>1, <4>1
      <4>3. QED
        BY <1>1, <1>4, <4>1, <4>2 DEF LogInv, Opened
    <3>2. CASE i \in 1..Len(text[x]) /\ text'[x][i] = text[x][i]
      <4>1. CASE text'[y][j] = e
        BY <1>3, <2>1, <3>2, <4>1
      <4>2. CASE j \in 1..Len(text[y]) /\ text'[y][j] = text[y][j]
        BY <2>4, <3>2, <4>2 DEF LogInv, Numbered, Before
      <4>3. QED
        BY <1>8, <4>1, <4>2
    <3>3. QED
      BY <1>8, <3>1, <3>2
  <2>5. QED
    BY <2>2, <2>3, <2>4
<1>13. Reading'
  <2>1. ASSUME NEW x \in 1..Len(text), Begins(reader.lines, text[x])
        PROVE  Begins(reader.lines, text'[x])
    <3>1. Len(text'[x]) \in Nat /\ Len(text[x]) <= Len(text'[x])
            /\ \A i \in 1..Len(text[x]) : text'[x][i] = text[x][i]
      <4>1. CASE x = h
        BY <1>5, <1>7, <4>1
      <4>2. CASE x # h
        BY <1>6, <4>2, LogTypes
      <4>3. QED
        BY <4>1, <4>2
    <3>2. Len(reader.lines) \in Nat /\ Len(text[x]) \in Nat
      BY LogTypes
    <3>3. Len(reader.lines) <= Len(text'[x])
      BY <2>1, <3>1, <3>2 DEF Begins
    <3>4. \A i \in 1..Len(reader.lines) : reader.lines[i] = text'[x][i]
      BY <2>1, <3>1, <3>2 DEF Begins
    <3>5. QED
      BY <3>3, <3>4 DEF Begins
  <2>2. QED
    BY <1>4, <1>6, <2>1 DEF LogInv, Reading, Ordered
<1>14. QED
  BY <1>9, <1>10, <1>11, <1>12, <1>13 DEF LogInv

\* The reader takes the rotated file, and later the file.
LEMMA ReadKeeps ==
  ASSUME LogInv, ReadOld \/ ReadCur PROVE LogInv'
<1>1. UNCHANGED <<text, cur, old, stage, handle, written>>
  BY DEF ReadOld, ReadCur
<1>2. Lines(old) \in Seq(Line) /\ Lines(cur) \in Seq(Line) /\ reader.lines \in Seq(Line)
  BY DEF LogInv, LogTypeOK, Lines, NoFile
<1>3. CASE ReadOld
  <2>1. reader' = [stage |-> "half", lines |-> Lines(old)]
    BY <1>3 DEF ReadOld
  <2>2. Lines(old) = <<>> \/ \E x \in 1..Len(text) : x # cur /\ Begins(Lines(old), text[x])
    BY <1>2 DEF Lines, Begins, LogInv, LogTypeOK, Names, NoFile
  <2>3. Reading'
    BY <1>1, <2>1, <2>2 DEF Reading
  <2>4. QED
    BY <1>1, <1>2, <2>1, <2>3, LinesStay DEF LogInv, LogTypeOK, Names
<1>4. CASE ReadCur
  <2> DEFINE s == reader.lines
             t == Lines(cur)
  <2>1. reader.stage = "half" /\ reader' = [stage |-> "read", lines |-> s \o t]
    BY <1>4 DEF ReadCur
  <2>2. Ordered(t)
    BY DEF Lines, LogInv, LogTypeOK, Numbered, NoFile, Ordered
  <2>3. Ordered(s) /\ Before(s, t)
    <3>1. CASE s = <<>>
      BY <3>1 DEF Ordered, Before
    <3>2. ASSUME NEW x \in 1..Len(text), x # cur, Begins(s, text[x])
          PROVE  Ordered(s) /\ Before(s, t)
      <4>1. /\ Len(text[x]) \in Nat /\ Len(s) \in Nat /\ Len(s) <= Len(text[x])
            /\ \A i \in 1..Len(s) : i \in 1..Len(text[x]) /\ s[i] = text[x][i]
        BY <1>2, <3>2 DEF LogInv, LogTypeOK, Begins
      <4>2. Ordered(s)
        BY <4>1 DEF LogInv, Numbered, Ordered
      <4>3. CASE cur = NoFile
        BY <4>2, <4>3 DEF Lines, Before
      <4>4. CASE cur # NoFile
        <5>1. cur \in 1..Len(text) /\ x < cur /\ t = text[cur]
          BY <3>2, <4>4 DEF Lines, LogInv, LogTypeOK, Names, NoFile
        <5>2. Before(text[x], text[cur])
          BY <5>1 DEF LogInv, Numbered
        <5>3. QED
          BY <4>1, <4>2, <5>1, <5>2 DEF Before
      <4>5. QED
        BY <4>3, <4>4
    <3>3. QED
      BY <2>1, <3>1, <3>2 DEF LogInv, Reading
  <2>4. Ordered(s \o t) /\ s \o t \in Seq(Line)
    BY <1>2, <2>2, <2>3, OrderedConcat
  <2> HIDE DEF s, t
  <2>5. Reading' /\ reader'.lines \in Seq(Line) /\ reader'.stage = "read"
    BY <2>1, <2>4 DEF Reading
  <2>6. QED
    BY <1>1, <2>1, <2>4, <2>5, LinesStay DEF LogInv, LogTypeOK, Names
<1>5. QED
  BY <1>3, <1>4

LEMMA LogNextKeeps == LogInv /\ [LogNext]_logVars => LogInv'
<1> SUFFICES ASSUME LogInv, [LogNext]_logVars PROVE LogInv'
  OBVIOUS
<1>1. CASE UNCHANGED logVars
  <2>1. UNCHANGED <<text, cur, old, stage, handle, written, reader>>
    BY <1>1 DEF logVars
  <2>2. LogTypeOK' /\ Names' /\ Reading'
    BY <2>1, ReadingStays DEF LogInv, LogTypeOK, Names
  <2>3. QED
    BY <2>1, <2>2, LinesStay DEF LogInv
<1>2. QED
  BY <1>1, StatKeeps, OpenKeeps, WriteLineKeeps, UserKeeps, ReadKeeps DEF LogNext

LEMMA LogInvariance == LogSpec => []LogInv
BY LogInitOk, LogNextKeeps, PTL DEF LogSpec

(* However many processes append to the trace and rotate it, without a     *)
(* lock, `show` prints the lines of each in the order they were written,   *)
(* and none twice.                                                         *)
THEOREM TraceInOrder == LogSpec => []WriterOrder
<1>1. LogInv => WriterOrder
  <2> SUFFICES ASSUME LogInv PROVE WriterOrder
    OBVIOUS
  <2>1. DOMAIN reader.lines = 1..Len(reader.lines)
    BY LogTypes
  <2>2. QED
    BY <2>1 DEF LogInv, Reading, Ordered, WriterOrder
<1>2. QED
  BY <1>1, LogInvariance, PTL

-----------------------------------------------------------------------------
\* init.  A file that is not Unsafe when planned, and Junk if it is to be
\* replaced, makes no check of apply fail; what is planned is the merge of both
\* files for one program.
Planned ==
  /\ \A f \in Target :
       /\ before[f] # Unsafe
       /\ plan[f].action = "replace" => before[f] \in Junk
       /\ plan[f].action = "unchanged" => plan[f].content = before[f]
  /\ \E program \in {Exe, Bare} :
       [f \in Target |-> plan[f].content] = Merged(program)

\* Where a run is, and what it has changed of the two files by then, if nobody
\* else did and not two calls have failed.
Underway ==
  /\ step \in {"originals"} \cup {Backing[f] : f \in Target} \cup {Writing[f] : f \in Target}
  /\ result = None /\ Planned
  /\ ~touched =>
       /\ step \in {"originals", "backupLocal", "writeLocal"} => file = before
       /\ step \in {"backupMcp", "writeMcp"} =>
            /\ file["mcp"] = before["mcp"]
            /\ file["local"] = plan["local"].content
       /\ step # "originals" => original = before \/ failed >= 1

SetupInv ==
  /\ file = [f \in Target |-> file[f]] /\ before = [f \in Target |-> before[f]]
  /\ failed \in Nat
  /\ step # "idle" => Underway
  /\ step = "idle" => AllOrNothing

LEMMA StepsDiffer ==
  /\ Target = {"local", "mcp"}
  /\ Backing["local"] = "backupLocal" /\ Backing["mcp"] = "backupMcp"
  /\ Writing["local"] = "writeLocal" /\ Writing["mcp"] = "writeMcp"
  BY DEF Target, Backing, Writing

LEMMA PlannedContent ==
  ASSUME NEW f \in Target, NEW program, NEW force
  PROVE  LET p == PlanFile(f, program, force) IN
         /\ p.action = "replace" => file[f] \in Junk
         /\ p.action = "unchanged" => p.content = file[f]
         /\ p.content = Merge(f, IF IsJson(file[f]) THEN file[f] ELSE Empty, program)
<1> DEFINE new == Merge(f, IF IsJson(file[f]) THEN file[f] ELSE Empty, program)
<1>1. PlanFile(f, program, force) =
        CASE file[f] = Absent -> [action |-> "create", content |-> new]
          [] file[f] \in Junk -> [action |-> IF force THEN "replace" ELSE "error", content |-> new]
          [] file[f] = new -> [action |-> "unchanged", content |-> file[f]]
          [] OTHER -> [action |-> "update", content |-> new]
  BY DEF PlanFile
<1> HIDE DEF new
<1>2. LET p == PlanFile(f, program, force) IN
      /\ p.action = "replace" => file[f] \in Junk
      /\ p.action = "unchanged" => p.content = file[f]
      /\ p.content = new
  BY <1>1
<1>3. QED
  BY <1>2 DEF new

LEMMA PlanKeeps ==
  ASSUME SetupInv, NEW path, NEW force, NEW dry, Plan(path, force, dry) PROVE SetupInv'
<1> DEFINE p == [f \in Target |-> PlanFile(f, ProgramFor(path), force)]
<1>1. /\ file' = file /\ before' = file /\ touched' = FALSE /\ failed' = 0
  BY DEF Plan, trees
<1>2. CASE step' = "idle"
  <2>1. result' \in {"error", None}
    BY <1>2 DEF Plan, Finish
  <2>2. AllOrNothing'
    BY <1>1, <2>1, SetupAssumption DEF AllOrNothing
  <2>3. QED
    BY <1>1, <1>2, <2>2 DEF SetupInv
<1>3. CASE step' # "idle"
  <2>1. /\ \A f \in Target : file[f] # Unsafe
        /\ plan' = p /\ step' = "originals" /\ result' = None
    BY <1>3 DEF Plan, Finish
  <2>2. /\ ProgramFor(path) \in {Exe, Bare}
        /\ \A f \in Target :
             /\ p[f].action = "replace" => file[f] \in Junk
             /\ p[f].action = "unchanged" => p[f].content = file[f]
             /\ p[f].content =
                  Merge(f, IF IsJson(file[f]) THEN file[f] ELSE Empty, ProgramFor(path))
    BY PlannedContent DEF ProgramFor
  <2> HIDE DEF p
  <2>3. Planned'
    <3>1. [f \in Target |-> p[f].content] = Merged(ProgramFor(path))'
      BY <1>1, <2>2, Zenon DEF Merged
    <3>2. [f \in Target |-> plan[f].content]' = Merged(ProgramFor(path))'
      BY <2>1, <3>1
    <3>3. \E program \in {Exe, Bare} : [f \in Target |-> plan[f].content]' = Merged(program)'
      <4>1. PICK x \in {Exe, Bare} : x = ProgramFor(path)
        BY <2>2
      <4>2. Merged(x)' = Merged(ProgramFor(path))'
        BY <4>1 DEF Merged
      <4>3. QED
        BY <3>2, <4>2
    <3>4. QED
      BY <1>1, <2>1, <2>2, <3>3 DEF Planned
  <2>4. Underway'
    BY <1>1, <2>1, <2>3, StepsDiffer DEF Underway
  <2>5. QED
    BY <1>1, <1>3, <2>4 DEF SetupInv
<1>4. QED
  BY <1>2, <1>3

LEMMA PlannedStays == ASSUME Planned, plan' = plan, before' = before PROVE Planned'
<1>1. \A program : Merged(program)' = Merged(program)
  BY DEF Merged
<1>2. [f \in Target |-> plan[f].content]' = [f \in Target |-> plan[f].content]
  OBVIOUS
<1>3. QED
  BY <1>1, <1>2 DEF Planned

LEMMA OriginalsKeeps == ASSUME SetupInv, Originals PROVE SetupInv'
<1>1. /\ step = "originals" /\ step' = "backupLocal"
      /\ UNCHANGED <<file, plan, result, before, touched>>
      /\ \/ original' = file /\ failed' = failed
         \/ failed' = failed + 1
  BY DEF Originals, mishaps, Mishaps, trees, history
<1>2. Underway
  BY <1>1 DEF SetupInv
<1>3. PICK k \in Nat : k = failed
  BY DEF SetupInv
<1>4. failed' \in Nat /\ (original' = file \/ failed' >= 1)
  BY <1>1, <1>3
<1>5. Underway'
  BY <1>1, <1>2, <1>4, PlannedStays, StepsDiffer DEF Underway
<1>6. QED
  BY <1>1, <1>4, <1>5, StepsDiffer DEF SetupInv

\* A run that ends in an error has undone what it wrote.
LEMMA FailsKeeps ==
  ASSUME SetupInv, NEW f \in Target, NEW n \in {0, 1}, step \in {Backing[f], Writing[f]},
         Fails(f, n), n = 0 => touched, UNCHANGED <<before, touched>>
  PROVE  SetupInv'
<1>1. /\ Underway /\ step # "originals"
  BY StepsDiffer DEF SetupInv
<1>2. step' = "idle" /\ failed' \in {failed + n, failed + n + 1} /\ failed' \in Nat
  BY DEF Fails, Finish, Mishaps, SetupInv
<1>3. file' = file \/ file' = [file EXCEPT !["local"] = original["local"]]
  BY DEF Fails, Rollback
<1>4. file' = [g \in Target |-> file'[g]]
  BY <1>3 DEF SetupInv
<1>5. ASSUME ~touched, failed' <= 1 PROVE file' = before
  <2>1. n = 1 /\ failed = 0 /\ failed' = failed + n
    <3>1. PICK k \in Nat : k = failed
      BY DEF SetupInv
    <3>2. QED
      BY <1>2, <1>5, <3>1
  <2>2. original = before
    BY <1>1, <1>5, <2>1 DEF Underway
  <2>3. Rollback(f)
    BY <2>1 DEF Fails, Mishaps
  <2>4. CASE f = "local"
    BY <1>1, <1>5, <2>3, <2>4, StepsDiffer DEF Rollback, Underway
  <2>5. CASE f = "mcp"
    <3>1. /\ file["mcp"] = before["mcp"]
          /\ plan["local"].action = "unchanged" => file["local"] = before["local"]
      BY <1>1, <1>5, <2>5, StepsDiffer DEF Underway, Planned
    <3>2. file'["local"] = before["local"] /\ file'["mcp"] = before["mcp"]
      BY <2>2, <2>3, <2>5, <3>1, StepsDiffer DEF Rollback, SetupInv
    <3>3. QED
      BY <1>4, <3>2, StepsDiffer DEF SetupInv
  <2>6. QED
    BY <2>4, <2>5, StepsDiffer
<1>6. result' = "error"
  BY DEF Fails, Finish
<1>7. AllOrNothing'
  BY <1>5, <1>6 DEF AllOrNothing
<1>8. QED
  BY <1>2, <1>4, <1>7 DEF SetupInv

LEMMA BackUpKeeps == ASSUME SetupInv, NEW f \in Target, BackUp(f) PROVE SetupInv'
<1>1. /\ step = Backing[f] /\ Underway /\ step # "originals"
      /\ UNCHANGED <<before, touched>>
  BY StepsDiffer DEF BackUp, history, SetupInv
<1>2. ~touched => file[f] = before[f]
  BY <1>1, StepsDiffer DEF Underway
<1>3. CASE \/ plan[f].action # "unchanged" /\ file[f] = Unsafe
           \/ plan[f].action = "replace" /\ file[f] = Absent
  <2>1. Fails(f, 0)
    BY <1>3 DEF BackUp
  <2>2. touched
    BY <1>1, <1>2, <1>3, SetupAssumption DEF Underway, Planned
  <2>3. QED
    BY <1>1, <2>1, <2>2, FailsKeeps
<1>4. CASE ~(\/ plan[f].action # "unchanged" /\ file[f] = Unsafe
             \/ plan[f].action = "replace" /\ file[f] = Absent)
  <2>1. step' = Writing[f] /\ UNCHANGED <<file, plan, original, result, failed>>
    BY <1>4 DEF BackUp, mishaps
  <2>2. Underway'
    BY <1>1, <2>1, PlannedStays, StepsDiffer DEF Underway
  <2>3. step' # "idle"
    BY <2>1, StepsDiffer
  <2>4. QED
    BY <1>1, <2>1, <2>2, <2>3 DEF SetupInv
<1>5. QED
  BY <1>3, <1>4

LEMMA WriteFileKeeps == ASSUME SetupInv, NEW f \in Target, WriteFile(f) PROVE SetupInv'
<1>1. /\ step = Writing[f] /\ Underway /\ step # "originals"
      /\ UNCHANGED <<before, touched, failed>>
      /\ file' = (IF plan[f].action = "unchanged" THEN file
                  ELSE [file EXCEPT ![f] = plan[f].content])
  BY StepsDiffer DEF WriteFile, history, mishaps, SetupInv
<1>2. file' = [g \in Target |-> file'[g]] /\ \A g \in Target \ {f} : file'[g] = file[g]
  BY <1>1 DEF SetupInv
<1>3. CASE f = "local"
  <2>1. step' = "backupMcp" /\ UNCHANGED <<plan, original, result>>
    BY <1>3 DEF WriteFile
  <2>2. ~touched => file'["local"] = plan["local"].content
    BY <1>1, <1>3, StepsDiffer DEF Underway, Planned, SetupInv
  <2>3. Underway'
    BY <1>1, <1>2, <1>3, <2>1, <2>2, PlannedStays, StepsDiffer DEF Underway
  <2>4. QED
    BY <1>1, <1>2, <2>1, <2>3, StepsDiffer DEF SetupInv
<1>4. CASE f # "local"
  <2>1. f = "mcp" /\ step' = "idle" /\ result' = "ok"
    BY <1>4, StepsDiffer DEF WriteFile, Finish
  <2>2. ~touched => file' = [g \in Target |-> plan[g].content]
    <3> SUFFICES ASSUME ~touched PROVE file' = [g \in Target |-> plan[g].content]
      OBVIOUS
    <3>1. file'["mcp"] = plan["mcp"].content /\ file'["local"] = plan["local"].content
      BY <1>1, <1>2, <2>1, StepsDiffer DEF Underway, Planned, SetupInv
    <3>2. QED
      BY <1>2, <3>1, StepsDiffer
  <2>3. \E program \in {Exe, Bare} : [g \in Target |-> plan[g].content] = Merged(program)
    BY <1>1 DEF Underway, Planned
  <2>4. \A program : Merged(program)' = Merged(program)
    BY <1>1 DEF Merged
  <2>5. AllOrNothing'
    BY <1>1, <2>1, <2>2, <2>3, <2>4 DEF AllOrNothing
  <2>6. QED
    BY <1>1, <1>2, <2>1, <2>5 DEF SetupInv
<1>5. QED
  BY <1>3, <1>4

LEMMA SetupNextKeeps == SetupInv /\ [SetupNext]_setupVars => SetupInv'
<1> SUFFICES ASSUME SetupInv, [SetupNext]_setupVars PROVE SetupInv'
  OBVIOUS
<1>1. ASSUME NEW f \in Target, CallFails(f) PROVE SetupInv'
  BY <1>1, FailsKeeps DEF CallFails, history
<1>2. ASSUME NEW f \in Target, Edit(f) PROVE SetupInv'
  <2>1. /\ touched' = TRUE /\ UNCHANGED <<step, plan, original, result, before, failed>>
        /\ file' = [g \in Target |-> file'[g]]
    BY <1>2 DEF Edit, mishaps, SetupInv
  <2>2. AllOrNothing'
    BY <2>1 DEF AllOrNothing
  <2>3. QED
    BY <2>1, <2>2, PlannedStays DEF SetupInv, Underway
<1>3. CASE Killed
  <2>1. result' = "killed" /\ file' = file /\ before' = before /\ failed' = failed + 1
    BY <1>3 DEF Killed, Finish, Mishaps, trees, history
  <2>2. AllOrNothing'
    BY <2>1 DEF AllOrNothing
  <2>3. QED
    BY <1>3, <2>1, <2>2 DEF Killed, Finish, SetupInv
<1>4. CASE UNCHANGED setupVars
  <2>1. UNCHANGED <<file, before, plan, original, step, result, touched, failed>>
    BY <1>4 DEF setupVars
  <2>2. \A program : Merged(program)' = Merged(program)
    BY <2>1 DEF Merged
  <2>3. AllOrNothing' = AllOrNothing
    BY <2>1, <2>2 DEF AllOrNothing
  <2>4. QED
    BY <2>1, <2>3, PlannedStays DEF SetupInv, Underway
<1>5. QED
  BY <1>1, <1>2, <1>3, <1>4, PlanKeeps, OriginalsKeeps, BackUpKeeps, WriteFileKeeps
  DEF SetupNext

LEMMA SetupInvariance == SetupSpec => []SetupInv
<1>1. SetupInit => SetupInv
  BY SetupAssumption DEF SetupInit, SetupInv, AllOrNothing
<1>2. QED
  BY <1>1, SetupNextKeeps, PTL DEF SetupSpec

(* A run of init that reports an error has left both files as they were,   *)
(* if at most one call failed in it, and one that reports success has      *)
(* merged both, for one program, with what they held; if nobody else wrote *)
(* them.  Whatever they held, and wherever a call fails.                   *)
THEOREM InitAllOrNothing == SetupSpec => []AllOrNothing
<1>1. SetupInv => AllOrNothing
  BY SetupAssumption DEF SetupInv, Underway, AllOrNothing
<1>2. QED
  BY <1>1, SetupInvariance, PTL

(* doctor's verdict: whatever the settings and the machine, exit code 0    *)
(* means that the hooks can run and that there is, or can be, a Moon.      *)
THEOREM DoctorIsRight == SetupSpec => []ExitZeroServable
<1>1. ExitZeroServable
  <2> SUFFICES ASSUME NEW m \in Machine, ExitCode(Range(Checks(m))) = 0
               PROVE  /\ Servable(m)
                      /\ \/ PluginEnabled(Scopes(m))
                         \/ \A e \in Event :
                              \E h \in HooksIn(Scopes(m)[1], e) \cup HooksIn(Scopes(m)[2], e) :
                                Runs[h] \in Found
    BY DEF ExitZeroServable
  <2>1. \A c \in {"moon", "auth", "hooks"} : Checks(m)[c] # "fail"
    BY DEF ExitCode, Range, Checks
  <2>2. /\ CheckMoon(m.bin, m.probe) # "fail" /\ CheckAuth(m.probe) # "fail"
        /\ CheckHooks(Scopes(m)[1], Scopes(m)[2], Scopes(m)[3]) # "fail"
    BY <2>1 DEF Checks, Scopes
  <2>3. Servable(m)
    BY <2>2 DEF CheckMoon, CheckAuth, Servable
  <2>4. ASSUME ~PluginEnabled(Scopes(m)), NEW e \in Event
        PROVE  \E h \in HooksIn(Scopes(m)[1], e) \cup HooksIn(Scopes(m)[2], e) : Runs[h] \in Found
    <3>1. Scopes(m) = <<Scopes(m)[1], Scopes(m)[2], Scopes(m)[3]>>
      BY DEF Scopes
    <3>2. QED
      BY <2>2, <2>4, <3>1 DEF CheckHooks
  <2>5. QED
    BY <2>3, <2>4
<1>2. QED
  BY <1>1, PTL

-----------------------------------------------------------------------------
\* What init may have made of a file.
Mergeable(c) == IF IsJson(c) THEN c ELSE Empty
MergeOf(f, v) == \E p \in {Exe, Bare} : v = Merge(f, Mergeable(before[f]), p)

\* The file is as it was, or merged into what it was, which is in it or backed
\* up.
Kept(f) ==
  \/ before[f] \in {Absent, file[f]}
  \/ MergeOf(f, file[f]) /\ (IsJson(before[f]) \/ bak[f] = before[f])

Plans ==
  \A f \in Target : plan[f].action # "unchanged" =>
    /\ MergeOf(f, plan[f].content)
    /\ before[f] \in Junk => plan[f].action = "replace"

BackedUp(f) == plan[f].action = "replace" => bak[f] = before[f]

SavedInv ==
  /\ bak = [f \in Target |-> bak[f]]
  /\ step # "idle" => Plans
  /\ ~touched /\ failed <= 1 => \A f \in Target : Kept(f)
  /\ ~touched /\ step \in {"writeLocal", "backupMcp", "writeMcp"} => BackedUp("local")
  /\ ~touched /\ step = "writeMcp" => BackedUp("mcp")

LEMMA PlanSaves ==
  ASSUME SavedInv, NEW path, NEW force, NEW dry, Plan(path, force, dry) PROVE SavedInv'
<1> DEFINE p == [f \in Target |-> PlanFile(f, ProgramFor(path), force)]
<1>1. /\ file' = file /\ bak' = bak /\ before' = file
      /\ step' = "idle" \/ (step' = "originals" /\ plan' = p)
      /\ step' = "originals" => \A f \in Target : p[f].action # "error"
  <2>1. CASE \/ \E f \in Target : file[f] = Unsafe \/ p[f].action = "error"
             \/ \E f \in Target : p[f].action = "replace" /\ bak[f] = Unsafe
             \/ dry
    BY <2>1 DEF Plan, Finish, trees
  <2>2. CASE ~(\/ \E f \in Target : file[f] = Unsafe \/ p[f].action = "error"
               \/ \E f \in Target : p[f].action = "replace" /\ bak[f] = Unsafe
               \/ dry)
    BY <2>2 DEF Plan, trees
  <2>3. QED
    BY <2>1, <2>2
<1>2. ProgramFor(path) \in {Exe, Bare}
  BY DEF ProgramFor
<1>3. \A f \in Target : Kept(f)'
  BY <1>1 DEF Kept
<1>4. step' = "originals" => Plans'
  <2> SUFFICES ASSUME step' = "originals", NEW f \in Target, p[f].action # "unchanged"
               PROVE  /\ \E x \in {Exe, Bare} : p[f].content = Merge(f, Mergeable(file[f]), x)
                      /\ file[f] \in Junk => p[f].action = "replace"
    BY <1>1 DEF Plans, MergeOf
  <2> DEFINE new == Merge(f, Mergeable(file[f]), ProgramFor(path))
  <2>1. p[f] = CASE file[f] = Absent -> [action |-> "create", content |-> new]
                 [] file[f] \in Junk -> [action |-> IF force THEN "replace" ELSE "error",
                                         content |-> new]
                 [] file[f] = new -> [action |-> "unchanged", content |-> file[f]]
                 [] OTHER -> [action |-> "update", content |-> new]
    BY DEF PlanFile, Mergeable
  <2> HIDE DEF p, new
  <2>2. p[f].content = new
    BY <2>1
  <2>3. file[f] \in Junk => p[f].action = "replace"
    BY <1>1, <2>1, SetupAssumption
  <2>4. QED
    BY <1>2, <2>2, <2>3 DEF new
<1>5. QED
  BY <1>1, <1>3, <1>4 DEF SavedInv

\* An error leaves the files as they were, if at most one call failed.
LEMMA ErrorSaves ==
  ASSUME SavedInv, SetupInv', step' = "idle", result' = "error", UNCHANGED bak
  PROVE  SavedInv'
<1>1. AllOrNothing'
  BY DEF SetupInv
<1>2. ~touched' /\ failed' <= 1 => file' = before'
  BY <1>1 DEF AllOrNothing
<1>3. QED
  BY <1>2 DEF SavedInv, Kept

LEMMA OriginalsSaves == ASSUME SavedInv, SetupInv, Originals PROVE SavedInv'
<1>1. /\ step # "idle" /\ step' = "backupLocal"
      /\ UNCHANGED <<file, bak, plan, before, touched>>
      /\ failed' \in {failed, failed + 1}
  BY DEF Originals, mishaps, Mishaps, trees, history
<1>2. PICK k \in Nat : k = failed
  BY DEF SetupInv
<1>3. failed' <= 1 => failed <= 1
  BY <1>1, <1>2
<1>4. QED
  BY <1>1, <1>3 DEF SavedInv, Plans, MergeOf, Kept

LEMMA BackUpSaves ==
  ASSUME SavedInv, SetupInv, SetupInv', NEW f \in Target, BackUp(f) PROVE SavedInv'
<1>1. /\ step = Backing[f] /\ Underway /\ step # "originals" /\ step # "idle"
      /\ UNCHANGED <<before, touched>>
  BY StepsDiffer DEF BackUp, history, SetupInv
<1>2. ~touched => file[f] = before[f]
  BY <1>1, StepsDiffer DEF Underway
<1>3. CASE \/ plan[f].action # "unchanged" /\ file[f] = Unsafe
           \/ plan[f].action = "replace" /\ file[f] = Absent
  BY <1>3, ErrorSaves DEF BackUp, Fails, Finish
<1>4. CASE ~(\/ plan[f].action # "unchanged" /\ file[f] = Unsafe
             \/ plan[f].action = "replace" /\ file[f] = Absent)
  <2>1. /\ step' = Writing[f] /\ UNCHANGED <<file, plan, failed>>
        /\ bak' = IF plan[f].action = "replace" THEN [bak EXCEPT ![f] = file[f]] ELSE bak
    BY <1>4 DEF BackUp, mishaps
  <2>2. /\ bak' = [g \in Target |-> bak'[g]]
        /\ \A g \in Target \ {f} : bak'[g] = bak[g]
        /\ plan[f].action = "replace" => bak'[f] = file[f]
        /\ plan[f].action # "replace" => bak'[f] = bak[f]
    BY <2>1 DEF SavedInv
  <2>3. Plans'
    BY <1>1, <2>1 DEF SavedInv, Plans, MergeOf
  <2>4. ASSUME ~touched, NEW g \in Target, Kept(g) PROVE Kept(g)'
    BY <1>1, <1>2, <2>1, <2>2, <2>4 DEF Kept, MergeOf
  <2>5. ~touched => BackedUp(f)'
    BY <1>1, <1>2, <2>1, <2>2 DEF BackedUp
  <2>6. ASSUME ~touched, f = "mcp" PROVE BackedUp("local")'
    BY <1>1, <2>1, <2>2, <2>6, StepsDiffer DEF SavedInv, BackedUp
  <2>7. QED
    BY <1>1, <2>1, <2>2, <2>3, <2>4, <2>5, <2>6, StepsDiffer DEF SavedInv
<1>5. QED
  BY <1>3, <1>4

LEMMA WriteFileSaves ==
  ASSUME SavedInv, SetupInv, NEW f \in Target, WriteFile(f) PROVE SavedInv'
<1>1. /\ step = Writing[f] /\ Underway /\ step # "idle"
      /\ UNCHANGED <<bak, before, touched, failed>>
      /\ file' = (IF plan[f].action = "unchanged" THEN file
                  ELSE [file EXCEPT ![f] = plan[f].content])
  BY StepsDiffer DEF WriteFile, history, mishaps, SetupInv
<1>2. /\ \A g \in Target \ {f} : file'[g] = file[g]
      /\ plan[f].action = "unchanged" => file'[f] = file[f]
      /\ plan[f].action # "unchanged" => file'[f] = plan[f].content
  BY <1>1 DEF SetupInv
<1>3. ASSUME ~touched, Kept(f) PROVE Kept(f)'
  <2>1. CASE plan[f].action = "unchanged"
    BY <1>1, <1>2, <1>3, <2>1 DEF Kept, MergeOf
  <2>2. CASE plan[f].action # "unchanged"
    <3>1. MergeOf(f, plan[f].content) /\ (before[f] \in Junk => plan[f].action = "replace")
      BY <1>1, <2>2 DEF SavedInv, Plans
    <3>2. BackedUp(f)
      BY <1>1, <1>3, StepsDiffer DEF SavedInv
    <3>3. before[f] # Unsafe
      BY <1>1 DEF Underway, Planned
    <3>4. before[f] = Absent \/ IsJson(before[f]) \/ bak[f] = before[f]
      BY <3>1, <3>2, <3>3 DEF IsJson, BackedUp
    <3>5. MergeOf(f, file[f])'
      BY <1>1, <1>2, <2>2, <3>1 DEF MergeOf
    <3>6. QED
      BY <1>1, <3>4, <3>5 DEF Kept
  <2>3. QED
    BY <2>1, <2>2
<1>4. ASSUME ~touched, NEW g \in Target, Kept(g) PROVE Kept(g)'
  BY <1>1, <1>2, <1>3, <1>4 DEF Kept, MergeOf
<1>5. CASE f = "local"
  <2>1. step' = "backupMcp" /\ plan' = plan
    BY <1>5 DEF WriteFile
  <2>2. Plans'
    BY <1>1, <2>1 DEF SavedInv, Plans, MergeOf
  <2>3. ~touched => BackedUp("local")'
    BY <1>1, <1>5, <2>1, StepsDiffer DEF SavedInv, BackedUp
  <2>4. QED
    BY <1>1, <1>4, <2>1, <2>2, <2>3 DEF SavedInv
<1>6. CASE f # "local"
  BY <1>1, <1>4, <1>6 DEF SavedInv, WriteFile, Finish
<1>7. QED
  BY <1>5, <1>6

LEMMA SavedKeeps ==
  SetupInv /\ SetupInv' /\ SavedInv /\ [SetupNext]_setupVars => SavedInv'
<1> SUFFICES ASSUME SetupInv, SetupInv', SavedInv, [SetupNext]_setupVars PROVE SavedInv'
  OBVIOUS
<1>1. ASSUME NEW f \in Target, CallFails(f) PROVE SavedInv'
  BY <1>1, ErrorSaves DEF CallFails, Fails, Finish
<1>2. ASSUME NEW f \in Target, Edit(f) PROVE SavedInv'
  <2>1. touched' = TRUE /\ UNCHANGED <<bak, step, plan, before>>
    BY <1>2 DEF Edit
  <2>2. QED
    BY <2>1 DEF SavedInv, Plans, MergeOf
<1>3. CASE Killed
  <2>1. step' = "idle" /\ UNCHANGED <<file, bak, before, touched>> /\ failed' = failed + 1
    BY <1>3 DEF Killed, Finish, Mishaps, trees, history
  <2>2. PICK k \in Nat : k = failed
    BY DEF SetupInv
  <2>3. failed' <= 1 => failed <= 1
    BY <2>1, <2>2
  <2>4. QED
    BY <2>1, <2>3 DEF SavedInv, Kept, MergeOf
<1>4. CASE UNCHANGED setupVars
  BY <1>4 DEF setupVars, SavedInv, Plans, Kept, MergeOf, BackedUp
<1>5. QED
  BY <1>1, <1>2, <1>3, <1>4, PlanSaves, OriginalsSaves, BackUpSaves, WriteFileSaves
  DEF SetupNext

LEMMA SavedInvariance == SetupSpec => []SavedInv
<1>1. SetupInit => SavedInv
  BY SetupAssumption DEF SetupInit, SavedInv, Kept
<1>2. QED
  BY <1>1, SetupInvariance, SavedKeeps, PTL DEF SetupSpec

-----------------------------------------------------------------------------
\* Merging: laya-codex's handlers go, and what else the groups held stays.
LEMMA OthersStay ==
  ASSUME NEW S, NEW g \in Seq(S), NEW h \in LayaHook
  PROVE  ForeignGroups(Append(Stripped(g), {h})) = ForeignGroups(g)
<1>a. PICK q : q = Others(g)
  OBVIOUS
<1>b. PICK K : K = {i \in DOMAIN g : g[i] = {} \/ q[i] # {}}
  OBVIOUS
<1>c. PICK T : T = {i \in DOMAIN g : q[i] # {}}
  OBVIOUS
<1>d. PICK r : r = At(q, K)
  OBVIOUS
<1>e. PICK n : n = Cardinality(K)
  OBVIOUS
<1>f. PICK m : m = Append(r, {h})
  OBVIOUS
<1>g. PICK o : o = Others(m)
  OBVIOUS
<1>h. PICK U : U = {Place(K, i) : i \in T}
  OBVIOUS
<1>1. IsFiniteSet(K) /\ K \subseteq Int /\ T \in SUBSET K
  <2>1. DOMAIN g = 1..Len(g) /\ Len(g) \in Nat
    OBVIOUS
  <2>2. IsFiniteSet(1..Len(g)) /\ K \in SUBSET (1..Len(g))
    BY <1>b, <2>1, FS_Interval
  <2>3. QED BY <1>b, <1>c, <2>1, <2>2, FS_Subset
<1>2. n \in Nat /\ \A i \in K : Place(K, i) \in 1..n
  BY <1>1, <1>e, PlacesAre
<1>3. \A k \in 1..n : Chosen(K, k) \in K /\ Place(K, Chosen(K, k)) = k
  BY <1>1, <1>e, PlacesAre
<1>4. \A i \in K : r[Place(K, i)] = q[i]
  BY <1>1, <1>d, AtIs
<1>5. DOMAIN r = 1..n /\ r = [k \in 1..n |-> r[k]]
  BY <1>d, <1>e DEF At
<1>6. /\ DOMAIN m = 1..(n + 1) /\ m[n + 1] = {h}
      /\ \A k \in 1..n : m[k] = r[k]
  <2>1. PICK R : R = {r[k] : k \in 1..n} \cup {{h}}
    OBVIOUS
  <2>2. \A k \in 1..n : r[k] \in R
    BY <2>1
  <2>3. r \in Seq(R) /\ Len(r) = n /\ {h} \in R
    BY <1>2, <1>5, <2>1, <2>2
  <2>4. QED BY <1>f, <2>3
<1>7. \A k \in 1..n : r[k] \cap LayaHook = {}
  <2>1. \A i \in K : q[i] \cap LayaHook = {}
    BY <1>a, <1>b DEF Others
  <2>2. ASSUME NEW k \in 1..n PROVE r[k] \cap LayaHook = {}
    <3>1. PICK i \in K : Place(K, i) = k
      BY <1>3
    <3>2. QED BY <1>4, <2>1, <3>1
  <2>3. QED BY <2>2
<1>8. o[n + 1] = {} /\ \A k \in 1..n : o[k] = r[k]
  <2>1. \A k \in DOMAIN m : o[k] = m[k] \ LayaHook
    BY <1>g DEF Others
  <2>2. n + 1 \in DOMAIN m /\ \A k \in 1..n : k \in DOMAIN m
    BY <1>2, <1>6
  <2>3. QED BY <1>6, <1>7, <2>1, <2>2
<1>9. {k \in DOMAIN m : o[k] # {}} = U
  <2>1. ASSUME NEW k \in DOMAIN m, o[k] # {} PROVE k \in U
    <3>1. k \in 1..n
      BY <1>2, <1>6, <1>8, <2>1
    <3>2. PICK i \in K : Place(K, i) = k
      BY <1>3, <3>1
    <3>3. q[i] # {}
      BY <1>4, <1>8, <2>1, <3>1, <3>2
    <3>4. i \in T
      BY <1>b, <1>c, <3>3
    <3>5. QED BY <1>h, <3>2, <3>4
  <2>2. ASSUME NEW i \in T PROVE Place(K, i) \in DOMAIN m /\ o[Place(K, i)] # {}
    <3>1. Place(K, i) \in 1..n /\ r[Place(K, i)] = q[i] /\ q[i] # {}
      BY <1>1, <1>2, <1>4, <1>c
    <3>2. QED BY <1>2, <1>6, <1>8, <3>1
  <2>3. QED BY <1>h, <2>1, <2>2
<1>10. At(o, U) = At(r, U)
  <2>1. U \in SUBSET (1..n) /\ U \subseteq Int
    BY <1>1, <1>2, <1>h
  <2>2. IsFiniteSet(1..n)
    BY <1>2, FS_Interval
  <2>3. IsFiniteSet(U)
    BY <2>1, <2>2, FS_Subset
  <2>4. \A k \in U : o[k] = r[k]
    BY <1>8, <2>1
  <2>5. QED BY <2>1, <2>3, <2>4, AtSame
<1>11. At(r, U) = At(q, T)
  <2>1. At(At(q, K), PlacesOf(K, T)) = At(q, T)
    BY <1>1, AtOfAt
  <2>2. QED BY <1>d, <1>h, <2>1 DEF PlacesOf
<1>12. ForeignGroups(m) = At(o, U)
  BY <1>9, <1>g DEF ForeignGroups
<1>13. ForeignGroups(g) = At(q, T)
  BY <1>a, <1>c DEF ForeignGroups
<1>14. Stripped(g) = r
  BY <1>a, <1>b, <1>d DEF Stripped
<1>15. QED BY <1>10, <1>11, <1>12, <1>13, <1>14, <1>f

LEMMA StrippedKind ==
  ASSUME NEW H, NEW g \in Seq(SUBSET H)
  PROVE  Stripped(g) \in Seq(SUBSET H)
<1>a. PICK q : q = Others(g)
  OBVIOUS
<1>b. PICK K : K = {i \in DOMAIN g : g[i] = {} \/ q[i] # {}}
  OBVIOUS
<1>1. DOMAIN g = 1..Len(g) /\ Len(g) \in Nat /\ \A i \in DOMAIN g : g[i] \in SUBSET H
  OBVIOUS
<1>2. IsFiniteSet(K) /\ K \subseteq Int
  <2>1. IsFiniteSet(1..Len(g)) /\ K \in SUBSET (1..Len(g))
    BY <1>1, <1>b, FS_Interval
  <2>2. K \subseteq Int
    BY <1>1, <2>1
  <2>3. QED BY <2>1, <2>2, FS_Subset
<1>3. {q[i] : i \in K} \subseteq SUBSET H
  BY <1>1, <1>a, <1>b DEF Others
<1>4. At(q, K) \in Seq({q[i] : i \in K})
  BY <1>2, AtElements
<1>5. At(q, K) \in Seq(SUBSET H)
  <2>1. PICK Q : Q = {q[i] : i \in K}
    OBVIOUS
  <2>2. PICK r : r = At(q, K)
    OBVIOUS
  <2>3. r \in Seq(Q) /\ Q \subseteq SUBSET H
    BY <1>3, <1>4, <2>1, <2>2
  <2>4. PICK n \in Nat : r \in [1..n -> Q]
    BY <2>3
  <2>5. r \in [1..n -> SUBSET H]
    BY <2>3, <2>4
  <2>6. r \in Seq(SUBSET H)
    BY <2>5
  <2>7. QED BY <2>2, <2>6
<1>6. QED BY <1>5, <1>a, <1>b DEF Stripped

\* What init makes of a file that can be parsed can be, and holds whatever else
\* the file held.
LEMMA MergeKeeps ==
  ASSUME NEW f \in Target, NEW c \in Json, NEW p \in {Exe, Bare}
  PROVE  Merge(f, c, p) \in Json /\ Foreign(Merge(f, c, p)) = Foreign(c)
<1>1. PICK d : d = Merge(f, c, p)
  OBVIOUS
<1>2. p \in Program /\ Ours[p] \in LayaHook \cap DOMAIN Runs
  BY SetupAssumption
<1>3. CASE f = "local"
  <2> DEFINE hooks == [e \in Event |-> Append(Stripped(c.hooks[e]), {Ours[p]})]
  <2>1. d = [c EXCEPT !.hooks = hooks]
    BY <1>1, <1>3 DEF Merge, MergeSettings
  <2>2. \A e \in Event : c.hooks[e] \in Seq(SUBSET DOMAIN Runs)
    BY DEF Json
  <2>3. \A e \in Event : hooks[e] \in Seq(SUBSET DOMAIN Runs)
    <3>1. \A e \in Event : Stripped(c.hooks[e]) \in Seq(SUBSET DOMAIN Runs)
      BY <2>2, StrippedKind
    <3>2. QED BY <1>2, <3>1, AppendIs
  <2>4. \A e \in Event : ForeignGroups(hooks[e]) = ForeignGroups(c.hooks[e])
    BY <1>2, <2>2, OthersStay
  <2>5. hooks \in [Event -> Seq(SUBSET DOMAIN Runs)]
    BY <2>3
  <2> HIDE DEF hooks
  <2>6. d \in Json /\ d.keys = c.keys /\ d.plugin = c.plugin /\ d.hooks = hooks
    BY <2>1, <2>5 DEF Json
  <2>7. QED BY <1>1, <2>4, <2>6 DEF Foreign
<1>4. CASE f # "local"
  <2>1. d = [c EXCEPT !.server = p]
    BY <1>1, <1>4 DEF Merge, MergeMcp
  <2>2. d \in Json /\ d.keys = c.keys /\ d.plugin = c.plugin /\ d.hooks = c.hooks
    BY <1>2, <2>1 DEF Json
  <2>3. QED BY <1>1, <2>2 DEF Foreign
<1>5. QED BY <1>3, <1>4

LEMMA EmptyKind == Empty \in Json
BY DEF Empty, Json

\* Every text is one that can be parsed, or one of the others.
TextInv ==
  /\ \A f \in Target : file[f] \in Json \cup NoJson /\ before[f] \in Json \cup NoJson
  /\ step # "idle" => \A f \in Target : plan[f].content \in Json \cup NoJson
  /\ step \notin {"idle", "originals"} =>
       \A f \in Target : original[f] \in Json \cup NoJson

LEMMA MergeableKind ==
  ASSUME NEW c \in Json \cup NoJson PROVE Mergeable(c) \in Json
BY EmptyKind DEF Mergeable, IsJson, NoJson

LEMMA TextInvariance == SetupSpec => []TextInv
<1>1. SetupInit => TextInv
  BY SetupAssumption DEF SetupInit, TextInv
<1>2. SetupInv /\ TextInv /\ [SetupNext]_setupVars => TextInv'
  <2> SUFFICES ASSUME SetupInv, TextInv, [SetupNext]_setupVars PROVE TextInv'
    OBVIOUS
  <2>1. ASSUME NEW path, NEW force, NEW dry, Plan(path, force, dry) PROVE TextInv'
    <3> DEFINE p == [f \in Target |-> PlanFile(f, ProgramFor(path), force)]
    <3>1. /\ file' = file /\ before' = file
          /\ step' = "idle" \/ (step' = "originals" /\ plan' = p)
      <4>1. CASE \/ \E f \in Target : file[f] = Unsafe \/ p[f].action = "error"
                 \/ \E f \in Target : p[f].action = "replace" /\ bak[f] = Unsafe
                 \/ dry
        BY <2>1, <4>1 DEF Plan, Finish, trees
      <4>2. CASE ~(\/ \E f \in Target : file[f] = Unsafe \/ p[f].action = "error"
                   \/ \E f \in Target : p[f].action = "replace" /\ bak[f] = Unsafe
                   \/ dry)
        BY <2>1, <4>2 DEF Plan, trees
      <4>3. QED BY <4>1, <4>2
    <3>2. ASSUME NEW f \in Target PROVE p[f].content \in Json \cup NoJson
      <4>1. ProgramFor(path) \in {Exe, Bare} /\ file[f] \in Json \cup NoJson
        BY DEF ProgramFor, TextInv
      <4>2. Merge(f, Mergeable(file[f]), ProgramFor(path)) \in Json
        BY <4>1, MergeableKind, MergeKeeps
      <4>3. QED BY <4>1, <4>2 DEF PlanFile, Mergeable
    <3>3. QED BY <3>1, <3>2 DEF TextInv
  <2>2. CASE Originals
    <3>1. /\ step = "originals" /\ UNCHANGED <<file, before, plan>>
          /\ original' = file \/ \E f \in Target : original' = [file EXCEPT ![f] = Absent]
      BY <2>2 DEF Originals, trees, history
    <3>2. \A f \in Target : original'[f] \in Json \cup NoJson
      BY <3>1 DEF TextInv, SetupInv, NoJson
    <3>3. QED BY <3>1, <3>2 DEF TextInv
  <2>3. ASSUME NEW f \in Target, BackUp(f) \/ CallFails(f) PROVE TextInv'
    <3>1. UNCHANGED before /\ step \notin {"idle", "originals"}
      BY <2>3, StepsDiffer DEF BackUp, CallFails, history
    <3>2. CASE \E n \in {0, 1} : Fails(f, n)
      <4>1. step' = "idle" /\ (Rollback(f) \/ UNCHANGED file)
        BY <3>2 DEF Fails, Finish
      <4>2. \A g \in Target : file'[g] \in Json \cup NoJson
        BY <3>1, <4>1, StepsDiffer DEF Rollback, TextInv, SetupInv
      <4>3. QED BY <3>1, <4>1, <4>2 DEF TextInv
    <3>3. CASE UNCHANGED <<file, plan, original>>
      BY <3>1, <3>3 DEF TextInv
    <3>4. QED
      <4>1. CallFails(f) => Fails(f, 1)
        BY DEF CallFails
      <4>2. BackUp(f) => Fails(f, 0) \/ UNCHANGED <<file, plan, original>>
        BY DEF BackUp
      <4>3. QED BY <2>3, <3>2, <3>3, <4>1, <4>2
  <2>4. ASSUME NEW f \in Target, WriteFile(f) PROVE TextInv'
    <3>1. /\ UNCHANGED before /\ step \notin {"idle", "originals"}
          /\ step' = "idle" \/ UNCHANGED <<plan, original>>
      BY <2>4, StepsDiffer DEF WriteFile, Finish, history
    <3>2. \A g \in Target : file'[g] \in Json \cup NoJson
      BY <2>4, <3>1 DEF WriteFile, TextInv, SetupInv
    <3>3. QED BY <3>1, <3>2 DEF TextInv
  <2>5. ASSUME NEW f \in Target, Edit(f) PROVE TextInv'
    <3>1. UNCHANGED <<step, plan, original, before>>
      BY <2>5 DEF Edit
    <3>2. \A g \in Target : file'[g] \in Json \cup NoJson
      BY <2>5, SetupAssumption DEF Edit, TextInv, SetupInv
    <3>3. QED BY <3>1, <3>2 DEF TextInv
  <2>6. CASE Killed
    BY <2>6 DEF Killed, Finish, trees, history, TextInv
  <2>7. CASE UNCHANGED setupVars
    BY <2>7 DEF setupVars, TextInv
  <2>8. QED
    BY <2>1, <2>2, <2>3, <2>4, <2>5, <2>6, <2>7 DEF SetupNext
<1>3. QED
  BY <1>1, <1>2, SetupInvariance, PTL DEF SetupSpec

(* Wherever init fails, if at most one call does, and wherever it is        *)
(* killed: what each file held is in it or in its .bak, unless somebody     *)
(* else wrote it, whatever hooks, groups and keys it held.                  *)
THEOREM InitLosesNothing == SetupSpec => []NothingLost
<1>1. SavedInv /\ TextInv => NothingLost
  <2> SUFFICES ASSUME SavedInv, TextInv, ~touched, failed <= 1, NEW f \in Target
               PROVE  \/ before[f] \in {Absent, file[f], bak[f]}
                      \/ /\ IsJson(before[f]) /\ IsJson(file[f])
                         /\ Foreign(file[f]) = Foreign(before[f])
    BY DEF NothingLost
  <2>1. Kept(f)
    BY DEF SavedInv
  <2>2. CASE MergeOf(f, file[f]) /\ IsJson(before[f])
    <3>1. before[f] \in Json
      BY <2>2 DEF TextInv, IsJson, NoJson
    <3>2. PICK p \in {Exe, Bare} : file[f] = Merge(f, before[f], p)
      BY <2>2 DEF MergeOf, Mergeable
    <3>3. file[f] \in Json /\ Foreign(file[f]) = Foreign(before[f])
      BY <3>1, <3>2, MergeKeeps
    <3>4. IsJson(file[f])
      BY <3>3, SetupAssumption DEF IsJson, NoJson
    <3>5. QED BY <2>2, <3>3, <3>4
  <2>3. QED
    BY <2>1, <2>2 DEF Kept
<1>2. QED
  BY <1>1, SavedInvariance, TextInvariance, PTL

-----------------------------------------------------------------------------
(***************************************************************************)
(* Lookup.                                                                 *)
(***************************************************************************)
\* ranked_first keeps the files it is given and adds none.
LEMMA RankedFirstKeeps ==
  ASSUME NEW files \in Seq(File), NEW ranked \in Seq(File)
  PROVE  /\ RankedFirst(files, ranked) \in Seq(File)
         /\ ToSet(RankedFirst(files, ranked)) = ToSet(files)
<1> DEFINE R == {i \in DOMAIN ranked : ranked[i] \in ToSet(files)}
           F == {i \in DOMAIN files : files[i] \notin ToSet(ranked)}
           front == {ranked[i] : i \in R}
           back == {files[i] : i \in F}
<1>1. /\ DOMAIN ranked = 1..Len(ranked) /\ Len(ranked) \in Nat
      /\ DOMAIN files = 1..Len(files) /\ Len(files) \in Nat
  OBVIOUS
<1>2. IsFiniteSet(1..Len(ranked)) /\ IsFiniteSet(1..Len(files))
  BY <1>1, FS_Interval
<1>3. R \in SUBSET (1..Len(ranked)) /\ F \in SUBSET (1..Len(files))
  BY <1>1
<1>4. IsFiniteSet(R) /\ R \subseteq Int /\ IsFiniteSet(F) /\ F \subseteq Int
  <2>1. IsFiniteSet(R) /\ IsFiniteSet(F)
    BY <1>2, <1>3, FS_Subset
  <2>2. QED BY <1>1, <1>3, <2>1
<1>5. front \subseteq File /\ back \subseteq File
  BY <1>1
<1>6. front \cup back = ToSet(files)
  <2>1. front \subseteq ToSet(files) /\ back \subseteq ToSet(files)
    BY DEF ToSet
  <2>2. ASSUME NEW i \in DOMAIN files PROVE files[i] \in front \cup back
    <3>1. CASE files[i] \in ToSet(ranked)
      <4>1. PICK k \in DOMAIN ranked : ranked[k] = files[i]
        BY <3>1 DEF ToSet
      <4>2. k \in R
        BY <4>1 DEF ToSet
      <4>3. QED BY <4>1, <4>2
    <3>2. CASE files[i] \notin ToSet(ranked)
      BY <3>2
    <3>3. QED BY <3>1, <3>2
  <2>3. ToSet(files) \subseteq front \cup back
    BY <2>2 DEF ToSet
  <2>4. QED BY <2>1, <2>3
<1>7. RankedFirst(files, ranked) = At(ranked, R) \o At(files, F)
  BY DEF RankedFirst
<1> HIDE DEF R, F
<1>8. /\ At(ranked, R) \in Seq(front) /\ ToSet(At(ranked, R)) = front
      /\ At(files, F) \in Seq(back) /\ ToSet(At(files, F)) = back
  BY <1>4, AtElements
<1> HIDE DEF front, back
<1>9. At(ranked, R) \in Seq(File) /\ At(files, F) \in Seq(File)
  BY <1>5, <1>8
<1>10. /\ At(ranked, R) \o At(files, F) \in Seq(File)
       /\ ToSet(At(ranked, R) \o At(files, F)) =
            ToSet(At(ranked, R)) \cup ToSet(At(files, F))
  BY <1>9, JoinTwo
<1>11. QED BY <1>6, <1>7, <1>8, <1>10, Zenon

-----------------------------------------------------------------------------
\* sort_hits: a total order of hits in different files, so that sorting keeps
\* every one of them.
SortPairs(S, ranked) == {pair \in S \X S : SortsBefore(ranked, pair[1], pair[2])}

LEMMA PlaceOf ==
  ASSUME NEW q, NEW f \in ToSet(q)
  PROVE  PlaceIn(q, f) \in DOMAIN q /\ q[PlaceIn(q, f)] = f
<1>1. \E i \in DOMAIN q : q[i] = f
  BY DEF ToSet
<1>2. QED BY <1>1 DEF PlaceIn

LEMMA HitsOrdered ==
  ASSUME NEW S, IsFiniteSet(S), NEW ranked \in Seq(File),
         \A h \in S : h.file \in File /\ IsFiniteSet(h.lines),
         \A g, h \in S : g.file = h.file => g = h
  PROVE  InOneOrder(S, SortPairs(S, ranked))
<1> DEFINE place(x) == IF x.file \in ToSet(ranked) THEN PlaceIn(ranked, x.file)
                                                  ELSE Len(ranked) + 1
           count(x) == Cardinality(x.lines)
           at(x) == PlaceIn(WalkOrder, x.file)
<1>1. ASSUME NEW x \in S
      PROVE  /\ place(x) \in Int /\ count(x) \in Int
             /\ at(x) \in Int /\ WalkOrder[at(x)] = x.file
  <2>1. DOMAIN ranked \subseteq Int /\ Len(ranked) \in Int
    OBVIOUS
  <2>2. place(x) \in Int
    BY <2>1, PlaceOf
  <2>3. count(x) \in Int
    BY FS_CardinalityType
  <2>4. DOMAIN WalkOrder \subseteq Int /\ x.file \in ToSet(WalkOrder)
    BY LookupAssumption
  <2>5. at(x) \in Int /\ WalkOrder[at(x)] = x.file
    BY <2>4, PlaceOf
  <2>6. QED BY <2>2, <2>3, <2>5
<1>2. \A g, h \in S : at(g) = at(h) => g = h
  BY <1>1
<1>3. \A g, h : SortsBefore(ranked, g, h) <=>
        \/ place(g) < place(h)
        \/ /\ place(g) = place(h)
           /\ \/ count(g) > count(h)
              \/ count(g) = count(h) /\ at(g) < at(h)
  BY DEF SortsBefore
<1>4. \A g, h \in S : <<g, h>> \in SortPairs(S, ranked) <=> SortsBefore(ranked, g, h)
  BY DEF SortPairs
<1> HIDE DEF place, count, at
<1>5. \A x \in S : ~SortsBefore(ranked, x, x)
  BY <1>1, <1>3
<1>6. \A x, y, z \in S : SortsBefore(ranked, x, y) /\ SortsBefore(ranked, y, z)
                            => SortsBefore(ranked, x, z)
  BY <1>1, <1>3
<1>7. \A x, y \in S : x # y => SortsBefore(ranked, x, y) \/ SortsBefore(ranked, y, x)
  BY <1>1, <1>2, <1>3
<1>8. QED BY <1>4, <1>5, <1>6, <1>7 DEF InOneOrder

LEMMA SortKeeps ==
  ASSUME NEW H, NEW hits \in Seq(H), NEW ranked,
         InOneOrder(ToSet(hits), SortPairs(ToSet(hits), ranked))
  PROVE  /\ SortedHits(hits, ranked) \in Seq(H)
         /\ ToSet(SortedHits(hits, ranked)) = ToSet(hits)
<1>1. PICK S : S = ToSet(hits)
  OBVIOUS
<1>2. PICK R : R = SortPairs(S, ranked)
  OBVIOUS
<1> DEFINE n == Cardinality(S)
           ahead(x) == Cardinality({y \in S : SortsBefore(ranked, y, x)})
           chosen(k) == CHOOSE x \in S : ahead(x) = k - 1
           s == SortedHits(hits, ranked)
<1>3. InOneOrder(S, R) /\ S \subseteq H
  BY <1>1, <1>2, ManyElements
<1>4. \A x \in S : ahead(x) = Cardinality(Ahead(S, R, x))
  <2> SUFFICES ASSUME NEW x \in S
               PROVE  {y \in S : SortsBefore(ranked, y, x)} = Ahead(S, R, x)
    OBVIOUS
  <2>1. QED BY <1>2 DEF Ahead, SortPairs
<1>5. s = [k \in 1..n |-> chosen(k)]
  BY <1>1 DEF SortedHits, InOrder
<1> HIDE DEF ahead
<1>6. n \in Nat
  BY <1>3, FS_CardinalityType DEF InOneOrder
<1>7. \A x \in S : /\ Cardinality(Ahead(S, R, x)) \in Nat
                   /\ Cardinality(Ahead(S, R, x)) + 1 \in 1..n
  BY <1>3, AheadCount
<1>8. \A k \in 1..Cardinality(S) : \E x \in S : Cardinality(Ahead(S, R, x)) + 1 = k
  BY <1>3, PlacesTaken
<1>9. ASSUME NEW k \in 1..n PROVE chosen(k) \in S /\ ahead(chosen(k)) = k - 1
  <2>1. PICK x \in S : Cardinality(Ahead(S, R, x)) + 1 = k
    BY <1>8
  <2>2. Cardinality(Ahead(S, R, x)) = k - 1
    BY <1>7, <2>1
  <2>3. ahead(x) = k - 1
    BY <1>4, <2>2
  <2>4. QED BY <2>3
<1>10. ASSUME NEW x \in S
       PROVE  Cardinality(Ahead(S, R, x)) + 1 \in 1..n /\ chosen(Cardinality(Ahead(S, R, x)) + 1) = x
  <2>1. PICK k : k = Cardinality(Ahead(S, R, x)) + 1
    OBVIOUS
  <2>2. k \in 1..n /\ Cardinality(Ahead(S, R, x)) = k - 1
    BY <1>7, <2>1
  <2>3. chosen(k) \in S /\ ahead(chosen(k)) = k - 1
    BY <1>9, <2>2
  <2>4. PICK z \in S : z = chosen(k)
    BY <2>3
  <2>5. Cardinality(Ahead(S, R, z)) = Cardinality(Ahead(S, R, x))
    BY <1>4, <2>2, <2>3, <2>4
  <2>6. z = x
    BY <1>3, <2>5, AheadOnce
  <2>7. QED BY <2>1, <2>2, <2>4, <2>6
<1> HIDE DEF chosen, s, n
<1>11. s \in Seq(S)
  BY <1>5, <1>6, <1>9
<1>12. ToSet(s) \subseteq S
  BY <1>5, <1>9 DEF ToSet
<1>13. ASSUME NEW x \in S PROVE x \in ToSet(s)
  <2>1. PICK k : k = Cardinality(Ahead(S, R, x)) + 1
    OBVIOUS
  <2>2. k \in DOMAIN s /\ s[k] = x
    BY <1>5, <1>10, <2>1
  <2>3. QED BY <2>2 DEF ToSet
<1>14. s \in Seq(H)
  BY <1>3, <1>11
<1>15. QED BY <1>1, <1>12, <1>13, <1>14 DEF s

-----------------------------------------------------------------------------
(***************************************************************************)
(* What makes a claim of completeness true: from the walk on, every file   *)
(* that the claim is about is still to be read, or was read and found with *)
(* all its lines, or was read and has none.                                *)
(***************************************************************************)
Fields == {"names", "ranked", "todo", "skipped", "complete", "hits", "files", "room",
           "missed", "edited"}
DiskOK ==
  /\ disk = [f \in File |-> disk[f]]
  /\ \A f \in File : disk[f] \in DOMAIN Matches[f] \cup {Gone, Garbled}

\* The lookup that is under way is one for the names of the message.
Searching ==
  phase \in {"rank", "walk", "scan", "show"} =>
    /\ msg \in {m \in Message : m.method = "call" /\ m.search}
    /\ work.names = IdentifierQuery(msg)
    /\ work.ranked \in Seq(File)
Untouched ==
  /\ phase \in {"rank", "walk"} => work.hits = <<>>
  /\ phase \in {"rank", "walk", "scan"} => work.files = <<>>

\* The lookup could still claim to be complete, and no file changed.
Claimable == work.complete /\ work.skipped = 0 /\ ~work.edited /\ work.missed = {}

LinesOf(f) == HitLines(f, work.names)
HitOf(f) == [file |-> f, lines |-> LinesOf(f)]
HitSet == {HitOf(f) : f \in {h \in File : Readable(h)}}

\* f was read: either it is among the hits or it has none of the names.
ReadOf(f) ==
  /\ Kind[f] = "indexed" /\ Readable(f)
  /\ LinesOf(f) # {} => HitOf(f) \in ToSet(work.hits)
Scanning ==
  phase = "scan" /\ work.complete =>
    /\ work.skipped \in Nat
    /\ Claimable =>
         /\ work.todo \in Seq(File) /\ work.hits \in Seq(HitSet)
         /\ \A f \in Claimed : Kind[f] = "indexed" /\ (f \in ToSet(work.todo) \/ ReadOf(f))

\* f is still to be shown, or is among the files shown.
ShownOf(f) == \E i \in DOMAIN work.files : /\ work.files[i].file = f
                                           /\ work.files[i].lines = LinesOf(f)
Showing ==
  phase = "show" =>
    /\ work.files \in Seq(ToSet(work.files))
    /\ Claimable =>
         /\ work.hits \in Seq(HitSet)
         /\ \A f \in Claimed :
              /\ Kind[f] = "indexed" /\ Readable(f)
              /\ LinesOf(f) # {} => HitOf(f) \in ToSet(work.hits) \/ ShownOf(f)

\* CompleteTrue, in these terms.
ClaimTrue ==
  phase = "write" /\ reply.kind = "matches" /\ reply.claim /\ ~work.edited /\ work.missed = {} =>
    \A f \in Claimed :
      /\ Kind[f] = "indexed" /\ Readable(f)
      /\ LinesOf(f) # {} =>
           \E i \in DOMAIN reply.files :
             /\ reply.files[i].file = f
             /\ \/ reply.shown[i] = Cardinality(LinesOf(f))
                \/ f \in Prose /\ \E j \in DOMAIN reply.files : reply.files[j].file \notin Prose

LookupInv ==
  /\ DiskOK /\ work = [y \in Fields |-> work[y]]
  /\ work.complete \in BOOLEAN /\ work.edited \in BOOLEAN
  /\ Searching /\ Untouched /\ Scanning /\ Showing /\ ClaimTrue
-----------------------------------------------------------------------------
\* The lines of a file on which the names of a query stand are finitely many.
LEMMA LinesFinite ==
  ASSUME NEW m \in {n \in Message : n.method = "call" /\ n.search}, DiskOK,
         NEW f \in File, Readable(f)
  PROVE  IsFiniteSet(HitLines(f, IdentifierQuery(m)))
<1> DEFINE names == IdentifierQuery(m)
           all == {Matches[f][disk[f]][x] : x \in names}
<1>1. IsFiniteSet(m.tokens) /\ names \in SUBSET m.tokens
  BY MessageAssumption DEF IdentifierQuery
<1>2. IsFiniteSet(names)
  BY <1>1, FS_Subset
<1>3. disk[f] \in DOMAIN Matches[f]
  BY DEF DiskOK, Readable
<1>4. \A x \in names : IsFiniteSet(Matches[f][disk[f]][x])
  BY <1>3, MessageAssumption
<1> HIDE DEF names
<1>5. IsFiniteSet(all)
  <2> DEFINE of == [x \in names |-> Matches[f][disk[f]][x]]
  <2>1. of \in Surjection(names, all)
    BY DEF Surjection
  <2>2. QED BY <1>2, <2>1, FS_Surjection
<1>6. \A s \in all : IsFiniteSet(s)
  BY <1>4
<1>7. IsFiniteSet(UNION all)
  BY <1>5, <1>6, FS_UNION
<1>8. QED BY <1>7 DEF HitLines, names

\* As long as no file changes, the names are found where they were.
LEMMA SameHits ==
  ASSUME disk' = disk, work'.names = work.names
  PROVE  /\ HitSet' = HitSet
         /\ \A f : HitOf(f)' = HitOf(f) /\ LinesOf(f)' = LinesOf(f)
<1>1. \A f : LinesOf(f)' = LinesOf(f)
  BY DEF LinesOf, HitLines
<1>2. \A f : HitOf(f)' = HitOf(f)
  BY <1>1 DEF HitOf
<1>3. QED BY <1>1, <1>2 DEF HitSet, Readable

LEMMA LookupStart == LookupInit => LookupInv
<1> SUFFICES ASSUME LookupInit PROVE LookupInv
  OBVIOUS
<1>1. DiskOK
  BY DEF LookupInit, DiskOK
<1>2. /\ work = [y \in Fields |-> work[y]]
      /\ work.complete \in BOOLEAN /\ work.edited \in BOOLEAN
  BY DEF LookupInit, NoWork, Fields
<1>3. QED BY <1>1, <1>2 DEF LookupInit, LookupInv, Searching, Untouched, Scanning, Showing, ClaimTrue

\* A file that changes meanwhile ends every claim.
LEMMA ChangeKeeps ==
  ASSUME LookupInv, NEW f \in File, Change(f)
  PROVE  LookupInv'
<1>1. DiskOK'
  BY DEF LookupInv, Change, DiskOK
<1>2. /\ work' = [y \in Fields |-> work'[y]]
      /\ \A y \in Fields \ {"edited"} : work'[y] = work[y]
      /\ work'.edited = (phase # "idle")
  BY DEF LookupInv, Change, Fields
<1>3. work'.complete = work.complete /\ work'.names = work.names /\ work'.ranked = work.ranked
      /\ work'.hits = work.hits /\ work'.files = work.files /\ work'.skipped = work.skipped
  BY <1>2 DEF Fields
<1>4. work'.complete \in BOOLEAN /\ work'.edited \in BOOLEAN
  BY <1>2, <1>3 DEF LookupInv
<1>5. Searching' /\ Untouched'
  BY <1>3 DEF LookupInv, Change, Searching, Untouched
<1>6. Scanning' /\ Showing' /\ ClaimTrue'
  BY <1>2, <1>3 DEF LookupInv, Change, Scanning, Showing, ClaimTrue, Claimable
<1>7. QED BY <1>1, <1>2, <1>4, <1>5, <1>6 DEF LookupInv

LEMMA DelayKeeps ==
  ASSUME LookupInv, UNCHANGED <<disk, msg, phase, work, reply>>
  PROVE  LookupInv'
<1>1. HitSet' = HitSet /\ \A f : HitOf(f)' = HitOf(f) /\ LinesOf(f)' = LinesOf(f)
  BY SameHits
<1>2. Claimed' = Claimed
  BY DEF Claimed, InScope, OneFile
<1>3. DiskOK' /\ Searching' /\ Untouched'
  BY DEF LookupInv, DiskOK, Searching, Untouched
<1>4. Scanning'
  BY <1>1, <1>2 DEF LookupInv, Scanning, Claimable, ReadOf, Readable
<1>5. Showing'
  BY <1>1, <1>2 DEF LookupInv, Showing, Claimable, ShownOf, Readable
<1>6. ClaimTrue'
  BY <1>1, <1>2 DEF LookupInv, ClaimTrue, Readable
<1>7. QED BY <1>3, <1>4, <1>5, <1>6 DEF LookupInv

\* Before the walk, and after the answer, nothing is claimed.
LEMMA EndKeeps ==
  ASSUME LookupInv, disk' = disk, work' = NoWork,
         phase' \in {"idle", "describe"} \/ (phase' = "write" /\ reply'.kind # "matches")
  PROVE  LookupInv'
<1>1. DiskOK'
  BY DEF LookupInv, DiskOK
<1>2. /\ work' = [y \in Fields |-> work'[y]]
      /\ work'.complete \in BOOLEAN /\ work'.edited \in BOOLEAN
  BY DEF NoWork, Fields
<1>3. QED BY <1>1, <1>2 DEF LookupInv, Searching, Untouched, Scanning, Showing, ClaimTrue

LEMMA ReceiveKeeps ==
  ASSUME LookupInv, NEW m \in Message, Receive(m)
  PROVE  LookupInv'
<1>1. DiskOK'
  BY DEF LookupInv, DiskOK, Receive
<1>2. /\ work' = [y \in Fields |-> work'[y]]
      /\ \A y \in Fields \ {"names"} : work'[y] = NoWork[y]
      /\ work'.names = IF phase' \in {"walk", "rank"} THEN IdentifierQuery(m) ELSE {}
  BY DEF Receive, NoWork, Fields
<1>3. /\ work'.complete = TRUE /\ work'.edited = FALSE
      /\ work'.hits = <<>> /\ work'.files = <<>> /\ work'.ranked = <<>>
  BY <1>2 DEF Fields, NoWork
<1>4. phase' \in {"write", "describe", "walk", "rank"} /\ (phase' = "write" <=> reply' # Nothing)
  BY DEF Receive
<1>5. reply' # Nothing => reply'.kind # "matches"
  <2>1. \A k \in {"parse error", "method not found", "result", "error"} :
          ReplyOf(k).kind # "matches"
    BY DEF ReplyOf
  <2>2. \/ reply' = Nothing
        \/ \E k \in {"parse error", "method not found", "result", "error"} : reply' = ReplyOf(k)
    BY DEF Receive
  <2>3. QED BY <2>1, <2>2
<1>6. reply' = Nothing => m.method = "call" /\ m.search
  <2>1. m.method # "call" =>
          \E k \in {"parse error", "method not found", "result", "error"} : reply' = ReplyOf(k)
    BY DEF Receive
  <2>2. m.method = "call" /\ ~m.search => reply' = ReplyOf("error")
    BY DEF Receive
  <2>3. QED BY <2>1, <2>2, MessageAssumption
<1>7. Searching'
  <2> SUFFICES ASSUME phase' \in {"rank", "walk"}
               PROVE  /\ msg' \in {n \in Message : n.method = "call" /\ n.search}
                      /\ work'.names = IdentifierQuery(msg') /\ work'.ranked \in Seq(File)
    BY <1>4 DEF Searching
  <2>1. msg' = m
    BY DEF Receive
  <2>2. m.method = "call" /\ m.search
    BY <1>4, <1>6
  <2>3. work'.ranked \in Seq(File)
    BY <1>3
  <2>4. QED BY <1>2, <2>1, <2>2, <2>3
<1>8. Untouched' /\ Scanning' /\ Showing' /\ ClaimTrue'
  BY <1>3, <1>4, <1>5 DEF Untouched, Scanning, Showing, ClaimTrue
<1>9. QED BY <1>1, <1>2, <1>3, <1>7, <1>8 DEF LookupInv

LEMMA RankedPathsKeeps ==
  ASSUME LookupInv, RankedPaths
  PROVE  LookupInv'
<1>1. DiskOK'
  BY DEF LookupInv, DiskOK, RankedPaths
<1>2. PICK r \in Rankings \cup {<<>>} : work' = [work EXCEPT !.ranked = r]
  BY DEF RankedPaths
<1>3. r \in Seq(File)
  <2>1. Rankings \subseteq Seq(File)
    BY LookupAssumption
  <2>2. <<>> \in Seq(File)
    OBVIOUS
  <2>3. QED BY <2>1, <2>2
<1>4. /\ work' = [y \in Fields |-> work'[y]]
      /\ \A y \in Fields \ {"ranked"} : work'[y] = work[y]
      /\ work'.ranked = r
  BY <1>2 DEF LookupInv, Fields
<1>5. /\ work'.complete = work.complete /\ work'.edited = work.edited
      /\ work'.hits = work.hits /\ work'.files = work.files /\ work'.names = work.names
  BY <1>4 DEF Fields
<1>6. Searching' /\ Untouched' /\ Scanning' /\ Showing' /\ ClaimTrue'
  BY <1>3, <1>4, <1>5
  DEF LookupInv, RankedPaths, Searching, Untouched, Scanning, Showing, ClaimTrue
<1>7. QED BY <1>1, <1>4, <1>5, <1>6 DEF LookupInv

-----------------------------------------------------------------------------
\* The walk claims nothing or has every file of the claim on its list.
LEMMA ScannedKeeps ==
  ASSUME LookupInv, phase = "walk", UNCHANGED <<disk, msg, reply>>,
         NEW files, NEW skipped, NEW complete \in BOOLEAN, NEW missed,
         Scanned(files, skipped, complete, missed),
         complete =>
           /\ skipped \in Nat /\ files \in Seq(File)
           /\ skipped = 0 /\ missed = {} =>
                \A f \in Claimed : Kind[f] = "indexed" /\ f \in ToSet(files)
  PROVE  LookupInv'
<1>1. DiskOK'
  BY DEF LookupInv, DiskOK
<1>2. /\ work' = [y \in Fields |-> work'[y]]
      /\ \A y \in Fields \ {"todo", "skipped", "complete", "missed"} : work'[y] = work[y]
      /\ work'.todo = RankedFirst(files, work.ranked) /\ work'.skipped = skipped
      /\ work'.missed = missed
  BY DEF LookupInv, Fields, Scanned
<1>3. work'.complete = complete
  BY DEF LookupInv, Fields, Scanned
<1>4. /\ work'.edited = work.edited
      /\ work'.hits = work.hits /\ work'.files = work.files /\ work'.names = work.names
      /\ work'.ranked = work.ranked
  BY <1>2 DEF Fields
<1>5. Searching' /\ Untouched' /\ Showing' /\ ClaimTrue'
  BY <1>4 DEF LookupInv, Scanned, Searching, Untouched, Showing, ClaimTrue
<1>6. work.ranked \in Seq(File) /\ work.hits = <<>>
  BY DEF LookupInv, Searching, Untouched
<1>7. Claimed' = Claimed
  BY DEF Claimed, InScope, OneFile
<1>8. Scanning'
  <2> SUFFICES ASSUME complete
               PROVE  /\ work'.skipped \in Nat
                      /\ Claimable' =>
                           /\ work'.todo \in Seq(File) /\ work'.hits \in Seq(HitSet')
                           /\ \A f \in Claimed : Kind[f] = "indexed" /\ f \in ToSet(work'.todo)
    BY <1>3, <1>7 DEF Scanning
  <2>1. work'.skipped \in Nat /\ work'.todo \in Seq(File) /\ ToSet(work'.todo) = ToSet(files)
    BY <1>2, <1>6, RankedFirstKeeps
  <2>2. work'.hits \in Seq(HitSet')
    BY <1>4, <1>6
  <2>3. Claimable' => skipped = 0 /\ missed = {}
    BY <1>2 DEF Claimable
  <2>4. QED BY <2>1, <2>2, <2>3
<1>9. QED BY <1>1, <1>2, <1>3, <1>4, <1>5, <1>8 DEF LookupInv

LEMMA WalkOneFileKeeps ==
  ASSUME LookupInv, WalkOneFile
  PROVE  LookupInv'
<1> DEFINE gone == disk[msg.scope] = Gone
<1>0. CASE gone
  <2>1. Scanned(<<>>, 0, ~late', {}) /\ UNCHANGED <<disk, msg, reply>> /\ phase = "walk"
    BY <1>0 DEF WalkOneFile
  <2>2. Claimed = {}
    BY <1>0, LookupAssumption DEF WalkOneFile, Claimed, InScope, OneFile
  <2>3. PICK complete \in BOOLEAN : complete = ~late'
    OBVIOUS
  <2>4. <<>> \in Seq(File)
    OBVIOUS
  <2>5. Scanned(<<>>, 0, complete, {})
    BY <2>1, <2>3
  <2>6. QED BY <2>1, <2>2, <2>4, <2>5, ScannedKeeps
<1>1. CASE ~gone /\ Kind[msg.scope] = "indexed"
  <2>1. Scanned(<<msg.scope>>, 0, TRUE, {}) /\ UNCHANGED <<disk, msg, reply>> /\ phase = "walk"
    BY <1>1 DEF WalkOneFile
  <2>2. msg.scope \in File /\ <<msg.scope>> \in Seq(File) /\ ToSet(<<msg.scope>>) = {msg.scope}
    BY DEF WalkOneFile, OneFile, ToSet
  <2>3. Claimed \subseteq {msg.scope}
    BY <2>2, LookupAssumption DEF Claimed, InScope, OneFile
  <2>4. \A f \in Claimed : Kind[f] = "indexed" /\ f \in ToSet(<<msg.scope>>)
    BY <1>1, <2>2, <2>3
  <2>5. PICK files : files = <<msg.scope>>
    OBVIOUS
  <2>6. QED BY <2>1, <2>2, <2>4, <2>5, ScannedKeeps
<1>2. CASE ~gone /\ Kind[msg.scope] # "indexed"
  <2>1. disk' = disk /\ work' = NoWork /\ phase' = "write" /\ reply' = ReplyOf("error")
    BY <1>2 DEF WalkOneFile
  <2>2. reply'.kind # "matches"
    BY <2>1 DEF ReplyOf
  <2>3. QED BY <2>1, <2>2, EndKeeps
<1>3. QED BY <1>0, <1>1, <1>2

LEMMA WalkKeeps ==
  ASSUME LookupInv, Walk
  PROVE  LookupInv'
<1> DEFINE listed(unlisted) == {i \in DOMAIN WalkOrder :
                                  /\ InScope(WalkOrder[i], msg) /\ disk[WalkOrder[i]] # Gone
                                  /\ WalkOrder[i] \notin unlisted}
           of(entries, kind, n) == {i \in 1..n : Kind[entries[i]] = kind}
<1>1. PICK unlisted, entries, end :
        /\ entries = At(WalkOrder, listed(unlisted))
        /\ Scanned(At(entries, of(entries, "indexed", end)),
                   Cardinality(of(entries, "big", end)), end = Len(entries), unlisted)
  BY DEF Walk, WalkUpTo, Entries, IndexedUpTo
<1> DEFINE n == Len(entries)
           files == At(entries, of(entries, "indexed", end))
           skipped == Cardinality(of(entries, "big", end))
           T == listed(unlisted)
<1>2. /\ DOMAIN WalkOrder = 1..Len(WalkOrder) /\ Len(WalkOrder) \in Nat
      /\ ToSet(WalkOrder) = File /\ \A i \in DOMAIN WalkOrder : WalkOrder[i] \in File
  BY LookupAssumption DEF ToSet
<1>3. T \in SUBSET (1..Len(WalkOrder))
  BY <1>2
<1>4. IsFiniteSet(T) /\ T \subseteq Int
  <2>1. IsFiniteSet(1..Len(WalkOrder))
    BY <1>2, FS_Interval
  <2>2. IsFiniteSet(T)
    BY <1>3, <2>1, FS_Subset
  <2>3. QED BY <1>2, <1>3, <2>2
<1> DEFINE listing == {WalkOrder[i] : i \in T}
<1> HIDE DEF T
<1>5. entries \in Seq(listing) /\ ToSet(entries) = listing
  BY <1>1, <1>4, AtElements DEF T
<1>6. listing \subseteq File
  BY <1>2, <1>3
<1>7. n \in Nat /\ DOMAIN entries = 1..n /\ \A i \in 1..n : entries[i] \in File
  <2> HIDE DEF listing
  <2>1. entries \in Seq(File)
    BY <1>5, <1>6
  <2>2. QED BY <2>1
<1>8. ASSUME end = n
      PROVE  /\ skipped \in Nat /\ files \in Seq(File)
             /\ skipped = 0 /\ unlisted = {} =>
                  \A f \in Claimed : Kind[f] = "indexed" /\ f \in ToSet(files)
  <2> DEFINE I == of(entries, "indexed", n)
             B == of(entries, "big", n)
  <2>1. I \in SUBSET (1..n) /\ B \in SUBSET (1..n)
    OBVIOUS
  <2>2. IsFiniteSet(I) /\ I \subseteq Int /\ IsFiniteSet(B)
    <3>1. IsFiniteSet(1..n)
      BY <1>7, FS_Interval
    <3>2. IsFiniteSet(I) /\ IsFiniteSet(B)
      BY <2>1, <3>1, FS_Subset
    <3>3. QED BY <1>7, <2>1, <3>2
  <2>3. skipped \in Nat /\ (skipped = 0 <=> B = {})
    BY <1>8, <2>2, FS_CardinalityType, FS_EmptySet
  <2> DEFINE found == {entries[i] : i \in I}
  <2>4. found \subseteq File
    BY <1>7
  <2>5. files \in Seq(found) /\ ToSet(files) = found
    <3> HIDE DEF I
    <3>1. At(entries, I) \in Seq(found) /\ ToSet(At(entries, I)) = found
      BY <2>2, AtElements
    <3>2. QED BY <1>8, <3>1 DEF I
  <2>6. ASSUME B = {}, unlisted = {}, NEW f \in Claimed
        PROVE  Kind[f] = "indexed" /\ f \in found
    <3>1. f \in File /\ Kind[f] # "other" /\ disk[f] # Gone /\ InScope(f, msg)
      BY DEF Claimed
    <3>2. f \in listing
      <4>1. PICK i \in DOMAIN WalkOrder : WalkOrder[i] = f
        BY <1>2, <3>1 DEF ToSet
      <4>2. i \in T
        BY <2>6, <3>1, <4>1 DEF T
      <4>3. QED BY <4>1, <4>2
    <3>3. PICK k \in 1..n : entries[k] = f
      BY <1>5, <1>7, <3>2 DEF ToSet
    <3>4. Kind[f] # "big"
      BY <2>6, <3>3
    <3>5. Kind[f] = "indexed"
      <4>1. Kind[f] \in {"indexed", "big", "other"}
        BY <3>1, LookupAssumption, Zenon
      <4>2. QED BY <3>1, <3>4, <4>1
    <3>6. QED BY <3>3, <3>5
  <2>7. files \in Seq(File)
    <3> HIDE DEF found, files
    <3>1. QED BY <2>4, <2>5
  <2>8. ASSUME skipped = 0, unlisted = {}, NEW f \in Claimed
        PROVE  Kind[f] = "indexed" /\ f \in ToSet(files)
    <3> HIDE DEF found, files, skipped, B
    <3>1. B = {}
      BY <2>3, <2>8
    <3>2. ToSet(files) = found
      BY <2>5
    <3>3. QED BY <2>6, <2>8, <3>1, <3>2
  <2>9. QED
    <3> HIDE DEF files, skipped
    <3>1. QED BY <2>3, <2>7, <2>8
<1>9. phase = "walk" /\ UNCHANGED <<disk, msg, reply>>
  BY DEF Walk
<1>10. PICK complete \in BOOLEAN : complete = (end = n)
  OBVIOUS
<1>11. complete => end = n
  BY <1>10
<1> HIDE DEF files, skipped, n
<1>12. Scanned(files, skipped, complete, unlisted)
  BY <1>1, <1>10 DEF files, skipped, n
<1>13. PICK F, s : F = files /\ s = skipped
  OBVIOUS
<1>14. Scanned(F, s, complete, unlisted)
  BY <1>12, <1>13
<1>15. complete =>
         /\ s \in Nat /\ F \in Seq(File)
         /\ s = 0 /\ unlisted = {} =>
              \A f \in Claimed : Kind[f] = "indexed" /\ f \in ToSet(F)
  BY <1>8, <1>11, <1>13
<1>16. QED BY <1>9, <1>14, <1>15, ScannedKeeps

-----------------------------------------------------------------------------
\* A file that is read joins the hits, or has none of the names, or counts as
\* skipped.
LEMMA ScanFileKeeps ==
  ASSUME LookupInv, ScanFile
  PROVE  LookupInv'
<1>1. DiskOK'
  BY DEF LookupInv, DiskOK, ScanFile
<1>2. PICK f : f = Head(work.todo)
  OBVIOUS
<1>3. /\ work' = [y \in Fields |-> work'[y]]
      /\ \A y \in Fields \ {"todo", "skipped", "hits"} : work'[y] = work[y]
      /\ work'.todo = Tail(work.todo)
      /\ work'.skipped = IF ~Readable(f) THEN work.skipped + 1 ELSE work.skipped
      /\ work'.hits = IF ~Readable(f) \/ LinesOf(f) = {} THEN work.hits
                      ELSE Append(work.hits, HitOf(f))
  BY <1>2 DEF LookupInv, Fields, ScanFile, HitOf, LinesOf
<1>4. /\ work'.complete = work.complete /\ work'.edited = work.edited
      /\ work'.names = work.names /\ work'.ranked = work.ranked
      /\ work'.files = work.files /\ work'.missed = work.missed
  BY <1>3 DEF Fields
<1>5. phase = "scan" /\ work.todo # <<>> /\ UNCHANGED <<disk, msg, phase, reply>>
  BY DEF ScanFile
<1>6. Searching' /\ Untouched' /\ Showing' /\ ClaimTrue'
  BY <1>4, <1>5 DEF LookupInv, Searching, Untouched, Showing, ClaimTrue
<1>7. HitSet' = HitSet /\ \A g : HitOf(g)' = HitOf(g) /\ LinesOf(g)' = LinesOf(g)
  BY <1>4, <1>5, SameHits
<1>8. Claimed' = Claimed
  BY <1>5 DEF Claimed, InScope, OneFile
<1>9. ASSUME work.complete PROVE work.skipped \in Nat /\ work'.skipped \in Nat
  BY <1>3, <1>5, <1>9 DEF LookupInv, Scanning
<1>10. ASSUME work.complete, Claimable'
       PROVE  /\ work'.todo \in Seq(File) /\ work'.hits \in Seq(HitSet)
              /\ \A g \in Claimed : Kind[g] = "indexed" /\ (g \in ToSet(work'.todo) \/ ReadOf(g)')
  <2>1. Claimable /\ Readable(f)
    BY <1>3, <1>4, <1>9, <1>10 DEF Claimable
  <2>2. /\ work.todo \in Seq(File) /\ work.hits \in Seq(HitSet)
        /\ \A g \in Claimed : Kind[g] = "indexed" /\ (g \in ToSet(work.todo) \/ ReadOf(g))
    BY <1>5, <1>10, <2>1 DEF LookupInv, Scanning
  <2>3. /\ f \in File /\ work'.todo \in Seq(File)
        /\ ToSet(work.todo) = {f} \cup ToSet(work'.todo)
    BY <1>2, <1>3, <1>5, <2>2, TakeOff
  <2>4. HitOf(f) \in HitSet
    BY <2>1, <2>3 DEF HitSet
  <2>5. /\ Append(work.hits, HitOf(f)) \in Seq(HitSet)
        /\ ToSet(Append(work.hits, HitOf(f))) = ToSet(work.hits) \cup {HitOf(f)}
    <3>1. PICK H, e : H = HitSet /\ e = HitOf(f)
      OBVIOUS
    <3>2. PICK q : q = work.hits
      OBVIOUS
    <3>3. Append(q, e) \in Seq(H) /\ ToSet(Append(q, e)) = ToSet(q) \cup {e}
      BY <2>2, <2>4, <3>1, <3>2, AddLast
    <3>4. QED BY <3>1, <3>2, <3>3
  <2>6. /\ work'.hits \in Seq(HitSet)
        /\ ToSet(work.hits) \subseteq ToSet(work'.hits)
        /\ LinesOf(f) # {} => HitOf(f) \in ToSet(work'.hits)
    BY <1>3, <2>1, <2>2, <2>5
  <2>7. ASSUME NEW g \in Claimed, g \notin ToSet(work'.todo)
        PROVE  ReadOf(g)'
    <3>1. CASE g = f
      BY <1>5, <1>7, <2>1, <2>2, <2>6, <3>1 DEF ReadOf, Readable
    <3>2. CASE g # f
      <4>1. ReadOf(g)
        BY <2>2, <2>3, <2>7, <3>2
      <4>2. QED BY <1>5, <1>7, <2>6, <4>1 DEF ReadOf, Readable
    <3>3. QED BY <3>1, <3>2
  <2>8. QED BY <2>2, <2>3, <2>6, <2>7
<1>11. Scanning'
  BY <1>4, <1>7, <1>8, <1>9, <1>10 DEF Scanning
<1>12. QED BY <1>1, <1>3, <1>4, <1>6, <1>11 DEF LookupInv

\* The sort keeps the hits, and no hit is lost between them and what is shown.
LEMMA ScanEndsKeeps ==
  ASSUME LookupInv, ScanEnds
  PROVE  LookupInv'
<1>1. CASE work.hits = <<>> /\ Cardinality(work.names) = 1 /\ work.names \cap Shaped = {}
  BY <1>1, EndKeeps DEF ScanEnds
<1>2. CASE ~(work.hits = <<>> /\ Cardinality(work.names) = 1 /\ work.names \cap Shaped = {})
  <2>1. DiskOK'
    BY DEF LookupInv, DiskOK, ScanEnds
  <2>2. /\ work' = [y \in Fields |-> work'[y]]
        /\ \A y \in Fields \ {"todo", "complete", "ranked", "hits"} : work'[y] = work[y]
        /\ work'.hits = SortedHits(work.hits, work.ranked) /\ work'.ranked = <<>>
        /\ phase' = "show" /\ UNCHANGED <<disk, msg, reply>> /\ phase = "scan"
    BY <1>2 DEF LookupInv, Fields, ScanEnds
  <2>3. work'.complete = (work.complete /\ work.todo = <<>>)
    BY <1>2 DEF LookupInv, Fields, ScanEnds
  <2>4. /\ work'.edited = work.edited /\ work'.names = work.names
        /\ work'.files = work.files /\ work'.missed = work.missed
        /\ work'.skipped = work.skipped
    BY <2>2 DEF Fields
  <2>5. HitSet' = HitSet /\ \A g : HitOf(g)' = HitOf(g) /\ LinesOf(g)' = LinesOf(g)
    BY <2>2, <2>4, SameHits
  <2>6. Claimed' = Claimed
    BY <2>2 DEF Claimed, InScope, OneFile
  <2>7. work'.files = <<>> /\ work'.files \in Seq(ToSet(work'.files))
    <3>1. work'.files = <<>>
      BY <2>2, <2>4 DEF LookupInv, Untouched
    <3>2. \A S : <<>> \in Seq(S)
      OBVIOUS
    <3>3. QED BY <3>1, <3>2
  <2>8. ASSUME Claimable'
        PROVE  /\ work'.hits \in Seq(HitSet)
               /\ \A f \in Claimed :
                    /\ Kind[f] = "indexed" /\ Readable(f)
                    /\ LinesOf(f) # {} => HitOf(f) \in ToSet(work'.hits)
    <3>1. Claimable /\ work.todo = <<>>
      BY <2>3, <2>4, <2>8 DEF Claimable
    <3>2. /\ work.hits \in Seq(HitSet)
          /\ \A f \in Claimed : Kind[f] = "indexed" /\ (f \in ToSet(work.todo) \/ ReadOf(f))
      BY <2>2, <3>1 DEF LookupInv, Scanning, Claimable
    <3>3. ToSet(work.todo) = {}
      BY <3>1 DEF ToSet
    <3>4. PICK H, hits, ranked : H = HitSet /\ hits = work.hits /\ ranked = work.ranked
      OBVIOUS
    <3>5. PICK S : S = ToSet(hits)
      OBVIOUS
    <3>6. hits \in Seq(H) /\ ranked \in Seq(File)
      BY <2>2, <3>2, <3>4 DEF LookupInv, Searching
    <3>7. IsFiniteSet(S) /\ S \subseteq HitSet
      BY <3>4, <3>5, <3>6, ManyElements
    <3>8. \A h \in S : \E f \in File : Readable(f) /\ h = HitOf(f)
      BY <3>7 DEF HitSet
    <3>9. \A f \in File : Readable(f) => IsFiniteSet(LinesOf(f))
      BY <2>2, LinesFinite DEF LookupInv, Searching, LinesOf
    <3>10. \A h \in S : h.file \in File /\ IsFiniteSet(h.lines)
      BY <3>8, <3>9 DEF HitOf
    <3>11. \A g, h \in S : g.file = h.file => g = h
      BY <3>8 DEF HitOf
    <3>12. InOneOrder(S, SortPairs(S, ranked))
      BY <3>6, <3>7, <3>10, <3>11, HitsOrdered
    <3>13. SortedHits(hits, ranked) \in Seq(H) /\ ToSet(SortedHits(hits, ranked)) = ToSet(hits)
      BY <3>5, <3>6, <3>12, SortKeeps
    <3>14. work'.hits \in Seq(HitSet) /\ ToSet(work'.hits) = ToSet(work.hits)
      BY <2>2, <3>4, <3>13
    <3>15. QED BY <3>2, <3>3, <3>14 DEF ReadOf
  <2>9. Searching' /\ Untouched' /\ Scanning' /\ ClaimTrue'
    BY <2>2, <2>4 DEF LookupInv, Searching, Untouched, Scanning, ClaimTrue
  <2>10. Showing'
    BY <2>2, <2>5, <2>6, <2>7, <2>8 DEF Showing, Readable
  <2>11. work'.complete \in BOOLEAN /\ work'.edited \in BOOLEAN
    BY <2>3, <2>4 DEF LookupInv
  <2>12. QED BY <2>1, <2>2, <2>9, <2>10, <2>11 DEF LookupInv
<1>3. QED BY <1>1, <1>2

LEMMA ShowFileKeeps ==
  ASSUME LookupInv, ShowFile
  PROVE  LookupInv'
<1>1. DiskOK'
  BY DEF LookupInv, DiskOK, ShowFile
<1>2. PICK f :
        /\ f.file = Head(work.hits).file /\ f.lines = Head(work.hits).lines
        /\ work' = [work EXCEPT !.hits = Tail(work.hits), !.files = Append(work.files, f),
                                !.room = IF Used(f) > work.room THEN 0 ELSE work.room - Used(f)]
  BY DEF ShowFile
<1>3. phase = "show" /\ work.hits # <<>> /\ UNCHANGED <<disk, msg, phase, reply>>
  BY DEF ShowFile
<1>4. /\ work' = [y \in Fields |-> work'[y]]
      /\ \A y \in Fields \ {"hits", "files", "room"} : work'[y] = work[y]
      /\ work'.hits = Tail(work.hits) /\ work'.files = Append(work.files, f)
  BY <1>2 DEF LookupInv, Fields
<1>5. /\ work'.complete = work.complete /\ work'.edited = work.edited
      /\ work'.names = work.names /\ work'.ranked = work.ranked
      /\ work'.missed = work.missed /\ work'.skipped = work.skipped
  BY <1>4 DEF Fields
<1>6. HitSet' = HitSet /\ \A g : HitOf(g)' = HitOf(g) /\ LinesOf(g)' = LinesOf(g)
  BY <1>3, <1>5, SameHits
<1>7. Claimed' = Claimed
  BY <1>3 DEF Claimed, InScope, OneFile
<1>8. work.files \in Seq(ToSet(work.files))
  BY <1>3 DEF LookupInv, Showing
<1>9. work'.files \in Seq(ToSet(work'.files))
  <2>1. PICK q, S : q = work.files /\ S = ToSet(q)
    OBVIOUS
  <2>2. q \in Seq(S \cup {f})
    BY <1>8, <2>1
  <2>3. Append(q, f) \in Seq(S \cup {f}) /\ ToSet(Append(q, f)) = S \cup {f}
    BY <2>1, <2>2, AddLast
  <2>4. QED BY <1>4, <2>1, <2>3
<1>10. /\ \A i \in DOMAIN work.files : i \in DOMAIN work'.files /\ work'.files[i] = work.files[i]
       /\ \E i \in DOMAIN work'.files : work'.files[i] = f
  BY <1>4, <1>8
<1>11. ASSUME Claimable'
       PROVE  /\ work'.hits \in Seq(HitSet)
              /\ \A g \in Claimed :
                   /\ Kind[g] = "indexed" /\ Readable(g)
                   /\ LinesOf(g) # {} => HitOf(g) \in ToSet(work'.hits) \/ ShownOf(g)'
  <2>1. Claimable
    BY <1>5, <1>11 DEF Claimable
  <2>2. /\ work.hits \in Seq(HitSet)
        /\ \A g \in Claimed :
             /\ Kind[g] = "indexed" /\ Readable(g)
             /\ LinesOf(g) # {} => HitOf(g) \in ToSet(work.hits) \/ ShownOf(g)
    BY <1>3, <2>1 DEF LookupInv, Showing
  <2>3. /\ Tail(work.hits) \in Seq(HitSet)
        /\ ToSet(work.hits) = {Head(work.hits)} \cup ToSet(Tail(work.hits))
    BY <1>3, <2>2, TakeOff
  <2>4. ASSUME NEW g \in Claimed, HitOf(g) = Head(work.hits) PROVE ShownOf(g)'
    <3>1. f.file = g /\ f.lines = LinesOf(g)
      BY <1>2, <2>4 DEF HitOf
    <3>2. QED BY <1>6, <1>10, <3>1 DEF ShownOf
  <2>5. ASSUME NEW g \in Claimed, ShownOf(g) PROVE ShownOf(g)'
    BY <1>6, <1>10, <2>5 DEF ShownOf
  <2>6. QED BY <1>4, <2>2, <2>3, <2>4, <2>5
<1>12. Searching' /\ Untouched' /\ Scanning' /\ ClaimTrue'
  BY <1>3, <1>5 DEF LookupInv, Searching, Untouched, Scanning, ClaimTrue
<1>13. Showing'
  BY <1>6, <1>7, <1>3, <1>9, <1>11 DEF Showing, Readable
<1>14. work'.complete \in BOOLEAN /\ work'.edited \in BOOLEAN
  BY <1>5 DEF LookupInv
<1>15. work' = [y \in Fields |-> work'[y]]
  BY <1>4
<1>16. QED BY <1>1, <1>12, <1>13, <1>14, <1>15, Zenon DEF LookupInv

-----------------------------------------------------------------------------
\* The answer claims to be complete only if the lookup still can, and if every
\* listed file is shown with all its lines.
LEMMA RenderMatchesKeeps ==
  ASSUME LookupInv, RenderMatches
  PROVE  LookupInv'
<1>1. DiskOK'
  BY DEF LookupInv, DiskOK, RenderMatches
<1>2. PICK shown : shown = MatchBody(work.files)
  OBVIOUS
<1>3. /\ phase = "show" /\ work.hits = <<>> /\ phase' = "write" /\ UNCHANGED <<disk, msg, work>>
      /\ reply'.shown = shown /\ reply'.files = work.files
      /\ reply'.claim => /\ work.complete /\ work.skipped = 0
                         /\ work.files # <<>> => Complete(work.files, shown)
  BY <1>2 DEF RenderMatches, Complete
<1>4. \A g : LinesOf(g)' = LinesOf(g)
  BY <1>3, SameHits
<1>5. Claimed' = Claimed
  BY <1>3 DEF Claimed, InScope, OneFile
<1>6. ClaimTrue'
  <2> SUFFICES ASSUME reply'.claim, ~work.edited, work.missed = {}, NEW f \in Claimed
               PROVE  /\ Kind[f] = "indexed" /\ Readable(f)
                      /\ LinesOf(f) # {} =>
                           \E i \in DOMAIN work.files :
                             /\ work.files[i].file = f
                             /\ \/ shown[i] = Cardinality(LinesOf(f))
                                \/ f \in Prose /\ \E j \in DOMAIN work.files :
                                                     work.files[j].file \notin Prose
    BY <1>3, <1>4, <1>5 DEF ClaimTrue, Readable
  <2>1. Claimable
    BY <1>3 DEF Claimable
  <2>2. /\ Kind[f] = "indexed" /\ Readable(f)
        /\ LinesOf(f) # {} => ShownOf(f)
    BY <1>3, <2>1 DEF LookupInv, Showing, ToSet
  <2>3. ASSUME LinesOf(f) # {}
        PROVE  \E i \in DOMAIN work.files :
                 /\ work.files[i].file = f
                 /\ \/ shown[i] = Cardinality(LinesOf(f))
                    \/ f \in Prose /\ \E j \in DOMAIN work.files :
                                         work.files[j].file \notin Prose
    <3>1. PICK i \in DOMAIN work.files :
            work.files[i].file = f /\ work.files[i].lines = LinesOf(f)
      BY <2>2, <2>3 DEF ShownOf
    <3>2. Complete(work.files, shown)
      BY <1>3, <3>1
    <3>3. Listed(work.files, i) => shown[i] = Cardinality(work.files[i].lines)
      BY <3>1, <3>2 DEF Complete
    <3>4. ~Listed(work.files, i) =>
            f \in Prose /\ \E j \in DOMAIN work.files : work.files[j].file \notin Prose
      BY <3>1 DEF Listed
    <3>5. QED BY <3>1, <3>3, <3>4
  <2>4. QED BY <2>2, <2>3
<1>7. Searching' /\ Untouched' /\ Scanning' /\ Showing'
  BY <1>3 DEF Searching, Untouched, Scanning, Showing
<1>8. work' = [y \in Fields |-> work'[y]] /\ work'.complete \in BOOLEAN /\ work'.edited \in BOOLEAN
  BY <1>3 DEF LookupInv
<1>9. QED BY <1>1, <1>6, <1>7, <1>8 DEF LookupInv

LEMMA LookupStepKeeps == LookupInv /\ [LookupNext]_lookupVars => LookupInv'
<1> SUFFICES ASSUME LookupInv, [LookupNext]_lookupVars PROVE LookupInv'
  OBVIOUS
<1>1. CASE RankedPaths
  BY <1>1, RankedPathsKeeps
<1>2. CASE Describe
  <2>1. disk' = disk /\ work' = NoWork /\ phase' = "write"
    BY <1>2 DEF Describe
  <2>2. reply'.kind # "matches"
    BY <1>2 DEF Describe, ReplyOf
  <2>3. QED BY <2>1, <2>2, EndKeeps
<1>3. CASE WalkOneFile
  BY <1>3, WalkOneFileKeeps
<1>4. CASE Walk
  BY <1>4, WalkKeeps
<1>5. CASE ScanFile
  BY <1>5, ScanFileKeeps
<1>6. CASE ScanEnds
  BY <1>6, ScanEndsKeeps
<1>7. CASE ShowFile
  BY <1>7, ShowFileKeeps
<1>8. CASE RenderMatches
  BY <1>8, RenderMatchesKeeps
<1>9. CASE Write
  BY <1>9, EndKeeps DEF Write
<1>10. CASE Delay
  BY <1>10, DelayKeeps DEF Delay
<1>11. ASSUME NEW m \in Message, Receive(m) PROVE LookupInv'
  BY <1>11, ReceiveKeeps
<1>12. ASSUME NEW f \in File, Change(f) PROVE LookupInv'
  BY <1>12, ChangeKeeps
<1>13. CASE UNCHANGED lookupVars
  BY <1>13, DelayKeeps DEF lookupVars
<1>14. QED
  BY <1>1, <1>2, <1>3, <1>4, <1>5, <1>6, <1>7, <1>8, <1>9, <1>10, <1>11, <1>12, <1>13
  DEF LookupNext, Handle

(* If the answer to a lookup says that it is complete, no file changed      *)
(* meanwhile and the walk listed all, then every file of its scope that has *)
(* one of the names is listed with all its lines, or is prose next to code: *)
(* for any files, scopes, rankings, names, caps and deadlines.              *)
THEOREM CompleteAnswers == LookupSpec => []CompleteTrue
<1>1. LookupInv => CompleteTrue
  BY DEF LookupInv, ClaimTrue, CompleteTrue, LinesOf
<1>2. QED BY <1>1, LookupStart, LookupStepKeeps, PTL DEF LookupSpec

-----------------------------------------------------------------------------
(***************************************************************************)
(* What the room of the cap is counted against.  Until it is used up, it   *)
(* is the cap without what the files so far take; and a file is only       *)
(* counted if those before it take the whole cap.                          *)
(***************************************************************************)
Lined == {L \in SUBSET Nat : L # {} /\ IsFiniteSet(L)}
FoundHit == [file : File, lines : Lined]
TakenHit == [file : File, lines : Lined, listing : {"counted", "flat", "grouped"},
           headers : SUBSET Nat]
Apart(hits) == \A g, h \in ToSet(hits) : g.file = h.file => g = h
UsesOf(files) == [i \in 1..Len(files) |-> Used(files[i])]

\* No file is ranked, or read, twice.
OnceRanked ==
  /\ phase \in {"rank", "walk", "scan"} => work.room = MaxChars /\ IsInjective(work.ranked)
  /\ phase = "scan" =>
       /\ work.todo \in Seq(File) /\ IsInjective(work.todo)
       /\ work.hits \in Seq(FoundHit) /\ Apart(work.hits)
       /\ \A h \in ToSet(work.hits) : h.file \notin ToSet(work.todo)

RoomRight(files, room) ==
  /\ files \in Seq(TakenHit) /\ UsesOf(files) \in Seq(Nat) /\ room \in Nat
  /\ IF room = 0 THEN SumOf(UsesOf(files)) >= MaxChars
     ELSE room + SumOf(UsesOf(files)) = MaxChars
  /\ \A i \in 1..Len(files) :
       files[i].listing = "counted" => PartSums(UsesOf(files))[i - 1] >= MaxChars
Counting == phase = "show" => work.hits \in Seq(FoundHit) /\ RoomRight(work.files, work.room)

CountInv == OnceRanked /\ Counting /\ CountedNeverFits

\* The lines on which the names of a query stand.
LEMMA LinesNumbered ==
  ASSUME NEW m \in {n \in Message : n.method = "call" /\ n.search}, DiskOK,
         NEW f \in File, Readable(f)
  PROVE  HitLines(f, IdentifierQuery(m)) \subseteq Nat
<1>1. disk[f] \in DOMAIN Matches[f]
  BY DEF DiskOK, Readable
<1>2. \A x \in IdentifierQuery(m) : Matches[f][disk[f]][x] \subseteq Nat
  BY <1>1, MessageAssumption
<1>3. QED BY <1>2 DEF HitLines

LEMMA RankedFirstOnce ==
  ASSUME NEW files \in Seq(File), NEW ranked \in Seq(File),
         IsInjective(files), IsInjective(ranked)
  PROVE  IsInjective(RankedFirst(files, ranked))
<1> DEFINE R == {i \in DOMAIN ranked : ranked[i] \in ToSet(files)}
           F == {i \in DOMAIN files : files[i] \notin ToSet(ranked)}
           front == {ranked[i] : i \in R}
           back == {files[i] : i \in F}
<1>1. /\ DOMAIN ranked = 1..Len(ranked) /\ Len(ranked) \in Nat
      /\ DOMAIN files = 1..Len(files) /\ Len(files) \in Nat
  OBVIOUS
<1>2. IsFiniteSet(1..Len(ranked)) /\ IsFiniteSet(1..Len(files))
  BY <1>1, FS_Interval
<1>3. R \in SUBSET (1..Len(ranked)) /\ F \in SUBSET (1..Len(files))
  BY <1>1
<1>4. IsFiniteSet(R) /\ R \subseteq Int /\ IsFiniteSet(F) /\ F \subseteq Int
  <2>1. IsFiniteSet(R) /\ IsFiniteSet(F)
    BY <1>2, <1>3, FS_Subset
  <2>2. QED BY <1>1, <1>3, <2>1
<1>5. /\ \A i, j \in R : ranked[i] = ranked[j] => i = j
      /\ \A i, j \in F : files[i] = files[j] => i = j
  BY DEF IsInjective
<1>6. \A x \in front : x \notin back
  BY DEF ToSet
<1>7. front \subseteq File /\ back \subseteq File
  BY <1>1
<1>8. RankedFirst(files, ranked) = At(ranked, R) \o At(files, F)
  BY DEF RankedFirst
<1> HIDE DEF R, F
<1>9. /\ At(ranked, R) \in Seq(front) /\ ToSet(At(ranked, R)) = front
      /\ At(files, F) \in Seq(back) /\ ToSet(At(files, F)) = back
      /\ IsInjective(At(ranked, R)) /\ IsInjective(At(files, F))
  <2>1. /\ At(ranked, R) \in Seq(front) /\ ToSet(At(ranked, R)) = front
        /\ At(files, F) \in Seq(back) /\ ToSet(At(files, F)) = back
    BY <1>4, AtElements
  <2>2. IsInjective(At(ranked, R)) /\ IsInjective(At(files, F))
    BY <1>4, <1>5, AtInjective
  <2>3. QED BY <2>1, <2>2
<1> HIDE DEF front, back
<1>10. PICK q, r : q = At(ranked, R) /\ r = At(files, F)
  OBVIOUS
<1>11. q \in Seq(File) /\ r \in Seq(File)
  BY <1>7, <1>9, <1>10
<1>12. IsInjective(q) /\ IsInjective(r) /\ \A x \in ToSet(q) : x \notin ToSet(r)
  BY <1>6, <1>9, <1>10
<1>13. IsInjective(q \o r)
  BY <1>11, <1>12, JoinInjective
<1>14. QED BY <1>8, <1>10, <1>13

LEMMA CountStart == LookupInit => CountInv
BY DEF LookupInit, CountInv, OnceRanked, Counting, CountedNeverFits

\* A step that leaves the lookup alone, or ends it without an answer of matches.
LEMMA CountStays ==
  ASSUME CountInv, UNCHANGED <<phase, reply>>,
         \A y \in {"todo", "hits", "files", "room", "ranked"} : work'[y] = work[y]
  PROVE  CountInv'
<1>1. /\ work'.todo = work.todo /\ work'.hits = work.hits /\ work'.files = work.files
      /\ work'.room = work.room /\ work'.ranked = work.ranked
  OBVIOUS
<1>2. OnceRanked' /\ Counting'
  BY <1>1 DEF CountInv, OnceRanked, Counting
<1>3. CountedNeverFits'
  BY DEF CountInv, CountedNeverFits
<1>4. QED BY <1>2, <1>3 DEF CountInv

LEMMA CountEnds ==
  ASSUME CountInv,
         phase' \in {"idle", "describe"} \/ (phase' = "write" /\ reply'.kind # "matches")
  PROVE  CountInv'
BY DEF CountInv, OnceRanked, Counting, CountedNeverFits

LEMMA ReceiveCounts ==
  ASSUME CountInv, NEW m \in Message, Receive(m)
  PROVE  CountInv'
<1>1. /\ work' = [y \in Fields |-> work'[y]]
      /\ \A y \in Fields \ {"names"} : work'[y] = NoWork[y]
  BY DEF Receive, NoWork, Fields
<1>2. work'.ranked = <<>> /\ work'.room = MaxChars
  BY <1>1 DEF Fields, NoWork
<1>3. IsInjective(<<>>)
  BY DEF IsInjective
<1>4. phase' \in {"write", "describe", "walk", "rank"} /\ (phase' = "write" <=> reply' # Nothing)
  BY DEF Receive
<1>5. reply' # Nothing => reply'.kind # "matches"
  <2>1. \A k \in {"parse error", "method not found", "result", "error"} :
          ReplyOf(k).kind # "matches"
    BY DEF ReplyOf
  <2>2. \/ reply' = Nothing
        \/ \E k \in {"parse error", "method not found", "result", "error"} : reply' = ReplyOf(k)
    BY DEF Receive
  <2>3. QED BY <2>1, <2>2
<1>6. CASE phase' \in {"walk", "rank"}
  BY <1>2, <1>3, <1>6 DEF CountInv, OnceRanked, Counting, CountedNeverFits
<1>7. CASE phase' \in {"write", "describe"}
  BY <1>4, <1>5, <1>7, CountEnds
<1>8. QED BY <1>4, <1>6, <1>7

LEMMA RankedPathsCounts ==
  ASSUME LookupInv, CountInv, RankedPaths
  PROVE  CountInv'
<1>1. PICK r \in Rankings \cup {<<>>} : work' = [work EXCEPT !.ranked = r]
  BY DEF RankedPaths
<1>2. IsInjective(r)
  <2>1. IsInjective(<<>>)
    BY DEF IsInjective
  <2>2. QED BY <2>1, LookupAssumption
<1>3. work'.ranked = r /\ work'.room = work.room
  BY <1>1 DEF LookupInv, Fields
<1>4. phase = "rank" /\ phase' = "walk"
  BY DEF RankedPaths
<1>5. QED BY <1>2, <1>3, <1>4 DEF CountInv, OnceRanked, Counting, CountedNeverFits

LEMMA ScannedCounts ==
  ASSUME LookupInv, CountInv, phase = "walk",
         NEW files \in Seq(File), IsInjective(files), NEW skipped, NEW complete, NEW missed,
         Scanned(files, skipped, complete, missed)
  PROVE  CountInv'
<1>1. /\ work'.todo = RankedFirst(files, work.ranked) /\ phase' = "scan"
      /\ work'.room = work.room /\ work'.ranked = work.ranked /\ work'.hits = work.hits
  BY DEF LookupInv, Fields, Scanned
<1>2. PICK ranked : ranked = work.ranked
  OBVIOUS
<1>3. ranked \in Seq(File) /\ IsInjective(ranked) /\ work.hits = <<>> /\ work.room = MaxChars
  BY <1>2 DEF LookupInv, Searching, Untouched, CountInv, OnceRanked
<1>4. work'.todo \in Seq(File) /\ IsInjective(work'.todo)
  BY <1>1, <1>2, <1>3, RankedFirstKeeps, RankedFirstOnce
<1>5. <<>> \in Seq(FoundHit) /\ ToSet(<<>>) = {}
  BY DEF ToSet
<1>6. OnceRanked'
  BY <1>1, <1>2, <1>3, <1>4, <1>5 DEF OnceRanked, Apart
<1>7. QED BY <1>1, <1>6 DEF CountInv, Counting, CountedNeverFits

LEMMA WalkOneFileCounts ==
  ASSUME LookupInv, CountInv, WalkOneFile
  PROVE  CountInv'
<1> DEFINE gone == disk[msg.scope] = Gone
<1>0. CASE gone
  <2>1. Scanned(<<>>, 0, ~late', {}) /\ phase = "walk"
    BY <1>0 DEF WalkOneFile
  <2>2. <<>> \in Seq(File) /\ IsInjective(<<>>)
    BY DEF IsInjective
  <2>3. PICK files : files = <<>>
    OBVIOUS
  <2>4. Scanned(files, 0, ~late', {}) /\ files \in Seq(File) /\ IsInjective(files)
    BY <2>1, <2>2, <2>3
  <2>5. QED BY <2>1, <2>4, ScannedCounts
<1>1. CASE ~gone /\ Kind[msg.scope] = "indexed"
  <2>1. PICK files : files = <<msg.scope>>
    OBVIOUS
  <2>2. Scanned(files, 0, TRUE, {}) /\ phase = "walk"
    BY <1>1, <2>1 DEF WalkOneFile
  <2>3. files \in Seq(File)
    BY <2>1 DEF WalkOneFile, OneFile
  <2>4. IsInjective(files)
    BY <2>1 DEF IsInjective
  <2>5. QED BY <2>2, <2>3, <2>4, ScannedCounts
<1>2. CASE ~gone /\ Kind[msg.scope] # "indexed"
  <2>1. phase' = "write" /\ reply' = ReplyOf("error")
    BY <1>2 DEF WalkOneFile
  <2>2. reply'.kind # "matches"
    BY <2>1 DEF ReplyOf
  <2>3. QED BY <2>1, <2>2, CountEnds
<1>3. QED BY <1>0, <1>1, <1>2

\* The walk stops somewhere: at the file that is one too many, or at the end.
LEMMA WalkStops ==
  ASSUME NEW entries \in Seq(File)
  PROVE  \E n \in 0..Len(entries) : StopsAt(entries, n)
<1> DEFINE count(n) == Cardinality(IndexedUpTo(entries, n))
<1> PICK l \in Nat : l = Len(entries)
  OBVIOUS
<1> SUFFICES ASSUME \A n \in 0..l : ~StopsAt(entries, n) PROVE FALSE
  OBVIOUS
<1>1. MaxWalk \in Nat
  BY LookupAssumption
<1>2. ASSUME NEW n \in 0..l PROVE IsFiniteSet(IndexedUpTo(entries, n)) /\ count(n) \in Nat
  <2>1. IsFiniteSet(1..n)
    BY FS_Interval
  <2>2. IndexedUpTo(entries, n) \in SUBSET (1..n)
    BY DEF IndexedUpTo
  <2>3. QED BY <2>1, <2>2, FS_Subset, FS_CardinalityType
<1>3. count(0) = 0
  <2>1. IndexedUpTo(entries, 0) = {}
    BY DEF IndexedUpTo
  <2>2. QED BY <2>1, FS_EmptySet
<1>4. ASSUME NEW n \in 0..(l - 1) PROVE count(n + 1) <= count(n) + 1
  <2>1. PICK A, B : A = IndexedUpTo(entries, n) /\ B = IndexedUpTo(entries, n + 1)
    OBVIOUS
  <2>2. B = A \/ B = A \cup {n + 1}
    <3>1. 1..(n + 1) = 1..n \cup {n + 1}
      OBVIOUS
    <3>2. QED BY <2>1, <3>1 DEF IndexedUpTo
  <2>3. IsFiniteSet(A) /\ Cardinality(A) \in Nat
    <3>1. n \in 0..l
      OBVIOUS
    <3>2. QED BY <1>2, <2>1, <3>1
  <2>4. Cardinality(B) <= Cardinality(A) + 1
    <3>1. n + 1 \notin A
      BY <2>1 DEF IndexedUpTo
    <3>2. PICK x : x = n + 1
      OBVIOUS
    <3>3. Cardinality(A \cup {x}) = Cardinality(A) + 1
      BY <2>3, <3>1, <3>2, FS_AddElement
    <3>4. CASE B = A
      BY <2>3, <3>4
    <3>5. CASE B = A \cup {n + 1}
      BY <3>2, <3>3, <3>5, <2>3
    <3>6. QED BY <2>2, <3>4, <3>5
  <2>5. QED BY <2>1, <2>4
<1> HIDE DEF count
<1> DEFINE S == {n \in 0..l : \A k \in 0..n : count(k) < MaxWalk}
<1>5. 0 \in S
  <2>1. 0 \in 0..l /\ ~StopsAt(entries, 0)
    OBVIOUS
  <2>2. ~(count(0) <= MaxWalk /\ (0 < l => count(0) = MaxWalk))
    BY <2>1 DEF StopsAt, count
  <2>3. QED BY <1>1, <1>3, <2>2
<1>6. ASSUME NEW n \in 0..(l - 1), n \in S PROVE n + 1 \in S
  <2>1. n + 1 \in 0..l /\ n \in 0..l /\ \A k \in 0..n : count(k) < MaxWalk
    BY <1>6
  <2>2. ~(/\ count(n + 1) <= MaxWalk
          /\ n + 1 < l => count(n + 1) = MaxWalk
          /\ \A k \in 0..(n + 1 - 1) : count(k) < MaxWalk)
    BY <2>1 DEF StopsAt, count
  <2>3. count(n + 1) <= count(n) + 1 /\ count(n) \in Nat /\ count(n + 1) \in Nat
    BY <1>2, <1>4, <2>1
  <2>4. count(n) < MaxWalk
    BY <2>1
  <2>5. \A k \in 0..(n + 1 - 1) : count(k) < MaxWalk
    BY <2>1
  <2>6. count(n + 1) < MaxWalk
    BY <1>1, <2>2, <2>3, <2>4, <2>5
  <2>7. \A k \in 0..(n + 1) : k \in 0..n \/ k = n + 1
    OBVIOUS
  <2>8. \A k \in 0..(n + 1) : count(k) < MaxWalk
    BY <2>1, <2>6, <2>7
  <2>9. QED BY <2>1, <2>8
<1>7. \A n \in 0..l : n \in S
  <2> HIDE DEF S
  <2>1. QED BY <1>5, <1>6, LoopInduction
<1>8. \A k \in 0..l : count(k) < MaxWalk
  BY <1>7
<1>9. StopsAt(entries, l)
  <2>1. \A k \in 0..(l - 1) : count(k) < MaxWalk
    BY <1>8
  <2>2. count(l) <= MaxWalk
    BY <1>1, <1>2, <1>8
  <2>3. QED BY <2>1, <2>2 DEF StopsAt, count
<1>10. QED BY <1>9

LEMMA LeastOf ==
  ASSUME NEW a \in Int, NEW b \in Int
  PROVE  Min({a, b}) = IF a <= b THEN a ELSE b
<1> DEFINE m == IF a <= b THEN a ELSE b
<1>1. m \in {a, b} /\ \A y \in {a, b} : m <= y
  OBVIOUS
<1>2. \A x \in {a, b} : (\A y \in {a, b} : x <= y) => x = m
  OBVIOUS
<1>3. QED BY <1>1, <1>2 DEF Min

LEMMA WalkCounts ==
  ASSUME LookupInv, CountInv, Walk
  PROVE  CountInv'
<1> DEFINE listed(unlisted) == {i \in DOMAIN WalkOrder :
                                  /\ InScope(WalkOrder[i], msg) /\ disk[WalkOrder[i]] # Gone
                                  /\ WalkOrder[i] \notin unlisted}
<1>1. PICK unlisted, cut : cut \in 0..Len(WalkOrder) /\ WalkUpTo(unlisted, cut)
  BY DEF Walk
<1> PICK entries, end : entries = Entries(unlisted) /\ end = WalkEnd(entries, cut)
  OBVIOUS
<1> DEFINE T == listed(unlisted)
<1>2. /\ DOMAIN WalkOrder = 1..Len(WalkOrder) /\ Len(WalkOrder) \in Nat
      /\ \A i \in DOMAIN WalkOrder : WalkOrder[i] \in File
      /\ \A i, j \in DOMAIN WalkOrder : WalkOrder[i] = WalkOrder[j] => i = j
  BY LookupAssumption DEF IsInjective
<1>3. T \in SUBSET (1..Len(WalkOrder))
  BY <1>2
<1>4. IsFiniteSet(T) /\ T \subseteq Int
  <2>1. IsFiniteSet(1..Len(WalkOrder))
    BY <1>2, FS_Interval
  <2>2. IsFiniteSet(T)
    BY <1>3, <2>1, FS_Subset
  <2>3. QED BY <1>2, <1>3, <2>2
<1>5. \A i, j \in T : WalkOrder[i] = WalkOrder[j] => i = j
  BY <1>2, <1>3
<1> HIDE DEF T
<1>7. IsInjective(entries)
  <2>1. entries = At(WalkOrder, T)
    BY DEF Entries, T
  <2>2. IsInjective(At(WalkOrder, T))
    BY <1>4, <1>5, AtInjective
  <2>3. QED BY <2>1, <2>2
<1>8. entries \in Seq(File)
  <2>1. \A i \in T : WalkOrder[i] \in File
    BY <1>2, <1>3
  <2>2. At(WalkOrder, T) \in Seq(File)
    BY <1>4, <2>1, AtWithin
  <2>3. QED BY <2>2 DEF Entries, T
<1>9. PICK n \in Nat : n = Len(entries)
  BY <1>8
<1>10. end \in 0..n
  <2>1. PICK r : r = CHOOSE m \in 0..Len(entries) : StopsAt(entries, m)
    OBVIOUS
  <2>2. r \in 0..n
    BY <1>8, <1>9, <2>1, WalkStops
  <2>3. end = IF late' THEN Min({cut, r}) ELSE r
    BY <2>1 DEF WalkEnd
  <2>4. Min({cut, r}) = IF cut <= r THEN cut ELSE r
    BY <1>1, <1>2, <2>2, LeastOf
  <2>5. cut \in Nat /\ (late' => cut <= n)
    BY <1>1, <1>2, <1>9 DEF WalkUpTo
  <2>6. QED BY <2>2, <2>3, <2>4, <2>5
<1>11. PICK I : I = IndexedUpTo(entries, end)
  OBVIOUS
<1>12. I \in SUBSET (1..n) /\ I \subseteq Int
  BY <1>9, <1>10, <1>11 DEF IndexedUpTo
<1>13. IsFiniteSet(I)
  <2>1. IsFiniteSet(1..n)
    BY FS_Interval
  <2>2. QED BY <1>12, <2>1, FS_Subset
<1>14. \A i, j \in I : entries[i] = entries[j] => i = j
  BY <1>7, <1>8, <1>9, <1>12 DEF IsInjective
<1>15. PICK files : files = At(entries, I)
  OBVIOUS
<1>16. IsInjective(files)
  BY <1>12, <1>13, <1>14, <1>15, AtInjective
<1>17. \A i \in I : entries[i] \in File
  BY <1>8, <1>9, <1>12
<1>18. files \in Seq(File)
  BY <1>12, <1>13, <1>15, <1>17, AtWithin
<1>19. PICK skipped, complete :
         Scanned(files, skipped, complete, unlisted)
  BY <1>1, <1>11, <1>15 DEF WalkUpTo
<1>20. phase = "walk"
  BY DEF Walk
<1>21. QED BY <1>16, <1>18, <1>19, <1>20, ScannedCounts

\* The element taken from a list without repetition is not left in it.
LEMMA TakeOffOnce ==
  ASSUME NEW S, NEW q \in Seq(S), q # <<>>, IsInjective(q)
  PROVE  IsInjective(Tail(q)) /\ Head(q) \notin ToSet(Tail(q))
<1>1. /\ Len(q) \in Nat \ {0} /\ DOMAIN q = 1..Len(q) /\ Head(q) = q[1]
      /\ DOMAIN Tail(q) = 1..(Len(q) - 1)
      /\ \A i \in 1..(Len(q) - 1) : Tail(q)[i] = q[i + 1]
  OBVIOUS
<1>2. PICK r, x : r = Tail(q) /\ x = Head(q)
  OBVIOUS
<1> PICK l \in Nat : Len(q) = l + 1
  <2>1. Len(q) - 1 \in Nat /\ Len(q) = (Len(q) - 1) + 1
    BY <1>1
  <2>2. QED BY <2>1
<1>3. /\ DOMAIN r = 1..l /\ 1..(l + 1) = DOMAIN q
      /\ \A i \in 1..l : r[i] = q[i + 1]
  BY <1>1, <1>2
<1>4. \A i, j \in 1..(l + 1) : q[i] = q[j] => i = j
  BY <1>3 DEF IsInjective
<1>5. ASSUME NEW i \in 1..l, NEW j \in 1..l, r[i] = r[j] PROVE i = j
  <2>1. i + 1 \in 1..(l + 1) /\ j + 1 \in 1..(l + 1) /\ q[i + 1] = q[j + 1]
    BY <1>3, <1>5
  <2>2. i + 1 = j + 1
    BY <1>4, <2>1
  <2>3. QED BY <2>2
<1>6. ASSUME NEW i \in 1..l PROVE r[i] # q[1]
  <2>1. i + 1 \in 1..(l + 1) /\ 1 \in 1..(l + 1) /\ i + 1 # 1
    OBVIOUS
  <2>2. QED BY <1>3, <1>4, <2>1
<1>7. IsInjective(r)
  BY <1>3, <1>5 DEF IsInjective
<1>8. x \notin ToSet(r)
  BY <1>1, <1>2, <1>3, <1>6 DEF ToSet
<1>9. QED BY <1>2, <1>7, <1>8, Zenon

LEMMA ScanFileCounts ==
  ASSUME LookupInv, CountInv, ScanFile
  PROVE  CountInv'
<1>1. PICK f, q, hits : f = Head(work.todo) /\ q = work.todo /\ hits = work.hits
  OBVIOUS
<1>2. /\ work'.todo = Tail(q)
      /\ work'.hits = IF ~Readable(f) \/ LinesOf(f) = {} THEN hits ELSE Append(hits, HitOf(f))
      /\ work'.room = work.room /\ work'.ranked = work.ranked
  BY <1>1 DEF LookupInv, Fields, ScanFile, HitOf, LinesOf
<1>3. phase = "scan" /\ q # <<>> /\ UNCHANGED <<disk, msg, phase, reply>>
  BY <1>1 DEF ScanFile
<1>4. /\ work.room = MaxChars /\ IsInjective(work.ranked)
      /\ q \in Seq(File) /\ IsInjective(q) /\ hits \in Seq(FoundHit)
  BY <1>1, <1>3 DEF CountInv, OnceRanked
<1>5. Apart(hits) /\ \A h \in ToSet(hits) : h.file \notin ToSet(q)
  BY <1>1, <1>3 DEF CountInv, OnceRanked
<1>6. f \in File /\ Tail(q) \in Seq(File) /\ ToSet(q) = {f} \cup ToSet(Tail(q))
  BY <1>1, <1>3, <1>4, TakeOff
<1>7. IsInjective(Tail(q)) /\ f \notin ToSet(Tail(q))
  BY <1>1, <1>3, <1>4, TakeOffOnce
<1>8. CASE ~Readable(f) \/ LinesOf(f) = {}
  <2>1. work'.hits = hits
    BY <1>2, <1>8
  <2>2. \A h \in ToSet(hits) : h.file \notin ToSet(Tail(q))
    BY <1>5, <1>6
  <2>3. OnceRanked'
    BY <1>2, <1>3, <1>4, <1>5, <1>6, <1>7, <2>1, <2>2 DEF OnceRanked, Apart
  <2>4. QED BY <1>3, <2>3 DEF CountInv, Counting, CountedNeverFits
<1>9. CASE ~(~Readable(f) \/ LinesOf(f) = {})
  <2>1. PICK h : h = HitOf(f)
    OBVIOUS
  <2>2. LinesOf(f) \in Lined
    <3>1. msg \in {m \in Message : m.method = "call" /\ m.search}
          /\ work.names = IdentifierQuery(msg) /\ DiskOK
      BY <1>3 DEF LookupInv, Searching
    <3>2. LinesOf(f) = HitLines(f, IdentifierQuery(msg))
      BY <3>1 DEF LinesOf
    <3>3. IsFiniteSet(LinesOf(f))
      BY <1>6, <1>9, <3>1, <3>2, LinesFinite
    <3>4. LinesOf(f) \subseteq Nat
      BY <1>6, <1>9, <3>1, <3>2, LinesNumbered
    <3>5. QED BY <1>9, <3>3, <3>4 DEF Lined
  <2>3. h \in FoundHit /\ h.file = f
    BY <1>6, <2>1, <2>2 DEF FoundHit, HitOf
  <2>4. Append(hits, h) \in Seq(FoundHit) /\ ToSet(Append(hits, h)) = ToSet(hits) \cup {h}
    BY <1>4, <2>3, AddLast
  <2>5. PICK new : new = Append(hits, h)
    OBVIOUS
  <2>6. work'.hits = new
    BY <1>2, <1>9, <2>1, <2>5
  <2>7. \A g \in ToSet(hits) : g.file # f
    BY <1>5, <1>6
  <2>8. Apart(new)
    BY <1>5, <2>3, <2>4, <2>5, <2>7 DEF Apart
  <2>9. \A g \in ToSet(new) : g.file \notin ToSet(Tail(q))
    BY <1>5, <1>6, <1>7, <2>3, <2>4, <2>5
  <2>10. OnceRanked'
    BY <1>2, <1>3, <1>4, <1>6, <1>7, <2>4, <2>5, <2>6, <2>8, <2>9 DEF OnceRanked, Apart
  <2>11. QED BY <1>3, <2>10 DEF CountInv, Counting, CountedNeverFits
<1>10. QED BY <1>8, <1>9

\* Nothing is shown yet, and the whole cap is left.
LEMMA NothingCounted == RoomRight(<<>>, MaxChars)
<1>1. <<>> \in Seq(TakenHit) /\ UsesOf(<<>>) = <<>> /\ <<>> \in Seq(Nat)
  BY DEF UsesOf
<1>2. SumOf(<<>>) = 0
  <2>1. PICK q : q = <<>>
    OBVIOUS
  <2>2. q \in Seq(Int) /\ Len(q) = 0
    BY <2>1
  <2>3. PartSums(q)[0] = 0
    BY <2>2, Sums
  <2>4. QED BY <2>1, <2>2, <2>3 DEF SumOf
<1>3. MaxChars \in Nat \ {0}
  BY LookupAssumption
<1>4. 1..Len(<<>>) = {} /\ MaxChars + 0 = MaxChars
  BY <1>3
<1>5. QED
  <2>1. PICK none : none = <<>>
    OBVIOUS
  <2>2. none \in Seq(TakenHit) /\ UsesOf(none) \in Seq(Nat) /\ SumOf(UsesOf(none)) = 0
        /\ 1..Len(none) = {}
    BY <1>1, <1>2, <1>4, <2>1
  <2>3. RoomRight(none, MaxChars)
    BY <1>3, <1>4, <2>2 DEF RoomRight
  <2>4. QED BY <2>1, <2>3

LEMMA ScanEndsCounts ==
  ASSUME LookupInv, CountInv, ScanEnds
  PROVE  CountInv'
<1>1. CASE work.hits = <<>> /\ Cardinality(work.names) = 1 /\ work.names \cap Shaped = {}
  <2>1. phase' = "describe"
    BY <1>1 DEF ScanEnds
  <2>2. QED BY <2>1, CountEnds
<1>2. CASE ~(work.hits = <<>> /\ Cardinality(work.names) = 1 /\ work.names \cap Shaped = {})
  <2>1. PICK hits, ranked : hits = work.hits /\ ranked = work.ranked
    OBVIOUS
  <2>2. /\ work'.hits = SortedHits(hits, ranked)
        /\ work'.files = work.files /\ work'.room = work.room
        /\ phase = "scan" /\ phase' = "show" /\ reply' = reply
    BY <1>2, <2>1 DEF LookupInv, Fields, ScanEnds
  <2>3. /\ work'.files = <<>> /\ work'.room = MaxChars /\ ranked \in Seq(File)
        /\ hits \in Seq(FoundHit) /\ Apart(hits)
    BY <2>1, <2>2 DEF LookupInv, Untouched, Searching, CountInv, OnceRanked
  <2>4. PICK S : S = ToSet(hits)
    OBVIOUS
  <2>5. IsFiniteSet(S) /\ S \subseteq FoundHit
    BY <2>3, <2>4, ManyElements
  <2>6. \A h \in S : h.file \in File /\ IsFiniteSet(h.lines)
    BY <2>5 DEF FoundHit, Lined
  <2>7. \A g, h \in S : g.file = h.file => g = h
    BY <2>3, <2>4 DEF Apart
  <2>8. InOneOrder(S, SortPairs(S, ranked))
    BY <2>3, <2>5, <2>6, <2>7, HitsOrdered
  <2>9. SortedHits(hits, ranked) \in Seq(FoundHit)
    BY <2>3, <2>4, <2>8, SortKeeps
  <2>10. Counting'
    BY <2>2, <2>3, <2>9, NothingCounted DEF Counting
  <2>11. QED BY <2>2, <2>10 DEF CountInv, OnceRanked, CountedNeverFits
<1>3. QED BY <1>1, <1>2

\* Every file that is shown takes its heading and its lines.
LEMMA TakesRoom ==
  ASSUME NEW f \in TakenHit
  PROVE  /\ Offered(f) \subseteq Nat /\ IsFiniteSet(Offered(f)) /\ Offered(f) # {}
         /\ RenderedChars(f) \in Nat \ {0} /\ Used(f) \in Nat
<1>1. f.lines \subseteq Nat /\ IsFiniteSet(f.lines) /\ f.lines # {} /\ f.headers \subseteq Nat
  BY DEF TakenHit, Lined
<1>2. Offered(f) \in SUBSET f.lines
  BY DEF Offered
<1>3. IsFiniteSet(Offered(f))
  BY <1>1, <1>2, FS_Subset
<1>4. Offered(f) # {}
  <2>1. f.lines \subseteq Int
    BY <1>1
  <2>2. PICK m \in f.lines : Place(f.lines, m) = 1
    BY <1>1, <2>1, LastOf
  <2>3. FileLines \in Nat /\ 1 <= FileLines
    BY LookupAssumption
  <2>4. Cardinality({k \in f.lines : k <= m}) = 1
    BY <2>2 DEF Place
  <2>5. m \in Offered(f)
    BY <2>3, <2>4 DEF Offered
  <2>6. QED BY <2>5
<1>5. Offered(f) \cap f.headers \in SUBSET Offered(f)
  OBVIOUS
<1>6. IsFiniteSet(Offered(f) \cap f.headers)
  BY <1>3, <1>5, FS_Subset
<1>7. Cardinality(Offered(f)) \in Nat /\ Cardinality(Offered(f) \cap f.headers) \in Nat
  BY <1>3, <1>6, FS_CardinalityType
<1>8. RenderedChars(f) \in Nat \ {0}
  BY <1>7 DEF RenderedChars, SizeOf
<1>9. QED BY <1>1, <1>2, <1>3, <1>4, <1>8 DEF Used

LEMMA RoomStaysRight ==
  ASSUME NEW files, NEW room, RoomRight(files, room),
         NEW f \in TakenHit, f.listing = "counted" => room = 0, room = 0 => f.listing = "counted"
  PROVE  RoomRight(Append(files, f), IF Used(f) > room THEN 0 ELSE room - Used(f))
<1> DEFINE left == IF Used(f) > room THEN 0 ELSE room - Used(f)
<1>1. PICK u, x : u = UsesOf(files) /\ x = Used(f)
  OBVIOUS
<1>2. PICK all : all = Append(files, f)
  OBVIOUS
<1>3. files \in Seq(TakenHit) /\ u \in Seq(Nat) /\ room \in Nat /\ x \in Nat /\ MaxChars \in Nat
  BY <1>1, TakesRoom, LookupAssumption DEF RoomRight
<1>4. PICK l \in Nat : l = Len(files)
  BY <1>3
<1>5. /\ all \in Seq(TakenHit) /\ Len(all) = l + 1 /\ all[l + 1] = f
      /\ \A i \in 1..l : all[i] = files[i]
  BY <1>2, <1>3, <1>4, AppendIs
<1>6. u = [i \in 1..l |-> Used(files[i])] /\ Len(u) = l
  BY <1>1, <1>3, <1>4 DEF UsesOf
<1>7. UsesOf(all) = Append(u, x)
  <2>1. UsesOf(all) = [i \in 1..(l + 1) |-> Used(all[i])]
    BY <1>5 DEF UsesOf
  <2>2. Append(u, x) = [i \in 1..(l + 1) |-> IF i = l + 1 THEN x ELSE u[i]]
    BY <1>3, <1>6
  <2>3. \A i \in 1..(l + 1) : Used(all[i]) = IF i = l + 1 THEN x ELSE u[i]
    BY <1>1, <1>5, <1>6
  <2>4. QED BY <2>1, <2>2, <2>3
<1>8. PICK v : v = UsesOf(all)
  OBVIOUS
<1>9. v \in Seq(Nat) /\ u \in Seq(Int) /\ x \in Int
  BY <1>3, <1>7, <1>8
<1>10. /\ \A k \in 0..l : PartSums(v)[k] = PartSums(u)[k]
       /\ SumOf(v) = SumOf(u) + x
  BY <1>6, <1>7, <1>8, <1>9, SumsAppend
<1>11. SumOf(u) \in Int /\ PartSums(u)[l] = SumOf(u)
  BY <1>6, <1>9, Sums DEF SumOf
<1>12. IF room = 0 THEN SumOf(u) >= MaxChars ELSE room + SumOf(u) = MaxChars
  BY <1>1 DEF RoomRight
<1>13. room = 0 => x = 0
  BY <1>1 DEF Used
<1>14. left \in Nat /\ (IF left = 0 THEN SumOf(v) >= MaxChars ELSE left + SumOf(v) = MaxChars)
  BY <1>1, <1>3, <1>10, <1>11, <1>12, <1>13
<1>15. ASSUME NEW i \in 1..(l + 1), all[i].listing = "counted"
       PROVE  PartSums(v)[i - 1] >= MaxChars
  <2>1. CASE i = l + 1
    <3>1. room = 0 /\ i - 1 = l /\ l \in 0..l
      BY <1>5, <1>15, <2>1
    <3>2. QED BY <1>10, <1>11, <1>12, <3>1
  <2>2. CASE i # l + 1
    <3>1. i \in 1..l /\ i - 1 \in 0..l
      BY <2>2
    <3>2. PartSums(u)[i - 1] >= MaxChars
      BY <1>1, <1>4, <1>5, <1>15, <3>1 DEF RoomRight
    <3>3. QED BY <1>10, <3>1, <3>2
  <2>3. QED BY <2>1, <2>2
<1> HIDE DEF left
<1>16. RoomRight(all, left)
  BY <1>5, <1>8, <1>9, <1>14, <1>15 DEF RoomRight
<1>17. QED BY <1>2, <1>16 DEF left

LEMMA ShowFileCounts ==
  ASSUME LookupInv, CountInv, ShowFile
  PROVE  CountInv'
<1>1. PICK hits, files, room : hits = work.hits /\ files = work.files /\ room = work.room
  OBVIOUS
<1>2. PICK h : h = Head(hits)
  OBVIOUS
<1> DEFINE taken(kind) ==
             [file |-> h.file, lines |-> h.lines, listing |-> kind,
              headers |-> IF kind = "grouped" /\ Readable(h.file)
                            THEN Headed[h.file] \cap h.lines ELSE {}]
           after(f) == [work EXCEPT !.hits = Tail(hits), !.files = Append(files, f),
                                    !.room = IF Used(f) > room THEN 0 ELSE room - Used(f)]
<1>3. PICK f : /\ work' = after(f)
               /\ f.listing \in (IF room = 0 THEN {"counted"} ELSE {"flat", "grouped"})
               /\ f.headers \in SUBSET h.lines
               /\ f = [file |-> h.file, lines |-> h.lines, listing |-> f.listing,
                       headers |-> f.headers]
  <2>1. PICK kind \in IF room = 0 THEN {"counted"} ELSE IF late THEN {"flat"}
                       ELSE {"flat", "grouped"} : work' = after(taken(kind))
    BY <1>1, <1>2 DEF ShowFile
  <2>2. PICK f : f = taken(kind)
    OBVIOUS
  <2>3. /\ f.listing = kind /\ f.file = h.file /\ f.lines = h.lines
        /\ f.headers \in SUBSET h.lines
        /\ f = [file |-> h.file, lines |-> h.lines, listing |-> kind, headers |-> f.headers]
    BY <2>2
  <2>4. f.listing \in (IF room = 0 THEN {"counted"} ELSE {"flat", "grouped"})
    BY <2>1, <2>3
  <2>5. work' = after(f)
    BY <2>1, <2>2
  <2> HIDE DEF after
  <2>6. QED BY <2>3, <2>4, <2>5, Zenon
<1>4. /\ work'.hits = Tail(hits) /\ work'.files = Append(files, f)
      /\ work'.room = IF Used(f) > room THEN 0 ELSE room - Used(f)
  BY <1>3 DEF LookupInv, Fields
<1>5. phase = "show" /\ phase' = "show" /\ hits # <<>> /\ reply' = reply
  BY <1>1 DEF ShowFile
<1>6. hits \in Seq(FoundHit) /\ RoomRight(files, room)
  BY <1>1, <1>5 DEF CountInv, Counting
<1>7. h \in FoundHit /\ Tail(hits) \in Seq(FoundHit)
  BY <1>2, <1>5, <1>6, TakeOff
<1>8. f \in TakenHit
  BY <1>3, <1>7 DEF FoundHit, TakenHit, Lined
<1>9. f.listing = "counted" <=> room = 0
  BY <1>3
<1>10. RoomRight(work'.files, work'.room)
  BY <1>4, <1>6, <1>8, <1>9, RoomStaysRight
<1>11. Counting'
  BY <1>4, <1>7, <1>10 DEF Counting
<1>12. QED BY <1>5, <1>11 DEF CountInv, OnceRanked, CountedNeverFits

\* If some file uses room, what is rendered of the files is what they use.
LEMMA RenderedIsUsed ==
  ASSUME NEW files \in Seq(TakenHit), NEW i \in 1..Len(files), Used(files[i]) # 0
  PROVE  [k \in DOMAIN files |->
            IF Listed(files, k) /\ files[k].listing # "counted"
              THEN RenderedChars(files[k]) ELSE 0] = UsesOf(files)
<1>1. DOMAIN files = 1..Len(files)
  OBVIOUS
<1>2. files[i].file \notin Prose
  BY DEF Used
<1>3. ASSUME NEW k \in 1..Len(files)
      PROVE  (IF Listed(files, k) /\ files[k].listing # "counted"
                THEN RenderedChars(files[k]) ELSE 0) = Used(files[k])
  <2>1. Listed(files, k) <=> files[k].file \notin Prose
    BY <1>1, <1>2 DEF Listed
  <2>2. QED BY <2>1 DEF Used
<1>4. QED BY <1>1, <1>3 DEF UsesOf

\* The file with which the cap is full is not shown with all its lines.
LEMMA LastIsCut ==
  ASSUME NEW files \in Seq(TakenHit), UsesOf(files) \in Seq(Nat), NEW i \in 1..Len(files),
         PartSums(UsesOf(files))[i] >= MaxChars, PartSums(UsesOf(files))[i - 1] < MaxChars
  PROVE  /\ files[i].listing # "counted" /\ Listed(files, i)
         /\ MatchBody(files)[i] < Cardinality(Offered(files[i]))
<1> PICK u, f : u = UsesOf(files) /\ f = files[i]
  OBVIOUS
<1> DEFINE room == MaxChars - SummaryMax - TailMax
<1>1. /\ MaxChars \in Nat /\ SummaryMax \in Nat /\ TailMax \in Nat
      /\ SummaryMax + TailMax \in 1..MaxChars
  BY LookupAssumption
<1>2. f \in TakenHit /\ DOMAIN files = 1..Len(files)
  OBVIOUS
<1>3. /\ Offered(f) \subseteq Nat /\ IsFiniteSet(Offered(f)) /\ Offered(f) # {}
      /\ RenderedChars(f) \in Nat \ {0} /\ Used(f) \in Nat
  BY <1>2, TakesRoom
<1>4. u \in Seq(Nat) /\ u \in Seq(Int) /\ Len(u) = Len(files) /\ u[i] = Used(f)
  BY DEF UsesOf
<1>5. PICK p : p = PartSums(u)
  OBVIOUS
<1>6. p \in [0..Len(files) -> Int] /\ p[i] = p[i - 1] + Used(f)
  BY <1>4, <1>5, Sums
<1>7. p[i - 1] \in Int /\ p[i] >= MaxChars /\ p[i - 1] < MaxChars
  BY <1>5, <1>6
<1>8. Used(f) # 0
  BY <1>1, <1>3, <1>6, <1>7
<1>9. Used(f) = RenderedChars(f) /\ f.listing # "counted" /\ f.file \notin Prose
  BY <1>8 DEF Used
<1>10. Listed(files, i)
  BY <1>9 DEF Listed
<1> DEFINE shown == {n \in Offered(f) : p[i - 1] + SizeTo(f, n) <= room}
<1>11. MatchBody(files)[i] = Cardinality(shown)
  <2>1. PICK s : s = [k \in DOMAIN files |->
                        IF Listed(files, k) /\ files[k].listing # "counted"
                          THEN RenderedChars(files[k]) ELSE 0]
    OBVIOUS
  <2>2. s = u
    BY <1>8, <2>1, RenderedIsUsed
  <2>3. MatchBody(files)[i] =
          Cardinality({n \in Offered(files[i]) :
                         PartSums(s)[i - 1] + SizeTo(files[i], n) <= room})
    BY <1>2, <1>9, <1>10, <2>1 DEF MatchBody
  <2>4. QED BY <1>5, <2>2, <2>3
<1>12. Offered(f) \subseteq Int
  BY <1>3
<1>13. PICK m \in Offered(f) : \A n \in Offered(f) : n <= m
  BY <1>3, <1>12, LastOf
<1>14. SizeTo(f, m) = RenderedChars(f)
  <2>1. {k \in Offered(f) : k <= m} = Offered(f)
    BY <1>13
  <2>2. QED BY <2>1 DEF SizeTo, RenderedChars
<1>15. m \notin shown
  BY <1>1, <1>3, <1>6, <1>7, <1>9, <1>14
<1>16. PICK A, B : A = shown /\ B = Offered(f)
  OBVIOUS
<1>17. A \in SUBSET B /\ A # B /\ IsFiniteSet(B)
  BY <1>3, <1>13, <1>15, <1>16
<1>18. IsFiniteSet(A) /\ Cardinality(A) <= Cardinality(B) /\ Cardinality(A) # Cardinality(B)
  BY <1>17, FS_Subset
<1>19. Cardinality(A) \in Nat /\ Cardinality(B) \in Nat
  BY <1>17, <1>18, FS_CardinalityType
<1>20. Cardinality(A) < Cardinality(B)
  BY <1>18, <1>19
<1>21. QED BY <1>9, <1>10, <1>11, <1>16, <1>20

LEMMA RenderMatchesCounts ==
  ASSUME CountInv, RenderMatches
  PROVE  CountInv'
<1>1. PICK files, shown : files = work.files /\ shown = MatchBody(files)
  OBVIOUS
<1>2. /\ phase = "show" /\ phase' = "write" /\ reply'.files = files /\ reply'.shown = shown
  BY <1>1 DEF RenderMatches
<1>3. /\ files \in Seq(TakenHit) /\ UsesOf(files) \in Seq(Nat)
      /\ \A i \in 1..Len(files) :
           files[i].listing = "counted" => PartSums(UsesOf(files))[i - 1] >= MaxChars
  BY <1>1, <1>2 DEF CountInv, Counting, RoomRight
<1>4. ASSUME NEW j \in DOMAIN files, files[j].listing = "counted"
      PROVE  \E i \in 1..(j - 1) :
               /\ files[i].listing # "counted" /\ Listed(files, i)
               /\ shown[i] < Cardinality(Offered(files[i]))
  <2>1. j \in 1..Len(files) /\ Len(files) \in Nat
    BY <1>3
  <2>2. PICK u : u = UsesOf(files)
    OBVIOUS
  <2>3. u \in Seq(Nat) /\ Len(u) = Len(files) /\ j - 1 \in 0..Len(u) /\ MaxChars \in Nat \ {0}
    <3>1. u \in Seq(Nat) /\ Len(u) = Len(files)
      BY <1>3, <2>1, <2>2 DEF UsesOf
    <3>2. MaxChars \in Nat \ {0}
      BY LookupAssumption
    <3>3. QED BY <2>1, <3>1, <3>2
  <2>4. PartSums(u)[j - 1] >= MaxChars
    BY <1>3, <1>4, <2>1, <2>2
  <2>5. PICK i \in 1..(j - 1) : PartSums(u)[i] >= MaxChars /\ PartSums(u)[i - 1] < MaxChars
    BY <2>3, <2>4, Crossing
  <2>6. i \in 1..Len(files)
    BY <2>1
  <2>7. QED BY <1>1, <1>3, <2>2, <2>5, <2>6, LastIsCut
<1>5. CountedNeverFits'
  BY <1>2, <1>4 DEF CountedNeverFits, Listed, Offered
<1>6. QED BY <1>2, <1>5 DEF CountInv, OnceRanked, Counting

LEMMA CountStepKeeps == LookupInv /\ CountInv /\ [LookupNext]_lookupVars => CountInv'
<1> SUFFICES ASSUME LookupInv, CountInv, [LookupNext]_lookupVars PROVE CountInv'
  OBVIOUS
<1>1. CASE RankedPaths
  BY <1>1, RankedPathsCounts
<1>2. CASE Describe
  <2>1. phase' = "write" /\ reply'.kind # "matches"
    BY <1>2 DEF Describe, ReplyOf
  <2>2. QED BY <2>1, CountEnds
<1>3. CASE WalkOneFile
  BY <1>3, WalkOneFileCounts
<1>4. CASE Walk
  BY <1>4, WalkCounts
<1>5. CASE ScanFile
  BY <1>5, ScanFileCounts
<1>6. CASE ScanEnds
  BY <1>6, ScanEndsCounts
<1>7. CASE ShowFile
  BY <1>7, ShowFileCounts
<1>8. CASE RenderMatches
  BY <1>8, RenderMatchesCounts
<1>9. CASE Write
  <2>1. phase' = "idle"
    BY <1>9 DEF Write
  <2>2. QED BY <2>1, CountEnds
<1>10. CASE Delay
  BY <1>10, CountStays DEF Delay
<1>11. ASSUME NEW m \in Message, Receive(m) PROVE CountInv'
  BY <1>11, ReceiveCounts
<1>12. ASSUME NEW f \in File, Change(f) PROVE CountInv'
  <2>1. \A y \in {"todo", "hits", "files", "room", "ranked"} : work'[y] = work[y]
    BY <1>12 DEF Change, LookupInv, Fields
  <2>2. UNCHANGED <<phase, reply>>
    BY <1>12 DEF Change
  <2>3. QED BY <2>1, <2>2, CountStays
<1>13. CASE UNCHANGED lookupVars
  BY <1>13, CountStays DEF lookupVars
<1>14. QED
  BY <1>1, <1>2, <1>3, <1>4, <1>5, <1>6, <1>7, <1>8, <1>9, <1>10, <1>11, <1>12, <1>13
  DEF LookupNext, Handle

(* A file is only counted, without being read again, if the text ends       *)
(* before it: for any files, rankings, caps and numbers of lines, and       *)
(* however the files change while they are searched.                        *)
THEOREM OnlyWhatFits == LookupSpec => []CountedNeverFits
<1>1. CountInv => CountedNeverFits
  BY DEF CountInv
<1>2. QED
  BY <1>1, LookupStart, LookupStepKeeps, CountStart, CountStepKeeps, PTL DEF LookupSpec
=============================================================================
