------------------------- MODULE StatusBoardProofs -------------------------
(***************************************************************************)
(* Proofs about the status board, for all machines, keys of jobs, numbers  *)
(* of starts and faults.                                                   *)
(***************************************************************************)
EXTENDS StatusBoard, SequenceTheorems, TLAPS

\* The two words are strings too, but the provers have no way to know that of a
\* literal.
Words   == {"waiting", "picked"}
Pieces  == VMs \cup STRING \cup Words
Reports == [text : Seq(Pieces), run : Runs]

\* What is known of a row that a report of a machine makes, when the machine
\* is in its run n, does g and has picked job k: only the machine itself made
\* it, in this or an earlier run; and if it tells of a job in this run, the
\* machine has got as far as that, with that job.
Told == {"telling", "running", "done", "off"}

Genuine(row, n, g, k) ==
    /\ row.status \in {<<"waiting">>, <<"picked">>}
    /\ row.comment \in Keys \cup {<<>>}
    /\ row.run \in Runs /\ row.run <= n
    /\ row.run = n /\ row.status = <<"picked">> =>
         /\ g \in Told
         /\ g # "off" => row.comment = k

NotLater(r, s) ==
    \/ r.run < s.run
    \/ r.run = s.run /\ (r.status = <<"picked">> => s.status = <<"picked">>)

\* The reports q come in the order in which they were made, after the row b.
Ordered(b, q) ==
    \A i \in 1 .. Len(q) :
      /\ b # NoRow => NotLater(b, Row(q[i]))
      /\ \A j \in 1 .. Len(q) : i < j => NotLater(Row(q[i]), Row(q[j]))

Typed ==
    /\ TypeOK
    /\ inbox \in [VMs -> Seq(Reports)]
    /\ board \in [VMs -> Rows \cup {NoRow}]
    /\ page = [at |-> page.at, rows |-> page.rows]
    /\ \A v \in VMs : guest[v] # "off" => run[v] \in Runs

Queued ==
    \A v \in VMs : /\ Ordered(board[v], inbox[v])
                   /\ \A i \in 1 .. Len(inbox[v]) :
                        Genuine(Row(inbox[v][i]), run[v], guest[v], job[v])

Shown == \A v \in VMs : board[v] # NoRow => Genuine(board[v], run[v], guest[v], job[v])

\* Only while the page has the mutex is it half copied.
Copying == PageIsSnapshot /\ (page.rows # {} => Locked)

IInv == Typed /\ Queued /\ Shown /\ Copying

\* What a step may do to the reports and the row of one machine.
Quiet(v)     == inbox'[v] = inbox[v] /\ board'[v] = board[v]
Tells(v, s, c) ==
    /\ inbox'[v] = Append(inbox[v], [text |-> Text(v, s, c), run |-> run[v]])
    /\ board'[v] = board[v]
TellsWaiting(v) ==
    /\ Tells(v, "waiting", <<>>)
    /\ guest[v] = "wait" /\ run'[v] = run[v]
TellsPicked(v) ==
    /\ Tells(v, "picked", job[v])
    /\ guest[v] = "picked" /\ guest'[v] = "telling"
    /\ run'[v] = run[v] /\ job'[v] = job[v]
Handled(v) ==
    /\ inbox[v] # <<>> /\ inbox'[v] = Tail(inbox[v])
    /\ board'[v] = Row(Head(inbox[v]))
Lost(v) ==
    /\ inbox[v] # <<>> /\ inbox'[v] = SubSeq(inbox[v], 1, Len(inbox[v]) - 1)
    /\ board'[v] = board[v]
Forgotten(v) == inbox'[v] = <<>> /\ board'[v] = NoRow

-----------------------------------------------------------------------------
\* SplitN of a text of two pieces, and of one with more.
LEMMA SplitTwo ==
  ASSUME NEW S, NEW text \in Seq(S), Len(text) = 2
  PROVE  Fields(text) = << <<text[1]>>, <<text[2]>> >>
<1>1. Fields(text) = [i \in 1 .. 2 |-> <<text[i]>>]
  BY DEF Fields, SplitN
<1> QED BY <1>1

\* SplitN(_, ",", 3) leaves all further commas in the third field.
LEMMA SplitThree ==
  ASSUME NEW S, NEW text \in Seq(S), Len(text) > 2
  PROVE  Fields(text) = << <<text[1]>>, <<text[2]>>, SubSeq(text, 3, Len(text)) >>
<1>1. Len(text) \in Nat
  BY LenProperties
<1>2. (IF Len(text) < 3 THEN Len(text) ELSE 3) = 3
  BY <1>1
<1>3. Fields(text) = [i \in 1 .. 3 |-> IF i < 3 THEN <<text[i]>> ELSE SubSeq(text, 3, Len(text))]
  BY <1>2 DEF Fields, SplitN
<1> QED BY <1>3

\* The text of a report, over any set of pieces.
LEMMA TextParts ==
  ASSUME NEW S, NEW v \in S, NEW s \in S, NEW c \in Seq(S)
  PROVE  /\ Text(v, s, c) \in Seq(S)
         /\ Len(c) \in Nat /\ Len(Text(v, s, c)) = 2 + Len(c)
         /\ Text(v, s, c)[2] = s
         /\ Len(c) > 0 => SubSeq(Text(v, s, c), 3, Len(Text(v, s, c))) = c
<1> DEFINE text == Text(v, s, c)
           rest == SubSeq(text, 3, Len(text))
<1>1. <<v, s>> \in Seq(S) /\ Len(<<v, s>>) = 2 /\ <<v, s>>[2] = s
  OBVIOUS
<1>2. Len(c) \in Nat
  BY LenProperties
<1>3. text \in Seq(S) /\ Len(text) = 2 + Len(c)
  BY <1>1, ConcatProperties DEF Text
<1>4. \A i \in 1 .. 2 + Len(c) : text[i] = IF i <= 2 THEN <<v, s>>[i] ELSE c[i - 2]
  BY <1>1, ConcatProperties DEF Text
<1>5. text[2] = s /\ \A i \in 1 .. Len(c) : text[i + 2] = c[i]
  BY <1>1, <1>2, <1>4
<1> HIDE DEF text
<1>6. ASSUME Len(c) > 0 PROVE rest = c
  <2>1. \A i \in 3 .. Len(text) : text[i] \in S
    BY <1>2, <1>3, ElementOfSeq
  <2>2. /\ rest \in Seq(S) /\ Len(rest) = Len(c)
        /\ \A i \in 1 .. Len(c) : rest[i] = text[i + 2]
    BY <1>2, <1>3, <1>6, <2>1, SubSeqProperties
  <2> HIDE DEF rest
  <2> QED BY <1>5, <2>2, SeqEqual
<1> QED BY <1>2, <1>3, <1>5, <1>6 DEF text

\* A status and a comment come out of a report as they went in, however many
\* commas the comment has.
LEMMA RowOfPieces ==
  ASSUME NEW S, NEW v \in S, NEW s \in S, NEW c \in Seq(S), NEW r
  PROVE  /\ Text(v, s, c) \in Seq(S)
         /\ Row([text |-> Text(v, s, c), run |-> r]) = [status |-> <<s>>, comment |-> c, run |-> r]
<1> DEFINE text == Text(v, s, c)
           f == Fields(text)
<1>1. /\ text \in Seq(S)
      /\ Len(c) \in Nat /\ Len(text) = 2 + Len(c)
      /\ text[2] = s
      /\ Len(c) > 0 => SubSeq(text, 3, Len(text)) = c
  BY TextParts
<1>2. Row([text |-> text, run |-> r])
        = [status |-> f[2], comment |-> IF Len(f) >= 3 THEN f[3] ELSE <<>>, run |-> r]
  BY DEF Row
<1> HIDE DEF text
<1>3. CASE Len(c) = 0
  <2>1. c = <<>>
    BY <1>3, EmptySeq
  <2>2. Len(text) = 2
    BY <1>1, <1>3
  <2>3. f = << <<text[1]>>, <<text[2]>> >>
    BY <1>1, <2>2, SplitTwo
  <2> HIDE DEF f
  <2>4. f[2] = <<s>> /\ Len(f) = 2
    BY <1>1, <2>3
  <2> QED BY <1>1, <1>2, <2>1, <2>4 DEF text
<1>4. CASE Len(c) > 0
  <2>1. Len(text) > 2
    BY <1>1, <1>4
  <2>2. f = << <<text[1]>>, <<text[2]>>, SubSeq(text, 3, Len(text)) >>
    BY <1>1, <2>1, SplitThree
  <2> HIDE DEF f
  <2>3. f[2] = <<s>> /\ f[3] = c /\ Len(f) = 3
    BY <1>1, <1>4, <2>2
  <2> QED BY <1>1, <1>2, <2>3 DEF text
<1> QED BY <1>1, <1>3, <1>4

\* A report's state and comment come out of the board as they went in.
LEMMA RowOfText ==
  ASSUME NEW v \in VMs, NEW s \in Words, NEW c \in Keys \cup {<<>>}, NEW r
  PROVE  /\ Text(v, s, c) \in Seq(Pieces)
         /\ Row([text |-> Text(v, s, c), run |-> r]) = [status |-> <<s>>, comment |-> c, run |-> r]
<1>1. v \in Pieces /\ s \in Pieces /\ STRING \subseteq Pieces
  BY DEF Pieces
<1>2. c \in Seq(STRING)
  BY StatusAssumption, EmptySeq
<1>3. c \in Seq(Pieces)
  BY <1>1, <1>2, SeqMonotonic
<1> QED BY <1>1, <1>3, RowOfPieces

-----------------------------------------------------------------------------
\* A machine that has told of its job in this run goes on with that job until
\* it is stopped.
LEMMA VmStep ==
  ASSUME Typed, [Next]_vars, NEW v \in VMs
  PROVE  /\ run[v] \in Nat /\ run'[v] \in Nat /\ run[v] <= run'[v]
         /\ run'[v] = run[v] /\ guest[v] \in Told =>
              /\ guest'[v] \in Told
              /\ guest'[v] # "off" => guest[v] # "off" /\ job'[v] = job[v]
<1> DEFINE Kept == /\ run[v] \in Nat /\ run'[v] \in Nat /\ run[v] <= run'[v]
                   /\ run'[v] = run[v] /\ guest[v] \in Told =>
                        /\ guest'[v] \in Told
                        /\ guest'[v] # "off" => guest[v] # "off" /\ job'[v] = job[v]
<1> USE DEF Typed, TypeOK, Told, Host, Guest
<1>0. run[v] \in Nat
  BY StatusAssumption
<1>1. CASE UNCHANGED vmVars
  BY <1>0, <1>1 DEF vmVars
<1>2. ASSUME NEW u \in VMs, HostStep(u) PROVE Kept
  <2>1. CASE StartRunner(u)
    BY <1>0, <2>1 DEF StartRunner
  <2>2. CASE ReportStarted(u)
    BY <1>0, <2>2 DEF ReportStarted
  <2>3. CASE StopRunner(u)
    BY <1>0, <2>3 DEF StopRunner
  <2>4. CASE Stopped(u)
    BY <1>0, <2>4 DEF Stopped
  <2> QED BY <1>2, <2>1, <2>2, <2>3, <2>4 DEF HostStep
<1>3. ASSUME NEW u \in VMs, GuestStep(u) PROVE Kept
  <2>1. CASE Connect(u)
    BY <1>0, <2>1 DEF Connect
  <2>2. CASE FindNothing(u)
    BY <1>0, <2>2 DEF FindNothing
  <2>3. CASE FindJob(u)
    <3>1. PICK key \in Keys : job' = [job EXCEPT ![u] = key]
      BY <2>3 DEF FindJob
    <3> QED BY <1>0, <2>3, <3>1 DEF FindJob
  <2>4. CASE ReportPicked(u)
    BY <1>0, <2>4 DEF ReportPicked
  <2>5. CASE RequestEnds(u)
    BY <1>0, <2>5 DEF RequestEnds
  <2>6. CASE FinishJob(u)
    BY <1>0, <2>6 DEF FinishJob
  <2> QED BY <1>3, <2>1, <2>2, <2>3, <2>4, <2>5, <2>6 DEF GuestStep
<1>4. ASSUME NEW u \in VMs, SetStatus(u) \/ Lose(u) PROVE UNCHANGED vmVars
  BY <1>4 DEF SetStatus, Lose
<1>5. ASSUME Crash \/ Restart \/ Render PROVE UNCHANGED vmVars
  BY <1>5 DEF Crash, Restart, Render, Ask, CopyRow, Unlock, Answer
<1>6. ASSUME UNCHANGED vars PROVE UNCHANGED vmVars
  BY <1>6 DEF vars
<1> QED BY <1>1, <1>2, <1>3, <1>4, <1>5, <1>6 DEF Next

\* What a host says goes nowhere.
LEMMA HostIsMute ==
  ASSUME NEW v, NEW r, NEW s, NEW c, ReportStatus(HostConnection, v, r, s, c)
  PROVE  inbox' = inbox
BY DEF ReportStatus, HostConnection

\* The reports of a machine change by its own reports, one at the end, by the
\* callback, which takes the first, by a loss or by a crash.
LEMMA InboxStep ==
  ASSUME Typed, [Next]_vars, NEW v \in VMs
  PROVE  Quiet(v) \/ TellsWaiting(v) \/ TellsPicked(v) \/ Handled(v) \/ Lost(v) \/ Forgotten(v)
<1> DEFINE Goal == Quiet(v) \/ TellsWaiting(v) \/ TellsPicked(v) \/ Handled(v) \/ Lost(v) \/ Forgotten(v)
<1>1. CASE UNCHANGED <<inbox, board>>
  BY <1>1 DEF Quiet
<1>2. ASSUME NEW u \in VMs, HostStep(u) PROVE UNCHANGED <<inbox, board>>
  BY <1>2, HostIsMute DEF HostStep, StartRunner, ReportStarted, StopRunner, Stopped
<1>3. ASSUME NEW u \in VMs, GuestStep(u) PROVE Goal
  <2>1. CASE FindNothing(u)
    BY <2>1 DEF FindNothing, ReportStatus, Typed, TypeOK, Guest, Quiet, TellsWaiting, Tells
  <2>2. CASE ReportPicked(u)
    BY <2>2 DEF ReportPicked, ReportStatus, Typed, TypeOK, Guest, Quiet, TellsPicked, Tells
  <2>3. CASE Connect(u) \/ FindJob(u) \/ RequestEnds(u) \/ FinishJob(u)
    BY <1>1, <2>3 DEF Connect, FindJob, RequestEnds, FinishJob
  <2> QED BY <1>3, <2>1, <2>2, <2>3 DEF GuestStep
<1>4. ASSUME NEW u \in VMs, SetStatus(u) PROVE Goal
  BY <1>4 DEF SetStatus, Typed, Quiet, Handled
<1>5. ASSUME NEW u \in VMs, Lose(u) PROVE Goal
  BY <1>5 DEF Lose, Typed, Quiet, Lost
<1>6. ASSUME Crash PROVE Goal
  BY <1>6 DEF Crash, Forgotten
<1>7. ASSUME Restart \/ Render PROVE UNCHANGED <<inbox, board>>
  BY <1>7 DEF Restart, Render, Ask, CopyRow, Unlock, Answer
<1>8. ASSUME UNCHANGED vars PROVE UNCHANGED <<inbox, board>>
  BY <1>8 DEF vars
<1> QED BY <1>1, <1>2, <1>3, <1>4, <1>5, <1>6, <1>7, <1>8 DEF Next

-----------------------------------------------------------------------------
\* The order of reports through the three ways in which a queue changes.
LEMMA OrderedAppend ==
  ASSUME NEW b, NEW q \in Seq(Reports), NEW m \in Reports, Ordered(b, q),
         b # NoRow => NotLater(b, Row(m)),
         \A i \in 1 .. Len(q) : NotLater(Row(q[i]), Row(m))
  PROVE  Ordered(b, Append(q, m))
<1> DEFINE p == Append(q, m)
<1>1. /\ Len(q) \in Nat /\ Len(p) = Len(q) + 1
      /\ \A i \in 1 .. Len(q) : p[i] = q[i]
      /\ p[Len(q) + 1] = m
  BY AppendProperties, LenProperties
<1> HIDE DEF p
<1>2. ASSUME NEW i \in 1 .. Len(p), NEW j \in 1 .. Len(p), i < j
      PROVE  NotLater(Row(p[i]), Row(p[j]))
  <2>1. i \in 1 .. Len(q) /\ p[i] = q[i]
    BY <1>1, <1>2
  <2>2. CASE j \in 1 .. Len(q)
    BY <1>1, <1>2, <2>1, <2>2 DEF Ordered
  <2>3. CASE j = Len(q) + 1
    BY <1>1, <2>1, <2>3
  <2> QED BY <1>1, <2>2, <2>3
<1>3. ASSUME b # NoRow, NEW i \in 1 .. Len(p) PROVE NotLater(b, Row(p[i]))
  <2>1. CASE i \in 1 .. Len(q)
    BY <1>1, <1>3, <2>1 DEF Ordered
  <2>2. CASE i = Len(q) + 1
    BY <1>1, <1>3, <2>2
  <2> QED BY <1>1, <2>1, <2>2
<1>4. Ordered(b, p)
  BY <1>2, <1>3 DEF Ordered
<1> QED BY <1>4 DEF p

\* What waits stays ordered after its first is taken.
LEMMA OrderedTail ==
  ASSUME NEW b, NEW q \in Seq(Reports), q # <<>>, Ordered(b, q)
  PROVE  /\ Head(q) = q[1] /\ 1 \in 1 .. Len(q)
         /\ \A i \in 1 .. Len(Tail(q)) : i + 1 \in 1 .. Len(q) /\ Tail(q)[i] = q[i + 1]
         /\ Ordered(Row(Head(q)), Tail(q))
<1> DEFINE p == Tail(q)
<1>1. /\ Len(q) \in Nat \ {0} /\ Len(p) = Len(q) - 1 /\ Head(q) = q[1]
      /\ \A i \in 1 .. Len(p) : p[i] = q[i + 1]
  BY HeadTailProperties, LenProperties, EmptySeq
<1> HIDE DEF p
<1>2. ASSUME NEW i \in 1 .. Len(p) PROVE i + 1 \in 1 .. Len(q)
  BY <1>1
<1>3. 1 \in 1 .. Len(q)
  BY <1>1
<1>4. ASSUME NEW i \in 1 .. Len(p) PROVE NotLater(Row(Head(q)), Row(p[i]))
  <2>1. 1 < i + 1
    BY <1>1
  <2> QED BY <1>1, <1>2, <1>3, <2>1 DEF Ordered
<1>5. ASSUME NEW i \in 1 .. Len(p), NEW j \in 1 .. Len(p), i < j
      PROVE  NotLater(Row(p[i]), Row(p[j]))
  <2>1. i + 1 < j + 1
    BY <1>1, <1>5
  <2> QED BY <1>1, <1>2, <2>1 DEF Ordered
<1>6. Ordered(Row(Head(q)), p)
  BY <1>4, <1>5 DEF Ordered
<1> QED BY <1>1, <1>2, <1>3, <1>6 DEF p

\* What waits stays ordered after its last is lost.
LEMMA OrderedFront ==
  ASSUME NEW b, NEW q \in Seq(Reports), q # <<>>, Ordered(b, q)
  PROVE  /\ SubSeq(q, 1, Len(q) - 1) \in Seq(Reports)
         /\ \A i \in 1 .. Len(SubSeq(q, 1, Len(q) - 1)) :
              i \in 1 .. Len(q) /\ SubSeq(q, 1, Len(q) - 1)[i] = q[i]
         /\ Ordered(b, SubSeq(q, 1, Len(q) - 1))
<1> DEFINE n == Len(q) - 1
           p == SubSeq(q, 1, n)
<1>1. Len(q) \in Nat \ {0} /\ n \in Nat /\ n < Len(q)
  BY LenProperties, EmptySeq
<1> HIDE DEF n
<1>2. \A i \in 1 .. n : q[i] \in Reports
  BY <1>1, ElementOfSeq
<1>3. p \in Seq(Reports) /\ Len(p) = n /\ \A i \in 1 .. n : p[i] = q[i]
  <2>1. 1 \in Int /\ n \in Int
    BY <1>1
  <2>2. /\ p \in Seq(Reports)
        /\ Len(p) = IF 1 <= n THEN n - 1 + 1 ELSE 0
        /\ \A i \in 1 .. n - 1 + 1 : p[i] = q[1 + i - 1]
    BY <2>1, <1>2, SubSeqProperties
  <2> HIDE DEF p
  <2> QED BY <1>1, <2>2
<1> HIDE DEF p
<1>4. \A i \in 1 .. Len(p) : i \in 1 .. Len(q) /\ p[i] = q[i]
  BY <1>1, <1>3
<1>5. Ordered(b, p)
  BY <1>4 DEF Ordered
<1> QED BY <1>3, <1>4, <1>5 DEF p, n

-----------------------------------------------------------------------------
\* What is known of a row stays true of it.
LEMMA GenuineKept ==
  ASSUME Typed, [Next]_vars, NEW v \in VMs, NEW row, Genuine(row, run[v], guest[v], job[v])
  PROVE  Genuine(row, run'[v], guest'[v], job'[v])
<1>1. /\ run[v] \in Nat /\ run'[v] \in Nat /\ run[v] <= run'[v]
      /\ run'[v] = run[v] /\ guest[v] \in Told =>
           /\ guest'[v] \in Told
           /\ guest'[v] # "off" => guest[v] # "off" /\ job'[v] = job[v]
  BY VmStep
<1>2. row.run \in Nat
  BY StatusAssumption DEF Genuine, Runs
<1>3. CASE run'[v] = run[v]
  BY <1>1, <1>2, <1>3 DEF Genuine
<1>4. CASE run[v] < run'[v]
  <2>1. row.run <= run'[v] /\ row.run # run'[v]
    BY <1>1, <1>2, <1>4 DEF Genuine
  <2> QED BY <2>1 DEF Genuine
<1> QED BY <1>1, <1>3, <1>4

\* The new report of a machine is known to be its own, and comes after all
\* that it made before.
LEMMA NewReport ==
  ASSUME Typed, [Next]_vars, NEW v \in VMs,
         NEW s \in Words, NEW c \in Keys \cup {<<>>},
         \/ TellsWaiting(v) /\ s = "waiting" /\ c = <<>>
         \/ TellsPicked(v) /\ s = "picked" /\ c = job[v]
  PROVE  LET m == [text |-> Text(v, s, c), run |-> run[v]] IN
         /\ m \in Reports
         /\ Genuine(Row(m), run'[v], guest'[v], job'[v])
         /\ \A row : Genuine(row, run[v], guest[v], job[v]) => NotLater(row, Row(m))
<1> DEFINE m == [text |-> Text(v, s, c), run |-> run[v]]
<1>1. run[v] \in Runs /\ run[v] \in Nat /\ run'[v] = run[v]
  BY StatusAssumption DEF Typed, TypeOK, TellsWaiting, TellsPicked, Runs
<1>2. /\ Text(v, s, c) \in Seq(Pieces)
      /\ Row(m) = [status |-> <<s>>, comment |-> c, run |-> run[v]]
  BY RowOfText
<1>3. m \in Reports
  BY <1>1, <1>2 DEF Reports
<1> HIDE DEF m
<1>4. Row(m).status = <<s>> /\ Row(m).comment = c /\ Row(m).run = run[v]
  BY <1>2
<1>5. <<"waiting">> # <<"picked">>
  OBVIOUS
<1>6. Genuine(Row(m), run'[v], guest'[v], job'[v])
  BY <1>1, <1>4, <1>5 DEF Genuine, Told, TellsWaiting, TellsPicked
<1>7. guest[v] \notin Told
  BY DEF Told, TellsWaiting, TellsPicked
<1>8. ASSUME NEW row, Genuine(row, run[v], guest[v], job[v]) PROVE NotLater(row, Row(m))
  <2>1. row.run \in Nat /\ row.run <= run[v]
    BY <1>8, StatusAssumption DEF Genuine, Runs
  <2>2. row.run = run[v] => row.status # <<"picked">>
    BY <1>7, <1>8 DEF Genuine
  <2> QED BY <1>1, <1>4, <2>1, <2>2 DEF NotLater
<1> QED BY <1>3, <1>6, <1>8 DEF m

-----------------------------------------------------------------------------
\* The parts of the invariant, step by step.
LEMMA QueuedStep ==
  ASSUME IInv, [Next]_vars PROVE Queued' /\ Shown'
<1> USE DEF IInv
<1> SUFFICES ASSUME NEW v \in VMs
             PROVE  /\ Ordered(board'[v], inbox'[v])
                    /\ \A i \in 1 .. Len(inbox'[v]) :
                         Genuine(Row(inbox'[v][i]), run'[v], guest'[v], job'[v])
                    /\ board'[v] # NoRow => Genuine(board'[v], run'[v], guest'[v], job'[v])
  BY DEF Queued, Shown
<1> DEFINE q == inbox[v]
           b == board[v]
           G(row) == Genuine(row, run[v], guest[v], job[v])
           H(row) == Genuine(row, run'[v], guest'[v], job'[v])
<1>1. \A row : G(row) => H(row)
  BY GenuineKept
<1>2. /\ q \in Seq(Reports) /\ Ordered(b, q)
      /\ \A i \in 1 .. Len(q) : G(Row(q[i]))
      /\ b # NoRow => G(b)
  BY DEF Typed, Queued, Shown
<1>3. \A i \in 1 .. Len(q) : H(Row(q[i]))
  BY <1>1, <1>2
<1>4. b # NoRow => H(b)
  BY <1>1, <1>2
<1> HIDE DEF G, H
<1>5. CASE Quiet(v)
  BY <1>2, <1>3, <1>4, <1>5 DEF Quiet, H
<1>6. ASSUME NEW s \in Words, NEW c \in Keys \cup {<<>>},
             \/ TellsWaiting(v) /\ s = "waiting" /\ c = <<>>
             \/ TellsPicked(v) /\ s = "picked" /\ c = job[v]
      PROVE  /\ Ordered(board'[v], inbox'[v])
             /\ \A i \in 1 .. Len(inbox'[v]) : H(Row(inbox'[v][i]))
             /\ board'[v] # NoRow => H(board'[v])
  <2> DEFINE m == [text |-> Text(v, s, c), run |-> run[v]]
  <2>1. m \in Reports /\ H(Row(m)) /\ \A row : G(row) => NotLater(row, Row(m))
    BY <1>6, NewReport DEF G, H
  <2>2. inbox'[v] = Append(q, m) /\ board'[v] = b
    BY <1>6 DEF TellsWaiting, TellsPicked, Tells
  <2> HIDE DEF m, q, b
  <2>3. \A i \in 1 .. Len(q) : NotLater(Row(q[i]), Row(m))
    BY <1>2, <2>1
  <2>4. b # NoRow => NotLater(b, Row(m))
    BY <1>2, <2>1
  <2>5. Ordered(b, Append(q, m))
    BY <1>2, <2>1, <2>3, <2>4, OrderedAppend
  <2>6. /\ Len(q) \in Nat /\ Len(Append(q, m)) = Len(q) + 1
        /\ \A i \in 1 .. Len(q) : Append(q, m)[i] = q[i]
        /\ Append(q, m)[Len(q) + 1] = m
    BY <1>2, <2>1, AppendProperties, LenProperties
  <2>7. ASSUME NEW i \in 1 .. Len(Append(q, m)) PROVE H(Row(Append(q, m)[i]))
    <3>1. CASE i \in 1 .. Len(q)
      BY <1>3, <2>6, <3>1
    <3>2. CASE i = Len(q) + 1
      BY <2>1, <2>6, <3>2
    <3> QED BY <2>6, <3>1, <3>2
  <2> QED BY <1>4, <2>2, <2>5, <2>7
<1>7. CASE TellsWaiting(v)
  BY <1>6, <1>7 DEF H, Words
<1>8. CASE TellsPicked(v)
  <2>1. job[v] \in Keys \cup {<<>>}
    BY DEF Typed, TypeOK
  <2> QED BY <1>6, <1>8, <2>1 DEF H, Words
<1>9. CASE Handled(v)
  <2>1. q # <<>> /\ inbox'[v] = Tail(q) /\ board'[v] = Row(Head(q))
    BY <1>9 DEF Handled
  <2> HIDE DEF q, b
  <2>2. /\ Head(q) = q[1] /\ 1 \in 1 .. Len(q)
        /\ \A i \in 1 .. Len(Tail(q)) : i + 1 \in 1 .. Len(q) /\ Tail(q)[i] = q[i + 1]
        /\ Ordered(Row(Head(q)), Tail(q))
    BY <1>2, <2>1, OrderedTail
  <2>3. H(Row(Head(q)))
    BY <1>3, <2>2
  <2>4. \A i \in 1 .. Len(Tail(q)) : H(Row(Tail(q)[i]))
    BY <1>3, <2>2
  <2> QED BY <2>1, <2>2, <2>3, <2>4 DEF H
<1>10. CASE Lost(v)
  <2>1. q # <<>> /\ inbox'[v] = SubSeq(q, 1, Len(q) - 1) /\ board'[v] = b
    BY <1>10 DEF Lost
  <2> HIDE DEF q, b
  <2>2. /\ \A i \in 1 .. Len(SubSeq(q, 1, Len(q) - 1)) :
             i \in 1 .. Len(q) /\ SubSeq(q, 1, Len(q) - 1)[i] = q[i]
        /\ Ordered(b, SubSeq(q, 1, Len(q) - 1))
    BY <1>2, <2>1, OrderedFront
  <2> QED BY <1>3, <1>4, <2>1, <2>2 DEF H
<1>11. CASE Forgotten(v)
  <2>1. Len(inbox'[v]) = 0 /\ board'[v] = NoRow
    BY <1>11, EmptySeq DEF Forgotten
  <2> QED BY <2>1 DEF Ordered
<1> QED BY <1>5, <1>7, <1>8, <1>9, <1>10, <1>11, InboxStep

\* The machines keep their types: hosts and jobs step by step.
VmTyped ==
    /\ run \in [VMs -> 0 .. MaxRuns]
    /\ host \in [VMs -> {"off", "up", "stopping"}]
    /\ mailing \in [VMs -> BOOLEAN]
    /\ guest \in [VMs -> {"off", "boot", "stuck", "wait", "asking", "picked", "telling",
                          "running", "done"}]
    /\ job \in [VMs -> Keys \cup {<<>>}]
    /\ \A v \in VMs : guest[v] # "off" => run[v] \in Runs

\* Every step keeps the types of the machines.
LEMMA VmTypedStep ==
  ASSUME Typed, [Next]_vars PROVE VmTyped'
<1> USE StatusAssumption DEF VmTyped, Host, Guest, Runs
<1>0. VmTyped
  BY DEF Typed, TypeOK
<1> HIDE DEF VmTyped
<1>1. CASE UNCHANGED vmVars
  BY <1>0, <1>1 DEF vmVars, VmTyped
<1>2. ASSUME NEW u \in VMs, HostStep(u) PROVE VmTyped'
  <2>1. CASE StartRunner(u)
    BY <1>0, <2>1 DEF StartRunner, VmTyped
  <2>2. CASE ReportStarted(u)
    BY <1>0, <2>2 DEF ReportStarted, VmTyped
  <2>3. CASE StopRunner(u)
    BY <1>0, <2>3 DEF StopRunner, VmTyped
  <2>4. CASE Stopped(u)
    BY <1>0, <2>4 DEF Stopped, VmTyped
  <2> QED BY <1>2, <2>1, <2>2, <2>3, <2>4 DEF HostStep
<1>3. ASSUME NEW u \in VMs, GuestStep(u) PROVE VmTyped'
  <2>1. CASE Connect(u)
    BY <1>0, <2>1 DEF Connect, VmTyped
  <2>2. CASE FindNothing(u)
    BY <1>0, <2>2 DEF FindNothing, VmTyped
  <2>3. CASE FindJob(u)
    <3>1. PICK key \in Keys : job' = [job EXCEPT ![u] = key]
      BY <2>3 DEF FindJob
    <3> QED BY <1>0, <2>3, <3>1 DEF FindJob, VmTyped
  <2>4. CASE ReportPicked(u)
    BY <1>0, <2>4 DEF ReportPicked, VmTyped
  <2>5. CASE RequestEnds(u)
    BY <1>0, <2>5 DEF RequestEnds, VmTyped
  <2>6. CASE FinishJob(u)
    BY <1>0, <2>6 DEF FinishJob, VmTyped
  <2> QED BY <1>3, <2>1, <2>2, <2>3, <2>4, <2>5, <2>6 DEF GuestStep
<1>4. ASSUME NEW u \in VMs, SetStatus(u) \/ Lose(u) PROVE UNCHANGED vmVars
  BY <1>4 DEF SetStatus, Lose
<1>5. ASSUME Crash \/ Restart \/ Render PROVE UNCHANGED vmVars
  BY <1>5 DEF Crash, Restart, Render, Ask, CopyRow, Unlock, Answer
<1>6. ASSUME UNCHANGED vars PROVE UNCHANGED vmVars
  BY <1>6 DEF vars
<1> QED BY <1>1, <1>2, <1>3, <1>4, <1>5, <1>6 DEF Next

\* The reports of one machine are reports again, and its row is one.
LEMMA QueueTyped ==
  ASSUME IInv, [Next]_vars, NEW v \in VMs
  PROVE  inbox'[v] \in Seq(Reports) /\ board'[v] \in Rows \cup {NoRow}
<1> DEFINE q == inbox[v]
<1>1. q \in Seq(Reports) /\ board[v] \in Rows \cup {NoRow} /\ job[v] \in Keys \cup {<<>>}
  BY DEF IInv, Typed, TypeOK
<1>2. CASE Quiet(v)
  BY <1>1, <1>2 DEF Quiet
<1>3. CASE TellsWaiting(v)
  <2>1. [text |-> Text(v, "waiting", <<>>), run |-> run[v]] \in Reports
    BY <1>3, NewReport DEF IInv, Words
  <2> QED BY <1>1, <1>3, <2>1, AppendProperties DEF TellsWaiting, Tells
<1>4. CASE TellsPicked(v)
  <2>1. [text |-> Text(v, "picked", job[v]), run |-> run[v]] \in Reports
    BY <1>1, <1>4, NewReport DEF IInv, Words
  <2> QED BY <1>1, <1>4, <2>1, AppendProperties DEF TellsPicked, Tells
<1>5. CASE Handled(v)
  <2>1. Tail(q) \in Seq(Reports) /\ Head(q) = q[1] /\ 1 \in 1 .. Len(q)
    BY <1>1, <1>5, HeadTailProperties, EmptySeq, LenProperties DEF Handled
  <2>2. Genuine(Row(q[1]), run[v], guest[v], job[v])
    BY <2>1 DEF IInv, Queued
  <2>3. Row(q[1]) \in [status : {<<"waiting">>, <<"picked">>}, comment : Keys \cup {<<>>}, run : Runs]
    BY <2>2 DEF Genuine, Row
  <2>4. <<"waiting">> \in StatusFields /\ <<"picked">> \in StatusFields
    <3>1. 3 \in DOMAIN Statuses /\ Statuses[3] = "waiting" /\ 4 \in DOMAIN Statuses /\ Statuses[4] = "picked"
      BY DEF Statuses
    <3> QED BY <3>1 DEF StatusFields
  <2>5. Row(q[1]) \in Rows
    BY <2>3, <2>4 DEF Rows
  <2> QED BY <1>5, <2>1, <2>5 DEF Handled
<1>6. CASE Lost(v)
  BY <1>1, <1>6, OrderedFront DEF Lost, IInv, Queued
<1>7. CASE Forgotten(v)
  BY <1>7, EmptySeq DEF Forgotten
<1> QED BY <1>2, <1>3, <1>4, <1>5, <1>6, <1>7, InboxStep DEF IInv

\* Every step keeps all types.
LEMMA TypedStep ==
  ASSUME IInv, [Next]_vars PROVE Typed'
<1>1. /\ VmTyped'
      /\ \A v \in VMs : inbox'[v] \in Seq(Reports) /\ board'[v] \in Rows \cup {NoRow}
  BY VmTypedStep, QueueTyped DEF IInv
<1>2. /\ DOMAIN inbox = VMs /\ inbox = [v \in VMs |-> inbox[v]]
      /\ DOMAIN board = VMs /\ board = [v \in VMs |-> board[v]]
      /\ web \in BOOLEAN /\ faults \in 0 .. MaxFaults
      /\ page = [at |-> page.at, rows |-> page.rows] /\ page.at \in {"none", "rows", "streams"}
  BY DEF IInv, Typed, TypeOK
<1> DEFINE Rest == /\ inbox' = [v \in VMs |-> inbox'[v]] /\ board' = [v \in VMs |-> board'[v]]
                   /\ web' \in BOOLEAN /\ faults' \in 0 .. MaxFaults
                   /\ page' = [at |-> page'.at, rows |-> page'.rows]
                   /\ page'.at \in {"none", "rows", "streams"}
<1>3. ASSUME NEW v \in VMs, HostStep(v) \/ GuestStep(v) PROVE Rest
  <2>1. CASE HostStep(v)
    BY <1>2, <2>1, HostIsMute DEF HostStep, StartRunner, ReportStarted, StopRunner, Stopped
  <2>2. CASE FindNothing(v)
    BY <1>2, <2>2 DEF FindNothing, ReportStatus
  <2>3. CASE ReportPicked(v)
    BY <1>2, <2>3 DEF ReportPicked, ReportStatus
  <2>4. CASE Connect(v) \/ FindJob(v) \/ RequestEnds(v) \/ FinishJob(v)
    BY <1>2, <2>4, StatusAssumption DEF Connect, FindJob, RequestEnds, FinishJob, Fault
  <2> QED BY <1>3, <2>1, <2>2, <2>3, <2>4 DEF GuestStep
<1>4. ASSUME NEW v \in VMs, SetStatus(v) PROVE Rest
  BY <1>2, <1>4 DEF SetStatus
<1>5. ASSUME NEW v \in VMs, Lose(v) PROVE Rest
  <2>1. faults' \in 0 .. MaxFaults
    BY <1>2, <1>5, StatusAssumption DEF Lose, Fault
  <2> QED BY <1>2, <1>5, <2>1 DEF Lose
<1>6. ASSUME Crash PROVE Rest
  <2>1. faults' \in 0 .. MaxFaults
    BY <1>2, <1>6, StatusAssumption DEF Crash, Fault
  <2> QED BY <1>2, <1>6, <2>1 DEF Crash, NoPage
<1>7. ASSUME Restart \/ UNCHANGED vars PROVE Rest
  BY <1>2, <1>7 DEF Restart, vars
<1>8. ASSUME Render PROVE Rest
  <2>1. CASE Ask \/ Unlock \/ Answer
    BY <1>2, <2>1 DEF Ask, Unlock, Answer, NoPage
  <2>2. ASSUME NEW v \in VMs, CopyRow(v) PROVE Rest
    BY <1>2, <2>2 DEF CopyRow
  <2> QED BY <1>8, <2>1, <2>2 DEF Render
<1>9. Rest
  BY <1>3, <1>4, <1>5, <1>6, <1>7, <1>8 DEF Next
<1>10. inbox' \in [VMs -> Seq(Reports)] /\ board' \in [VMs -> Rows \cup {NoRow}]
  BY <1>1, <1>9
<1>11. ASSUME NEW v \in VMs, NEW i \in DOMAIN inbox'[v] PROVE inbox'[v][i].run \in Runs
  <2>1. inbox'[v] \in Seq(Reports) /\ i \in 1 .. Len(inbox'[v])
    BY <1>1, LenProperties
  <2>2. inbox'[v][i] \in Reports
    BY <2>1, ElementOfSeq
  <2> QED BY <2>2 DEF Reports
<1> QED BY <1>1, <1>9, <1>10, <1>11 DEF Typed, TypeOK, VmTyped

\* The page and the board do not change together: a report is handled only when
\* nothing is copied.
LEMMA CopyingStep ==
  ASSUME IInv, [Next]_vars PROVE Copying'
<1> USE DEF Copying, PageIsSnapshot, Locked
<1>0. /\ page = [at |-> page.at, rows |-> page.rows]
      /\ \A r \in page.rows : r.row = board[r.vm]
      /\ page.rows # {} => page.at = "rows"
  BY DEF IInv, Typed
<1>1. ASSUME UNCHANGED <<board, page>> PROVE Copying'
  BY <1>0, <1>1
<1>2. ASSUME NEW v \in VMs, HostStep(v) \/ GuestStep(v) PROVE UNCHANGED <<board, page>>
  BY <1>2 DEF HostStep, StartRunner, ReportStarted, StopRunner, Stopped,
              GuestStep, Connect, FindNothing, FindJob, ReportPicked, RequestEnds, FinishJob
<1>3. ASSUME NEW v \in VMs, SetStatus(v) PROVE Copying'
  <2>1. page' = page /\ page.rows = {}
    BY <1>0, <1>3 DEF SetStatus
  <2> QED BY <2>1
<1>4. ASSUME NEW v \in VMs, Lose(v) PROVE UNCHANGED <<board, page>>
  BY <1>4 DEF Lose
<1>5. ASSUME Crash PROVE Copying'
  BY <1>5 DEF Crash, NoPage
<1>6. ASSUME Ask \/ Unlock \/ Answer PROVE Copying'
  BY <1>6 DEF Ask, Unlock, Answer, NoPage
<1>7. ASSUME NEW v \in VMs, CopyRow(v) PROVE Copying'
  <2>1. page'.rows = page.rows \cup {[vm |-> v, row |-> board[v]]} /\ page'.at = "rows" /\ board' = board
    BY <1>0, <1>7 DEF CopyRow
  <2>2. \A r \in page'.rows : r.row = board'[r.vm]
    BY <1>0, <2>1
  <2> QED BY <2>1, <2>2
<1>8. ASSUME Restart \/ UNCHANGED vars PROVE UNCHANGED <<board, page>>
  BY <1>8 DEF Restart, vars
<1> QED BY <1>1, <1>2, <1>3, <1>4, <1>5, <1>6, <1>7, <1>8 DEF Next, Render

\* An empty board satisfies the invariant.
LEMMA InitHolds == Init => IInv
<1> SUFFICES ASSUME Init PROVE IInv
  OBVIOUS
<1> USE StatusAssumption DEF Init
<1>1. \A v \in VMs : inbox[v] = <<>> /\ Len(inbox[v]) = 0 /\ inbox[v] \in Seq(Reports)
  BY EmptySeq
<1>2. Typed
  <2>1. \A v \in VMs : \A i \in DOMAIN inbox[v] : inbox[v][i].run \in Runs
    BY <1>1, LenProperties
  <2>2. inbox \in [VMs -> Seq(Reports)]
    BY <1>1
  <2> QED BY <2>1, <2>2 DEF Typed, TypeOK, NoPage
<1>3. Queued
  <2>1. \A v \in VMs : \A i \in 1 .. Len(inbox[v]) : FALSE
    BY <1>1
  <2> HIDE DEF Init
  <2> QED BY <2>1 DEF Queued, Ordered
<1>4. Shown /\ Copying
  BY DEF Shown, Copying, PageIsSnapshot, NoPage
<1> QED BY <1>2, <1>3, <1>4 DEF IInv

\* The invariant is inductive.
LEMMA Inductive == IInv /\ [Next]_vars => IInv'
BY TypedStep, QueuedStep, CopyingStep DEF IInv

\* IInv is an invariant of the board.
LEMMA Invariant == Spec => []IInv
BY InitHolds, Inductive, PTL DEF Spec

-----------------------------------------------------------------------------
\* All values of the board, the machines and the reports have their types,
\* however many machines there are and however often they start.
THEOREM StatusTypeCorrect == Spec => []TypeOK
<1>1. IInv => TypeOK
  BY DEF IInv, Typed
<1> QED BY <1>1, Invariant, PTL

\* A row that says which job a running machine has picked names that job in
\* full (ReportStatus writes the fields, setStatus splits them again), and no
\* report of an earlier run stands in for it.
THEOREM PickedIsTheJob == Spec => []PickedNamesJob
<1>1. IInv => PickedNamesJob
  <2> SUFFICES ASSUME IInv, NEW v \in VMs, board[v].status = <<"picked">>,
                      board[v].run = run[v], guest[v] # "off"
               PROVE  board[v].comment = job[v]
    BY DEF PickedNamesJob
  <2>1. board[v] # NoRow
    <3>1. NoRow.status = <<>> /\ <<"picked">> # <<>>
      BY DEF NoRow
    <3> QED BY <3>1
  <2> QED BY <2>1 DEF IInv, Shown, Genuine
<1> QED BY <1>1, Invariant, PTL

\* renderRunnerInfo copies under the mutex: the rows of a page are those of one
\* moment.
THEOREM PageIsOneMoment == Spec => []PageIsSnapshot
<1>1. IInv => PageIsSnapshot
  BY DEF IInv, Copying
<1> QED BY <1>1, Invariant, PTL

\* The place of the two states that machines report.
LEMMA OrderOfRow ==
  ASSUME NEW r
  PROVE  /\ r.status = <<"waiting">> => Order(r) = 3
         /\ r.status = <<"picked">> => Order(r) = 4
<1>1. /\ DOMAIN Statuses = 1 .. 6
      /\ \A i \in 1 .. 6 : (<<Statuses[i]>> = <<"waiting">>) <=> i = 3
      /\ \A i \in 1 .. 6 : (<<Statuses[i]>> = <<"picked">>) <=> i = 4
  BY DEF Statuses
<1> HIDE DEF Statuses
<1>2. ASSUME r.status = <<"waiting">> PROVE Order(r) = 3
  <2>1. \A i \in DOMAIN Statuses : (r.status = <<Statuses[i]>>) <=> i = 3
    BY <1>1, <1>2
  <2> QED BY <1>1, <2>1 DEF Order
<1>3. ASSUME r.status = <<"picked">> PROVE Order(r) = 4
  <2>1. \A i \in DOMAIN Statuses : (r.status = <<Statuses[i]>>) <=> i = 4
    BY <1>1, <1>3
  <2> QED BY <1>1, <2>1 DEF Order
<1> QED BY <1>2, <1>3

\* A genuine report says "waiting" or "picked".
LEMMA OrderOfGenuine ==
  ASSUME NEW r, NEW n, NEW g, NEW k, Genuine(r, n, g, k)
  PROVE  /\ r.run \in Nat
         /\ \/ r.status = <<"waiting">> /\ Order(r) = 3
            \/ r.status = <<"picked">> /\ Order(r) = 4
<1>1. r.run \in Nat
  BY StatusAssumption DEF Genuine, Runs
<1>2. r.status = <<"waiting">> \/ r.status = <<"picked">>
  BY DEF Genuine
<1> QED BY <1>1, <1>2, OrderOfRow

\* Late, lost and timed-out reports never bring an earlier state of a machine
\* back: the connection of a machine and the one callback keep their order.
THEOREM BoardNeverGoesBack == Spec => NeverGoesBack
<1> DEFINE Forward == \A v \in VMs :
             board[v] # NoRow /\ board'[v] # NoRow =>
               \/ board'[v].run > board[v].run
               \/ /\ board'[v].run = board[v].run
                  /\ Order(board'[v]) >= Order(board[v])
<1>1. ASSUME IInv, Next PROVE Forward
  <2> SUFFICES ASSUME NEW v \in VMs, board[v] # NoRow, board'[v] # NoRow
               PROVE  \/ board'[v].run > board[v].run
                      \/ /\ board'[v].run = board[v].run
                         /\ Order(board'[v]) >= Order(board[v])
    OBVIOUS
  <2>1. Genuine(board[v], run[v], guest[v], job[v])
    BY <1>1 DEF IInv, Shown
  <2>2. /\ board[v].run \in Nat
        /\ \/ board[v].status = <<"waiting">> /\ Order(board[v]) = 3
           \/ board[v].status = <<"picked">> /\ Order(board[v]) = 4
    BY <2>1, OrderOfGenuine
  <2>3. CASE board'[v] = board[v]
    BY <2>2, <2>3
  <2>4. CASE Handled(v)
    <3> DEFINE q == inbox[v]
    <3>1. q \in Seq(Reports) /\ Ordered(board[v], q)
      BY <1>1 DEF IInv, Typed, Queued
    <3>2. q # <<>> /\ board'[v] = Row(Head(q)) /\ Head(q) = q[1] /\ 1 \in 1 .. Len(q)
      BY <2>4, <3>1, OrderedTail DEF Handled
    <3>3. Genuine(board'[v], run[v], guest[v], job[v]) /\ NotLater(board[v], board'[v])
      BY <1>1, <3>1, <3>2 DEF IInv, Queued, Ordered
    <3>4. /\ board'[v].run \in Nat
          /\ \/ board'[v].status = <<"waiting">> /\ Order(board'[v]) = 3
             \/ board'[v].status = <<"picked">> /\ Order(board'[v]) = 4
      BY <3>3, OrderOfGenuine
    <3>5. <<"waiting">> # <<"picked">>
      OBVIOUS
    <3> QED BY <2>2, <3>3, <3>4, <3>5 DEF NotLater
  <2> QED BY <1>1, <2>3, <2>4, InboxStep
          DEF IInv, Quiet, TellsWaiting, TellsPicked, Tells, Lost, Forgotten
<1>2. ASSUME IInv, [Next]_vars PROVE [Forward]_vars
  BY <1>1, <1>2
<1> QED BY <1>2, Invariant, PTL DEF Spec, NeverGoesBack
=============================================================================
