---------------------------- MODULE StatusBoard ----------------------------
(***************************************************************************)
(* The status board: a table in the memory of the webhook that shows what  *)
(* each machine last reported.  Four reports are to come from its host, by *)
(* the code that starts and stops it, and two from wait-for-job inside the *)
(* machine; /runner-status shows the table.                                *)
(*                                                                         *)
(* A report is a NATS request: lines of text fields joined by commas.  As  *)
(* a comment may itself have commas, a text is a sequence of pieces, with  *)
(* a comma between any two.  The name of a machine is that of its slot;    *)
(* which run of it made a report is known to the model only.               *)
(***************************************************************************)
EXTENDS Naturals, Sequences

CONSTANTS VMs,       \* names of machines (host-slot)
          Keys,      \* what EventKey makes of the jobs: sequences of pieces
          MaxRuns,   \* bound on the starts of each machine
          MaxFaults  \* bound on lost or late calls and crashes

ASSUME StatusAssumption ==
    /\ Keys \subseteq Seq(STRING)
    /\ MaxRuns \in Nat
    /\ MaxFaults \in Nat

Statuses == <<"starting", "started", "waiting", "picked", "stopping", "stopped">>
Runs     == 1 .. MaxRuns
NoRow    == [status |-> <<>>, comment |-> <<>>, run |-> 0]
NoPage   == [at |-> "none", rows |-> {}]

VARIABLES
    run,      \* how often each machine has been started
    host,     \* what the host does next with it
    mailing,  \* the goroutine of createVM has still to report "started"
    guest,    \* what wait-for-job does in it
    job,      \* the key of the job it picked
    inbox,    \* reports of each machine the webhook has not handled, in order
    web,      \* whether the webhook runs
    board,    \* StatusReporter.inventory
    page,     \* the request for /runner-status that is being answered
    faults    \* faults that may still happen

vmVars == <<run, host, mailing, guest, job>>
vars   == <<vmVars, inbox, web, board, page, faults>>

Fault      == faults > 0 /\ faults' = faults - 1
Host(v, l)  == host' = [host EXCEPT ![v] = l]
Guest(v, l) == guest' = [guest EXCEPT ![v] = l]

Init ==
    /\ run = [v \in VMs |-> 0]
    /\ host = [v \in VMs |-> "off"]
    /\ mailing = [v \in VMs |-> FALSE]
    /\ guest = [v \in VMs |-> "off"]
    /\ job = [v \in VMs |-> <<>>]
    /\ inbox = [v \in VMs |-> <<>>]
    /\ web = TRUE
    /\ board = [v \in VMs |-> NoRow]
    /\ page = NoPage
    /\ faults = MaxFaults

-----------------------------------------------------------------------------
(* Reports.                                                                *)

\* impl.nc of the firecracker provider: its Init is given the connection of
\* the Manager but does not keep it.
HostConnection == "nil"

Text(v, status, comment) == <<v, status>> \o comment

\* ReportStatus over connection nc.  A request on a nil connection fails at
\* once, and so does one that finds no responder.
ReportStatus(nc, v, r, status, comment) ==
    IF nc = "nil" \/ ~web
    THEN UNCHANGED inbox
    ELSE inbox' = [inbox EXCEPT ![v] =
                     Append(@, [text |-> Text(v, status, comment), run |-> r])]

\* strings.SplitN with a comma: the last field keeps what is left.
SplitN(text, n) ==
    [i \in 1 .. IF Len(text) < n THEN Len(text) ELSE n |->
        IF i < n THEN <<text[i]>> ELSE SubSeq(text, n, Len(text))]

\* Mutations: Split takes every comma, and SplitN stops one too early.
SplitAll(text)   == SplitN(text, Len(text))
SplitInTwo(text) == SplitN(text, 2)
Fields(text)     == SplitN(text, 3)

Row(m) == [status  |-> Fields(m.text)[2],
           comment |-> IF Len(Fields(m.text)) >= 3 THEN Fields(m.text)[3] ELSE <<>>,
           run     |-> m.run]

\* Mutation: renderRunnerInfo does not lock.
NeverLocked == FALSE

\* renderRunnerInfo holds the mutex of the inventory.
Locked == page.at = "rows"

\* Mutation: a goroutine for every report, so that any may be the next.
SetStatusAnyOrder(v) ==
    /\ web /\ ~Locked
    /\ \E i \in 1 .. Len(inbox[v]) :
         /\ board' = [board EXCEPT ![v] = Row(inbox[v][i])]
         /\ inbox' = [inbox EXCEPT ![v] = SubSeq(@, 1, i - 1) \o SubSeq(@, i + 1, Len(@))]
    /\ UNCHANGED <<vmVars, web, page, faults>>

\* Mutation: a state earlier than the one shown is taken for a late report.
SetStatusIfLater(v) ==
    /\ web /\ ~Locked
    /\ inbox[v] # <<>>
    /\ board' = IF board[v].status = <<"picked">> THEN board
                ELSE [board EXCEPT ![v] = Row(Head(inbox[v]))]
    /\ inbox' = [inbox EXCEPT ![v] = Tail(@)]
    /\ UNCHANGED <<vmVars, web, page, faults>>

\* The callback of the subscription handles one report at a time, in the
\* order of their arrival: setStatus and the response.
SetStatus(v) ==
    /\ web /\ ~Locked
    /\ inbox[v] # <<>>
    /\ board' = [board EXCEPT ![v] = Row(Head(inbox[v]))]
    /\ inbox' = [inbox EXCEPT ![v] = Tail(@)]
    /\ UNCHANGED <<vmVars, web, page, faults>>

-----------------------------------------------------------------------------
(* The host: StartRunner and StopRunner.                                   *)

\* StartRunner makes its first report, and createVM starts the machine and the
\* goroutine that sends a mail and reports "started".
StartRunner(v) ==
    /\ host[v] = "off" /\ run[v] < MaxRuns
    /\ run' = [run EXCEPT ![v] = @ + 1]
    /\ ReportStatus(HostConnection, v, run[v] + 1, "starting", <<>>)
    /\ mailing' = [mailing EXCEPT ![v] = TRUE]
    /\ Host(v, "up")
    /\ Guest(v, "boot")
    /\ UNCHANGED <<job, web, board, page, faults>>

\* The mail takes as long as it takes.
ReportStarted(v) ==
    /\ mailing[v]
    /\ ReportStatus(HostConnection, v, run[v], "started", <<>>)
    /\ mailing' = [mailing EXCEPT ![v] = FALSE]
    /\ UNCHANGED <<run, host, guest, job, web, board, page, faults>>

\* The completed event of its job has come.
StopRunner(v) ==
    /\ host[v] = "up" /\ guest[v] = "done"
    /\ ReportStatus(HostConnection, v, run[v], "stopping", job[v])
    /\ Host(v, "stopping")
    /\ UNCHANGED <<run, mailing, guest, job, web, board, page, faults>>

\* Free cancels the context of the machine, and the last report is made.
Stopped(v) ==
    /\ host[v] = "stopping"
    /\ ReportStatus(HostConnection, v, run[v], "stopped", job[v])
    /\ Host(v, "off")
    /\ Guest(v, "off")
    /\ job' = [job EXCEPT ![v] = <<>>]
    /\ UNCHANGED <<run, mailing, web, board, page, faults>>

-----------------------------------------------------------------------------
(* The machine: wait-for-job, over a connection of its own.                *)

\* NewConnection succeeds; or it gives up after 350 ms, the script ends (set
\* -e), and the machine stays as it is.
Connect(v) ==
    /\ guest[v] = "boot"
    /\ \/ Guest(v, "wait") /\ UNCHANGED faults
       \/ Guest(v, "stuck") /\ Fault
    /\ UNCHANGED <<run, host, mailing, job, inbox, web, board, page>>

\* wait_until_job finds no job: the machine reports, ...
FindNothing(v) ==
    /\ guest[v] = "wait"
    /\ ReportStatus("nats", v, run[v], "waiting", <<>>)
    /\ Guest(v, "asking")
    /\ UNCHANGED <<run, host, mailing, job, web, board, page, faults>>

\* ... or it finds one, reports it and goes on to run it.
FindJob(v) ==
    /\ guest[v] = "wait"
    /\ job' \in {[job EXCEPT ![v] = key] : key \in Keys}
    /\ Guest(v, "picked")
    /\ UNCHANGED <<run, host, mailing, inbox, web, board, page, faults>>

ReportPicked(v) ==
    /\ guest[v] = "picked"
    /\ ReportStatus("nats", v, run[v], "picked", job[v])
    /\ Guest(v, "telling")
    /\ UNCHANGED <<run, host, mailing, job, web, board, page, faults>>

\* A request ends with the response, which has come when the webhook has
\* handled the report, when the report is lost, or after ten seconds, however
\* late the webhook is.  After a report of "waiting" the machine sleeps for
\* ten seconds and tries again; after "picked" it runs the job.
RequestEnds(v) ==
    /\ guest[v] \in {"asking", "telling"}
    /\ \/ inbox[v] = <<>> /\ UNCHANGED faults
       \/ inbox[v] # <<>> /\ Fault
    /\ Guest(v, IF guest[v] = "asking" THEN "wait" ELSE "running")
    /\ UNCHANGED <<run, host, mailing, job, inbox, web, board, page>>

FinishJob(v) ==
    /\ guest[v] = "running"
    /\ Guest(v, "done")
    /\ UNCHANGED <<run, host, mailing, job, inbox, web, board, page, faults>>

\* A report is lost on its way: the last one, as the connection of the machine
\* keeps their order.
Lose(v) ==
    /\ inbox[v] # <<>>
    /\ Fault
    /\ inbox' = [inbox EXCEPT ![v] = SubSeq(@, 1, Len(@) - 1)]
    /\ UNCHANGED <<vmVars, web, board, page>>

-----------------------------------------------------------------------------
(* The webhook and its page.                                               *)

\* The board lives in memory, and so does the page being made; reports that
\* had reached the subscription are gone.
Crash ==
    /\ web
    /\ Fault
    /\ web' = FALSE
    /\ board' = [v \in VMs |-> NoRow]
    /\ inbox' = [v \in VMs |-> <<>>]
    /\ page' = NoPage
    /\ UNCHANGED vmVars

\* NewStatusReporter: an empty inventory and a subscription.
Restart ==
    /\ ~web
    /\ web' = TRUE
    /\ UNCHANGED <<vmVars, inbox, board, page, faults>>

\* GET /runner-status: renderRunnerInfo locks the inventory, ...
Ask ==
    /\ web /\ page.at = "none"
    /\ page' = [at |-> "rows", rows |-> {}]
    /\ UNCHANGED <<vmVars, inbox, web, board, faults>>

Copied == {r.vm : r \in page.rows}

\* ... copies one row after the other ...
CopyRow(v) ==
    /\ page.at = "rows"
    /\ v \notin Copied
    /\ page' = [page EXCEPT !.rows = @ \cup {[vm |-> v, row |-> board[v]]}]
    /\ UNCHANGED <<vmVars, inbox, web, board, faults>>

\* ... and unlocks it.
Unlock ==
    /\ page.at = "rows"
    /\ Copied = VMs
    /\ page' = [at |-> "streams", rows |-> {}]
    /\ UNCHANGED <<vmVars, inbox, web, board, faults>>

\* CollectStreamInfo and CollectConsumerInfo of both streams follow.  If one
\* fails the whole page is an error, but an error in the list of consumers is
\* passed on as nil: that part of the page is empty.
Answer ==
    /\ page.at = "streams"
    /\ page' = NoPage
    /\ UNCHANGED <<vmVars, inbox, web, board, faults>>

-----------------------------------------------------------------------------
Render   == Ask \/ (\E v \in VMs : CopyRow(v)) \/ Unlock \/ Answer
HostStep(v) == StartRunner(v) \/ ReportStarted(v) \/ StopRunner(v) \/ Stopped(v)
GuestStep(v) == Connect(v) \/ FindNothing(v) \/ FindJob(v) \/ ReportPicked(v)
                \/ RequestEnds(v) \/ FinishJob(v)

Next ==
    \/ \E v \in VMs : HostStep(v) \/ GuestStep(v) \/ SetStatus(v) \/ Lose(v)
    \/ Crash \/ Restart \/ Render

Spec == Init /\ [][Next]_vars

\* The webhook is restarted and answers; its callback gets the mutex in the
\* end, however many pages are asked for (sync.Mutex does not starve); a
\* machine goes on polling, though it may never find a job.
Fairness ==
    /\ WF_vars(Restart \/ (\E v \in VMs : CopyRow(v)) \/ Unlock \/ Answer)
    /\ \A v \in VMs : SF_vars(SetStatus(v)) /\ WF_vars(GuestStep(v) /\ ~FinishJob(v))

FairSpec == Spec /\ Fairness

-----------------------------------------------------------------------------
(* Properties.                                                             *)

StatusFields == {<<Statuses[i]>> : i \in DOMAIN Statuses}
Rows         == [status : StatusFields, comment : Keys \cup {<<>>}, run : Runs]
Order(r)     == CHOOSE i \in DOMAIN Statuses : r.status = <<Statuses[i]>>

TypeOK ==
    /\ run \in [VMs -> 0 .. MaxRuns]
    /\ host \in [VMs -> {"off", "up", "stopping"}]
    /\ mailing \in [VMs -> BOOLEAN]
    /\ guest \in [VMs -> {"off", "boot", "stuck", "wait", "asking", "picked", "telling",
                          "running", "done"}]
    /\ job \in [VMs -> Keys \cup {<<>>}]
    /\ \A v \in VMs : \A i \in DOMAIN inbox[v] : inbox[v][i].run \in Runs
    /\ web \in BOOLEAN
    /\ \A v \in VMs : board[v] \in Rows \cup {NoRow}
    /\ page.at \in {"none", "rows", "streams"}
    /\ faults \in 0 .. MaxFaults

\* The row of a machine is only ever replaced by a later report: of a later
\* run, or of the same run and a later state.  Late, lost and timed-out
\* reports do not bring an old state back.
NeverGoesBack ==
    [][\A v \in VMs :
         board[v] # NoRow /\ board'[v] # NoRow =>
             \/ board'[v].run > board[v].run
             \/ /\ board'[v].run = board[v].run
                /\ Order(board'[v]) >= Order(board[v])]_vars

\* A row that says which job its machine has picked gives the whole key of
\* that job, though the name of a matrix job has commas.
PickedNamesJob ==
    \A v \in VMs : board[v].status = <<"picked">> /\ board[v].run = run[v] /\ guest[v] # "off"
                       => board[v].comment = job[v]

\* A page shows all machines as they are at one moment, that of its last row.
PageIsSnapshot == \A r \in page.rows : r.row = board[r.vm]

\* A machine that keeps waiting is shown as waiting again and again, whatever
\* is lost or late and though the webhook restarts with an empty board.
Waiting(v)      == guest[v] \in {"wait", "asking"}
ShownWaiting(v) == board[v].status = <<"waiting">> /\ board[v].run = run[v]
WaitingIsShown  == \A v \in VMs : []<>(Waiting(v) => ShownWaiting(v))
=============================================================================
