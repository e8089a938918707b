----------------------------- MODULE MCJobQueue -----------------------------
(* Instances of JobQueue for TLC.                                          *)
EXTENDS JobQueue

CONSTANTS urgent, regular, rig   \* jobs

Label == (urgent :> "f0") @@ (regular :> "firecracker") @@ (rig :> "testrig")

\* An urgent and a regular job; a testrig and a regular job.
PlainJobs  == {urgent, regular}
PlainLabel == [j \in PlainJobs |-> Label[j]]
MixedJobs  == {regular, rig}
MixedLabel == [j \in MixedJobs |-> Label[j]]

AllFaults   == {"call", "reply", "slow", "crash"}
ReplyFaults == {"reply"}

\* Faults that cannot take a message out of the stream or end a machine.
RetryFaults == {"call", "slow"}
=============================================================================
