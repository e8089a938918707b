---------------------------- MODULE MCRunnerHost ----------------------------
(* Instances of RunnerHost for TLC.                                        *)
EXTENDS RunnerHost, TLC

\* The goroutines of the semaphore are interchangeable.
WorkerSymmetry == Permutations(Workers)

\* Every completed event is stored once, and acknowledged in time.
GenuineFaults == {"start", "exit", "lose"}

NoFaults == {}

\* What can delay a completed event or bring it back.
DeliveryFaults == {"dup", "ack", "slow", "crash"}

\* All but a restart of hostctl.
QuietFaults == FaultKinds \ {"crash"}
=============================================================================
