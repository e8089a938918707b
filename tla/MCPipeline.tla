----------------------------- MODULE MCPipeline -----------------------------
(* An instance of Pipeline for TLC.                                        *)
EXTENDS Pipeline

CONSTANTS a1, a2, b1   \* jobs

\* Hosts fc and fc-1: the VM fc-1 of the first, and fc-1-0 of the second.
FleetHosts == {<<"fc">>, <<"fc", "1">>}
FleetSizes == (<<"fc">> :> 2) @@ (<<"fc", "1">> :> 1)

\* Two jobs of one repository, and an urgent one of another.
JobRepo   == (a1 :> "a") @@ (a2 :> "a") @@ (b1 :> "b")
JobLabels == (a1 :> <<"firecracker">>) @@ (a2 :> <<"firecracker">>) @@ (b1 :> <<"f0">>)
=============================================================================
