----------------------------- MODULE MCBlobstream -----------------------------
(***************************************************************************)
(* Two operators and two EVM addresses.  The power tables hold one         *)
(* validator, two equal ones, and a second one below the threshold.        *)
(***************************************************************************)
EXTENDS Blobstream

CONSTANTS v1, v2, e1, e2

MCDefaultEvmAddress == [v \in {v1, v2} |-> IF v = v1 THEN e1 ELSE e2]

MCPowerTables ==
    {[v \in {v1} |-> 1],
     [v \in {v1, v2} |-> 1],
     [v \in {v1, v2} |-> IF v = v1 THEN 60 ELSE 1]}

=============================================================================
