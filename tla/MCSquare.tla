------------------------------- MODULE MCSquare -------------------------------
(***************************************************************************)
(* Instances of Square for TLC.                                            *)
(***************************************************************************)
EXTENDS Square

\* One blob, of one to five shares, or two in either order of namespaces.
MCBlobLists ==
    {<<[ns |-> n, len |-> l]>> : n \in {1, 2}, l \in {1, 5, 14}}
    \cup {<<[ns |-> n, len |-> 5], [ns |-> 3 - n, len |-> 8]>> : n \in {1, 2}}

=============================================================================
