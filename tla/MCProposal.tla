------------------------------ MODULE MCProposal ------------------------------
(***************************************************************************)
(* An instance of Proposal for TLC.                                        *)
(***************************************************************************)
EXTENDS Proposal

Blobs(len) == <<[ns |-> 1, len |-> len]>>
NormalTx(len, denom, spend) ==
    [kind |-> "normal", len |-> len, blobs |-> <<>>, feeDenom |-> denom, spend |-> spend]
Bid(spend) ==
    [kind |-> "bid", len |-> 4, blobs |-> <<>>, feeDenom |-> "bypass", spend |-> spend]
BlobTx(len) ==
    [kind |-> "blob", len |-> 4, blobs |-> Blobs(len), feeDenom |-> "fee", spend |-> 0]

\* Normal transactions of one share and of more than half a square, one that
\* spends, one with a fee the proposals refuse; a bid; a blob of two shares.
MCShapes ==
    {NormalTx(4, "fee", 1), NormalTx(13, "fee", 0), NormalTx(4, "other", 0), Bid(2), BlobTx(5)}

MCBlobLists == {Blobs(5)}

\* Nothing tells the accounts apart.
MCSymmetry == Permutations(Accounts)

=============================================================================
