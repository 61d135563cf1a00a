----------------------------- MODULE MCConnect -----------------------------
(* Instances of Connect for TLC.                                           *)
EXTENDS Connect

MCConn == {1, 2}
MCOneSub == {1}
MCTwoSubs == {1, 2}
MCSecond == {2}
MCViewer == {1}
MCGrants == {{}, {1}}
MCExpires == [c \in MCConn |-> 2 - c]
=============================================================================
