------------------------------ MODULE MCWalLog ------------------------------
(***************************************************************************)
(* Instances of WalLog for TLC.                                            *)
(***************************************************************************)
EXTENDS WalLog

CONSTANTS s1, s2

\* two streams, and a position that two entries share (see LsnUnique of
\* ShardGroup: a change of leader can commit a position twice)
MCLog == << [stream |-> s1, lsn |-> 0], [stream |-> s2, lsn |-> 0],
            [stream |-> s1, lsn |-> 0], [stream |-> s1, lsn |-> 1] >>
=============================================================================
