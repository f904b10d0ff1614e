----------------------------- MODULE MCRetention -----------------------------
EXTENDS Retention

MCFiles == {[kind |-> "tar", day |-> 1], [kind |-> "raw", day |-> 0],
            [kind |-> "jsonl", day |-> 0]}
=============================================================================
