--------------------------- MODULE MCElectionRound ---------------------------
(* TLC instance of ElectionRound: three peers, two of them candidates.    *)
EXTENDS ElectionRound

CONSTANTS s1, s2, s3

MCServer == {s1, s2, s3}
MCCandidates == {s1, s2}

\* The sentinel entry the handler's last-entry read presumes.
Sentinel == [index |-> 0, term |-> 0]

\* The empty log (the program's), the sentinel alone, and two logs that
\* agree on index 1 but not on its term.
MCLogs == {<<>>, <<Sentinel>>,
           <<Sentinel, [index |-> 1, term |-> 1]>>,
           <<Sentinel, [index |-> 1, term |-> 2]>>}

\* The logs of the passing run: empty, sentinel, and a longer one.
MCRoundLogs == {<<>>, <<Sentinel>>, <<Sentinel, [index |-> 1, term |-> 2]>>}
=============================================================================
