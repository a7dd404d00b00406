------------------------------ MODULE MCDaemon ------------------------------
(* Daemon for TLC: the names and IDs of the runs, one name being a prefix of *)
(* one of the IDs, and the sets of operations clients ask for.             *)
EXTENDS Daemon, TLC

CONSTANTS n1, n2, i1, i2

OneName  == {n1}
TwoNames == {n1, n2}
TwoIds   == {i1, i2}

PrefixOfI1 == [n \in Names |-> IF n = n1 THEN {i1} ELSE {}]

AllOps      == {"run", "list", "kill", "remove", "watch", "daemonStop"}
QueueOps    == {"run", "watch", "daemonStop"}

\* Handlers differ in nothing but their requests.
HandlerSymmetry == Permutations(Handlers)
=============================================================================
