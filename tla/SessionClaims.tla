--------------------------- MODULE SessionClaims ---------------------------
(***************************************************************************)
(* What comments, help texts and tests of the repository say of a session, *)
(* stated over Session, where the code as it stands does otherwise.        *)
(***************************************************************************)
EXTENDS MCSession

(* session.go:84, of Session: "Safe for concurrent use."  A View or a       *)
(* SubscribeWithPrime of a handler that resolved the session before it was *)
(* removed uses the nil terminal.                                          *)
SafeForConcurrentUse == ~crashed

(* daemon_test.go:176-180: a watch that has received its EOF frame has       *)
(* received all the child's output ("live2" was its last).  When the frame *)
(* is sent and nothing can write any more, no chunk is missing.            *)
EofAfterOutput == [][\A p \in Procs :
    (p \in eof' \ eof /\ slave = "hup") => last[p] = written]_vars

=============================================================================
