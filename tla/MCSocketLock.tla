----------------------------- MODULE MCSocketLock -----------------------------
(* SocketLock with a few processes.  One inode more than there are processes *)
(* is enough: each has one lock file open, and the name may stand for another. *)
EXTENDS SocketLock

CONSTANTS a, b, c

\* Either processes overlap and end by SIGKILL only, or one is started when
\* the previous one is dead, however that came about.
SafeModes == {[overlap |-> TRUE, ends |-> {"kill"}],
              [overlap |-> FALSE, ends |-> {"kill", "signal", "fail"}]}

\* A process that fails closes its listener while another one starts.
FailingModes == {[overlap |-> TRUE, ends |-> {"fail"}]}

=============================================================================
