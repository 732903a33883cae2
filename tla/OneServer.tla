------------------------------- MODULE OneServer -------------------------------
(* What the lock file beside a Unix socket promises, without the lock file:   *)
(* one server at a time has the address, and what happens to the socket there *)
(* is its own doing.                                                          *)

CONSTANT Servers  \* the processes

VARIABLES
  holding,  \* the processes that have the address: none or one
  socket    \* the socket's name: no file, a leftover, or a server's

Init == holding = {} /\ socket = "none"

\* The address is free: nobody is pushed aside.
Acquire(p) == holding = {} /\ holding' = {p} /\ UNCHANGED socket

\* A server does not put its socket in the place of another.
Serve(p) == holding = {p} /\ socket = "none" /\ socket' = p /\ UNCHANGED holding

\* A socket is removed by the server that has the address, or when nobody has it.
Unlink(p) == holding \subseteq {p} /\ socket' = "none" /\ UNCHANGED holding

\* Closed or killed: what is left of its socket does not stand for a server.
Release(p) ==
  /\ holding = {p} /\ holding' = {}
  /\ socket' = IF socket = p THEN "stale" ELSE socket

Next == \E p \in Servers : Acquire(p) \/ Serve(p) \/ Unlink(p) \/ Release(p)

Spec == Init /\ [][Next]_<<holding, socket>>

=============================================================================
