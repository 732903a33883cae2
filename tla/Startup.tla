-------------------------------- MODULE Startup --------------------------------
(***************************************************************************)
(* One server process with several bind points, from the configuration     *)
(* that main has read to the end of the process: ListenAndServe starts one *)
(* goroutine per bind and waits for the first failure; a signal handler    *)
(* removes the Unix sockets.  The goroutines share the process's umask,    *)
(* its POSIX locks, which do not exclude the process itself, and the file  *)
(* system.                                                                 *)
(*                                                                         *)
(* SocketLock has the lock file in detail, between processes.  Here it is  *)
(* one step to get and one to give back.                                   *)
(***************************************************************************)
EXTENDS Naturals, Sequences

CONSTANTS
  Addresses,  \* paths of Unix sockets, and host:port of TCP
  Abstract,   \* the addresses that begin with "@"
  Bits,       \* the permissions of a file
  Worlds      \* what the process may meet: see World

Types == {"http", "https", "unix"}

Bind == [type : Types, address : Addresses, mode : SUBSET Bits]

\* The umask it inherits, the sockets left by earlier processes, the addresses
\* that other processes hold (a lock, a port), and what may go wrong: chown is
\* refused, a certificate does not load, Serve fails, a signal arrives, syslog
\* cannot be reached.
World == [umask : SUBSET Bits, leftovers : SUBSET Addresses, taken : SUBSET Addresses,
          faults : SUBSET {"chown", "cert", "serve", "signal", "syslog"}]

ASSUME StartupAssumption == Abstract \subseteq Addresses /\ Worlds \subseteq World

VARIABLES
  world,   \* never changes
  binds,   \* configuration.Protocol.Bind
  main,    \* where the process is: reading its configuration, waiting for a
           \* failure, about to exit with 1, or gone
  at,      \* where the goroutine of each bind is
  umask,   \* of the process
  saved,   \* oldmask of each bind
  names,   \* the addresses for which there is a socket file
  owner,   \* the bind that listens on it, or 0
  perm,    \* the mode it was created with
  open,    \* the binds with an open listener
  locks,   \* the addresses whose lock the process holds
  sig      \* 0, or the bind the signal handler turns to next

startVars == <<world, binds, main, at, umask, saved, names, owner, perm, open, locks, sig>>

Gone == {"exit0", "exit1", "panicked"}

Steps == {"start", "lock", "stat", "remove", "listen", "restore", "undo", "chown", "tls",
          "serve", "close", "report", "reported"}

StartInit ==
  /\ world \in Worlds
  /\ binds = <<>>
  /\ main = "config"
  /\ at = <<>>
  /\ umask = world.umask
  /\ saved = <<>>
  /\ names = world.leftovers
  /\ owner = [a \in Addresses |-> 0]
  /\ perm = [a \in Addresses |-> Bits]
  /\ open = {}
  /\ locks = {}
  /\ sig = 0

Running == main \in {"waiting", "failing"}

Unix(b) == binds[b].type = "unix"
Named(b) == binds[b].address \notin Abstract
Address(b) == binds[b].address

\* A goroutine of a running process takes a step.
Step(b, from, to) ==
  /\ Running
  /\ at[b] = from
  /\ at' = [at EXCEPT ![b] = to]

\* What a bind leaves alone outside the steps that say otherwise.
Aside == UNCHANGED <<world, binds, main, sig>>
Files == <<names, owner, perm>>
Masks == <<umask, saved>>

-----------------------------------------------------------------------------
(* main, up to ListenAndServe.                                             *)

\* os.Exit(1) on a bad configuration, or a panic.
Quit ==
  /\ main = "config"
  /\ main' \in {"exit1", "panicked"}
  /\ UNCHANGED <<world, binds, at, umask, saved, names, owner, perm, open, locks, sig>>

\* ListenAndServe: one goroutine per bind.
Spawn(list) ==
  /\ main = "config" /\ list \in Seq(Bind) /\ list # <<>>
  /\ binds' = list
  /\ main' = "waiting"
  /\ at' = [b \in DOMAIN list |-> "start"]
  /\ saved' = [b \in DOMAIN list |-> {}]
  /\ UNCHANGED <<world, umask, names, owner, perm, open, locks, sig>>

-----------------------------------------------------------------------------
(* Bind, for HTTP and HTTPS.                                               *)

PortFree(b) ==
  /\ Address(b) \notin world.taken
  /\ \A c \in open : Unix(c) \/ Address(c) # Address(b)

ListenTCP(b) ==
  /\ ~Unix(b)
  /\ \/ /\ PortFree(b)
        /\ Step(b, "start", IF binds[b].type = "https" THEN "tls" ELSE "serve")
        /\ open' = open \cup {b}
     \/ /\ ~PortFree(b)
        /\ Step(b, "start", "report")
        /\ UNCHANGED open
  /\ Aside /\ UNCHANGED <<Files, Masks, locks>>

\* ServeTLS returns at once without a certificate and leaves the listener open.
ServeTLS(b) ==
  /\ Step(b, "tls", IF "cert" \in world.faults THEN "report" ELSE "serve")
  /\ Aside /\ UNCHANGED <<Files, Masks, open, locks>>

-----------------------------------------------------------------------------
(* Bind, for Unix sockets, with ListenUnixLock and the deferred Close.     *)

\* oldmask := myUmask(bind.Mode ^ 0777)
SetMask(b) ==
  /\ Unix(b)
  /\ Step(b, "start", IF Named(b) THEN "lock" ELSE "listen")
  /\ umask' = Bits \ binds[b].mode
  /\ saved' = [saved EXCEPT ![b] = umask]
  /\ Aside /\ UNCHANGED <<Files, open, locks>>

\* FcntlFlock fails for another process's lock, never for this one's.
Lock(b) ==
  /\ \/ /\ Address(b) \notin world.taken
        /\ locks' = locks \cup {Address(b)}
        /\ Step(b, "lock", "stat")
     \/ /\ Address(b) \in world.taken
        /\ Step(b, "lock", "undo")
        /\ UNCHANGED locks
  /\ Aside /\ UNCHANGED <<Files, Masks, open>>

\* Broken: what an earlier process left stays.
StatSocketKeeps(b) ==
  /\ Step(b, "stat", "listen")
  /\ Aside /\ UNCHANGED <<Files, Masks, open, locks>>

StatSocket(b) ==
  /\ Step(b, "stat", IF Address(b) \in names THEN "remove" ELSE "listen")
  /\ Aside /\ UNCHANGED <<Files, Masks, open, locks>>

RemoveLeftovers(b) ==
  /\ Step(b, "remove", IF Address(b) \in names THEN "listen" ELSE "undo")
  /\ names' = names \ {Address(b)}
  /\ owner' = [owner EXCEPT ![Address(b)] = 0]
  /\ Aside /\ UNCHANGED <<perm, Masks, open, locks>>

\* net.Listen gives the file all permissions that the umask does not take away.
ListenUnix(b) ==
  /\ \/ /\ Named(b) /\ Address(b) \notin names
        /\ Step(b, "listen", "restore")
        /\ names' = names \cup {Address(b)}
        /\ owner' = [owner EXCEPT ![Address(b)] = b]
        /\ perm' = [perm EXCEPT ![Address(b)] = Bits \ umask]
        /\ open' = open \cup {b}
     \/ /\ ~Named(b) /\ Address(b) \notin world.taken
        /\ \A c \in open : Address(c) # Address(b)
        /\ Step(b, "listen", "restore")
        /\ open' = open \cup {b}
        /\ UNCHANGED Files
     \/ /\ IF Named(b) THEN Address(b) \in names
           ELSE Address(b) \in world.taken \/ \E c \in open : Address(c) = Address(b)
        /\ Step(b, "listen", "undo")
        /\ UNCHANGED <<Files, open>>
  /\ Aside /\ UNCHANGED <<Masks, locks>>

\* Broken: an error returns before the mask is put back.
RestoreMaskOnSuccess(b) ==
  /\ \/ Step(b, "restore", "chown") /\ umask' = saved[b]
     \/ Step(b, "undo", "report") /\ UNCHANGED umask
  /\ Aside /\ UNCHANGED <<saved, Files, open, locks>>

\* myUmask(oldmask), before the error is looked at.
RestoreMask(b) ==
  /\ Step(b, "restore", "chown") \/ Step(b, "undo", "report")
  /\ umask' = saved[b]
  /\ Aside /\ UNCHANGED <<saved, Files, open, locks>>

\* os.Chown needs a file of that name.
Chown(b) ==
  /\ \/ /\ Named(b) /\ Address(b) \in names /\ "chown" \notin world.faults
        /\ Step(b, "chown", "serve")
     \/ /\ ~Named(b) \/ Address(b) \notin names \/ "chown" \in world.faults
        /\ Step(b, "chown", "close")
  /\ Aside /\ UNCHANGED <<Files, Masks, open, locks>>

\* Broken: Close removes the sockets of all binds.
CloseUnlinksAll(b) ==
  /\ Step(b, "close", "report")
  /\ names' = {}
  /\ owner' = [a \in Addresses |-> 0]
  /\ open' = open \ {b}
  /\ locks' = locks \ {Address(b)}
  /\ Aside /\ UNCHANGED <<perm, Masks>>

\* UnixListenerWithLock.Close, in SocketLock three steps: the name goes, whatever
\* listens behind it, and so does the process's lock.  Without a lock file it
\* returns at once.
Close(b) ==
  /\ Step(b, "close", "report")
  /\ IF Named(b)
     THEN /\ names' = names \ {Address(b)}
          /\ owner' = [owner EXCEPT ![Address(b)] = 0]
          /\ open' = open \ {b}
          /\ locks' = locks \ {Address(b)}
     ELSE UNCHANGED <<names, owner, open, locks>>
  /\ Aside /\ UNCHANGED <<perm, Masks>>

\* srv.Serve closes a TCP listener itself.
ServeFails(b) ==
  /\ "serve" \in world.faults
  /\ \/ Unix(b) /\ Step(b, "serve", "close") /\ UNCHANGED open
     \/ ~Unix(b) /\ Step(b, "serve", "report") /\ open' = open \ {b}
  /\ Aside /\ UNCHANGED <<Files, Masks, locks>>

\* The goroutine of a bind.
Listen(b) ==
  \/ ListenTCP(b) \/ ServeTLS(b)
  \/ SetMask(b) \/ Lock(b) \/ StatSocket(b) \/ RemoveLeftovers(b) \/ ListenUnix(b)
  \/ RestoreMask(b) \/ Chown(b) \/ Close(b)

-----------------------------------------------------------------------------
(* The end of the process.                                                 *)

\* The system closes the listeners and drops the locks; socket files stay.
End(code) ==
  /\ main' = code
  /\ owner' = [a \in Addresses |-> 0]
  /\ open' = {}
  /\ locks' = {}
  /\ UNCHANGED <<world, binds, at, umask, saved, names, perm, sig>>

\* Broken: ListenAndServe waits until every bind has failed.
ReceiveLast ==
  /\ main = "waiting" /\ \A b \in DOMAIN binds : at[b] = "report"
  /\ main' = "failing"
  /\ UNCHANGED <<world, binds, at, umask, saved, names, owner, perm, open, locks, sig>>

\* return <-failureChannel: one failure is received, the others wait to be sent.
Receive ==
  /\ main = "waiting"
  /\ \E b \in DOMAIN binds :
       /\ at[b] = "report"
       /\ at' = [at EXCEPT ![b] = "reported"]
  /\ main' = "failing"
  /\ UNCHANGED <<world, binds, umask, saved, names, owner, perm, open, locks, sig>>

ExitFailed == main = "failing" /\ End("exit1")

\* SIGHUP is only logged.
Signal ==
  /\ Running /\ sig = 0 /\ "signal" \in world.faults
  /\ sig' = 1
  /\ UNCHANGED <<world, binds, main, at, umask, saved, names, owner, perm, open, locks>>

\* Broken: the loop over the binds ends at the first that is not a Unix socket.
CleanUpBreaks ==
  /\ Running /\ sig \in DOMAIN binds
  /\ IF Unix(sig)
     THEN /\ names' = names \ {Address(sig)}
          /\ owner' = [owner EXCEPT ![Address(sig)] = 0]
          /\ sig' = sig + 1
     ELSE sig' = Len(binds) + 1 /\ UNCHANGED <<names, owner>>
  /\ UNCHANGED <<world, binds, main, at, umask, saved, perm, open, locks>>

\* registerCleanupAtExit: one os.Remove for each Unix bind, lock or no lock.
CleanUp ==
  /\ Running /\ sig \in DOMAIN binds
  /\ IF Unix(sig)
     THEN /\ names' = names \ {Address(sig)}
          /\ owner' = [owner EXCEPT ![Address(sig)] = 0]
     ELSE UNCHANGED <<names, owner>>
  /\ sig' = sig + 1
  /\ UNCHANGED <<world, binds, main, at, umask, saved, perm, open, locks>>

ExitSignaled == Running /\ sig > Len(binds) /\ End("exit0")

Finish == Receive \/ ExitFailed
Handle == CleanUp \/ ExitSignaled

-----------------------------------------------------------------------------

Run ==
  \/ \E b \in DOMAIN binds : Listen(b) \/ ServeFails(b)
  \/ Finish \/ Signal \/ Handle

StartNext == Quit \/ Spawn(binds') \/ Run

StartSpec == StartInit /\ [][StartNext]_startVars

-----------------------------------------------------------------------------

\* Every variable has a value of its type.
StartTypeOK ==
  /\ world \in World
  /\ binds \in Seq(Bind)
  /\ main \in {"config", "waiting", "failing"} \cup Gone
  /\ at \in [DOMAIN binds -> Steps]
  /\ umask \in SUBSET Bits
  /\ saved \in [DOMAIN binds -> SUBSET Bits]
  /\ names \subseteq Addresses
  /\ owner \in [Addresses -> {0} \cup DOMAIN binds]
  /\ perm \in [Addresses -> SUBSET Bits]
  /\ open \subseteq DOMAIN binds
  /\ locks \subseteq Addresses
  /\ sig \in Nat

\* No two binds of a transport have one address.
Distinct ==
  \A b, c \in DOMAIN binds : b # c /\ (Unix(b) <=> Unix(c)) => Address(b) # Address(c)

\* The steps at which a Unix bind has its socket.
Listening == {"restore", "chown", "serve"}

\* A Unix bind that listens can be reached, and is under the protection of its
\* lock, whatever happens to the other binds meanwhile: nobody but the signal handler
\* takes its socket away.  It does not hold for two binds of one address, which
\* both pass the lock.
OwnSocket ==
  Distinct /\ Running /\ sig = 0 =>
    \A b \in DOMAIN binds : Unix(b) /\ Named(b) /\ at[b] \in Listening =>
      /\ Address(b) \in names /\ owner[Address(b)] = b
      /\ Address(b) \in locks

\* The steps between the two calls of myUmask.
Masked == {"lock", "stat", "remove", "listen", "restore", "undo"}

\* A bind that listens on a socket has given it the mode of its configuration
\* ("Change umask to ensure socker is created with right permissions").
SocketModeAsConfigured ==
  \A b \in DOMAIN binds : Unix(b) /\ owner[Address(b)] = b => perm[Address(b)] = binds[b].mode

\* With one Unix bind the socket has its mode, and the process its umask again
\* after it, however the bind has ended.
OneBindKeepsMask ==
  (\A b, c \in DOMAIN binds : Unix(b) /\ Unix(c) => b = c) =>
    /\ SocketModeAsConfigured
    /\ (\A b \in DOMAIN binds : at[b] \notin Masked) => umask = world.umask

\* A bind that has failed ends the whole program: the failure is received, and the
\* binds that still serve are not left running.
FailureEndsProgram == (\E b \in DOMAIN binds : at[b] = "report") ~> main \in Gone

AllServe == \A b \in DOMAIN binds : at[b] = "serve"

\* Distinct addresses that nobody has, and nothing that goes wrong.
Sane ==
  /\ main = "waiting" /\ world.faults = {} /\ Distinct
  /\ \A b \in DOMAIN binds :
       Address(b) \notin world.taken /\ (Unix(b) => Named(b))

\* With a sane configuration every bind comes to serve, whatever sockets an earlier
\* process has left.
SaneConfigurationServes == Sane ~> AllServe

\* A signal that finds every bind serving removes all their sockets, and ends the
\* program with success.
SignalCleansUp ==
  (main = "waiting" /\ sig = 1 /\ AllServe /\ "serve" \notin world.faults) ~>
    (main = "exit0" /\ \A b \in DOMAIN binds : Unix(b) => Address(b) \notin names)

=============================================================================
