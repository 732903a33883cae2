------------------------------ MODULE SocketLock ------------------------------
(***************************************************************************)
(* Server processes that want to listen on the same Unix socket: what      *)
(* ListenUnixLock, UnixListenerWithLock.Close, Bind and the signal handler *)
(* of main do to the socket, to the lock file beside it and to its POSIX   *)
(* lock, across starts, failures, signals and SIGKILL.                     *)
(*                                                                         *)
(* The lock file is a name for an inode; the lock belongs to the inode and *)
(* dies with its holder, the name outlives it.                             *)
(***************************************************************************)
EXTENDS Naturals, FiniteSets

CONSTANTS
  Servers,  \* the processes
  Inodes,   \* enough inodes for the files that can exist at a time
  Modes,    \* what may happen to the processes: see Mode
  Nobody,   \* no process
  NoFile    \* no inode

(***************************************************************************)
(* overlap: a process may be started while another one still runs.         *)
(* ends: the ways a running process may end, beside being refused the lock *)
(* or the address: "kill" is SIGKILL or a crash, "signal" is SIGTERM or    *)
(* SIGINT, "fail" is a failing Chown or Serve.                             *)
(***************************************************************************)
Mode == [overlap : BOOLEAN, ends : SUBSET {"kill", "signal", "fail"}]

ASSUME SocketLockAssumption ==
  /\ Nobody \notin Servers /\ NoFile \notin Inodes
  /\ Modes \subseteq Mode
  /\ "none" \notin Servers /\ "stale" \notin Servers

VARIABLES
  mode,       \* never changes
  pc,         \* where each process is in Bind
  signaled,   \* the processes whose signal handler has removed the socket
  fd,         \* the lock file each process has open
  lockPath,   \* the inode that the lock file's name stands for
  locked,     \* who holds the lock of each inode
  listening,  \* the processes with an open listener
  sock        \* the socket's name: no file, a leftover, or a listener's

vars == <<mode, pc, signaled, fd, lockPath, locked, listening, sock>>

Steps == {"dead", "create", "lock", "stat", "remove", "listen", "chown", "serve",
          "unlink", "rmlock", "release", "exit"}

\* Past the lock, and up to the end of Close.
Holding == {"stat", "remove", "listen", "chown", "serve", "unlink", "rmlock", "release"}

Init ==
  /\ mode \in Modes
  /\ pc = [p \in Servers |-> "dead"]
  /\ signaled = {}
  /\ fd = [p \in Servers |-> NoFile]
  /\ lockPath = NoFile
  /\ locked = [i \in Inodes |-> Nobody]
  /\ listening = {}
  /\ sock = "none"

Goto(p, step) == pc' = [pc EXCEPT ![p] = step]

Unused == {i \in Inodes : i # lockPath /\ \A q \in Servers : fd[q] # i}

-----------------------------------------------------------------------------
(* ListenUnixLock.                                                         *)

Start(p) ==
  /\ pc[p] = "dead"
  /\ mode.overlap \/ \A q \in Servers : pc[q] = "dead"
  /\ Goto(p, "create")
  /\ UNCHANGED <<mode, signaled, fd, lockPath, locked, listening, sock>>

\* Broken: nobody keeps the file that os.Create has opened.
CreateLockFileDropsFile(p) ==
  /\ pc[p] = "create"
  /\ \E i \in (IF lockPath # NoFile THEN {lockPath} ELSE Unused) : lockPath' = i
  /\ Goto(p, "lock")
  /\ UNCHANGED <<mode, signaled, fd, locked, listening, sock>>

\* Broken: a new file takes the place of the one that is there.
CreateLockFileReplaces(p) ==
  /\ pc[p] = "create"
  /\ \E i \in Unused :
       /\ lockPath' = i
       /\ fd' = [fd EXCEPT ![p] = i]
  /\ Goto(p, "lock")
  /\ UNCHANGED <<mode, signaled, locked, listening, sock>>

\* Broken: the process waits until no lock file is there.
CreateLockFileExclusive(p) ==
  /\ pc[p] = "create" /\ lockPath = NoFile
  /\ \E i \in Unused :
       /\ lockPath' = i
       /\ fd' = [fd EXCEPT ![p] = i]
  /\ Goto(p, "lock")
  /\ UNCHANGED <<mode, signaled, locked, listening, sock>>

\* os.Create opens the lock file that is there, or makes one.
CreateLockFile(p) ==
  /\ pc[p] = "create"
  /\ \E i \in (IF lockPath # NoFile THEN {lockPath} ELSE Unused) :
       /\ lockPath' = i
       /\ fd' = [fd EXCEPT ![p] = i]
  /\ Goto(p, "lock")
  /\ UNCHANGED <<mode, signaled, locked, listening, sock>>

\* Broken: a lock that somebody holds does not stop this process.
SetLockIgnoresHolder(p) ==
  /\ pc[p] = "lock"
  /\ locked' = [locked EXCEPT ![fd[p]] = p] /\ Goto(p, "stat")
  /\ UNCHANGED <<mode, signaled, fd, lockPath, listening, sock>>

\* Broken: a process that is refused the lock removes the socket on its way out.
SetLockRefusedUnlinks(p) ==
  /\ pc[p] = "lock"
  /\ \/ /\ locked[fd[p]] = Nobody
        /\ locked' = [locked EXCEPT ![fd[p]] = p]
        /\ Goto(p, "stat")
        /\ UNCHANGED sock
     \/ /\ locked[fd[p]] # Nobody
        /\ Goto(p, "exit")
        /\ sock' = "none"
        /\ UNCHANGED locked
  /\ UNCHANGED <<mode, signaled, fd, lockPath, listening>>

\* F_SETLK does not wait.
SetLock(p) ==
  /\ pc[p] = "lock"
  /\ \/ /\ locked[fd[p]] = Nobody
        /\ locked' = [locked EXCEPT ![fd[p]] = p]
        /\ Goto(p, "stat")
     \/ /\ locked[fd[p]] # Nobody
        /\ Goto(p, "exit")
        /\ UNCHANGED locked
  /\ UNCHANGED <<mode, signaled, fd, lockPath, listening, sock>>

\* Broken: leftovers stay where they are.
StatSocketKeeps(p) ==
  /\ pc[p] = "stat"
  /\ Goto(p, "listen")
  /\ UNCHANGED <<mode, signaled, fd, lockPath, locked, listening, sock>>

StatSocket(p) ==
  /\ pc[p] = "stat"
  /\ Goto(p, IF sock = "none" THEN "listen" ELSE "remove")
  /\ UNCHANGED <<mode, signaled, fd, lockPath, locked, listening, sock>>

\* "removing socket, as we hold the lock"; a socket that has gone is an error.
RemoveLeftovers(p) ==
  /\ pc[p] = "remove"
  /\ Goto(p, IF sock = "none" THEN "exit" ELSE "listen")
  /\ sock' = "none"
  /\ UNCHANGED <<mode, signaled, fd, lockPath, locked, listening>>

\* net.Listen: the address must be free.
Listen(p) ==
  /\ pc[p] = "listen"
  /\ \/ /\ sock = "none"
        /\ sock' = p
        /\ listening' = listening \cup {p}
        /\ Goto(p, "chown")
     \/ /\ sock # "none"
        /\ Goto(p, "exit")
        /\ UNCHANGED <<sock, listening>>
  /\ UNCHANGED <<mode, signaled, fd, lockPath, locked>>

-----------------------------------------------------------------------------
(* The rest of Bind, with the deferred UnixListenerWithLock.Close.         *)

Chown(p) ==
  /\ pc[p] = "chown"
  /\ \/ sock # "none" /\ Goto(p, "serve")
     \/ (sock = "none" \/ "fail" \in mode.ends) /\ Goto(p, "unlink")
  /\ UNCHANGED <<mode, signaled, fd, lockPath, locked, listening, sock>>

ServeFails(p) ==
  /\ pc[p] = "serve" /\ "fail" \in mode.ends
  /\ Goto(p, "unlink")
  /\ UNCHANGED <<mode, signaled, fd, lockPath, locked, listening, sock>>

\* Listener.Close unlinks the socket's name, whatever it stands for.
CloseListener(p) ==
  /\ pc[p] = "unlink"
  /\ sock' = "none"
  /\ listening' = listening \ {p}
  /\ Goto(p, "rmlock")
  /\ UNCHANGED <<mode, signaled, fd, lockPath, locked>>

\* os.Remove(f.file.Name()), before the lock is given back.
RemoveLockFile(p) ==
  /\ pc[p] = "rmlock"
  /\ lockPath' = NoFile
  /\ Goto(p, "release")
  /\ UNCHANGED <<mode, signaled, fd, locked, listening, sock>>

Released(p) == [i \in Inodes |-> IF locked[i] = p THEN Nobody ELSE locked[i]]

\* f.file.Close()
CloseLockFile(p) ==
  /\ pc[p] = "release"
  /\ locked' = Released(p)
  /\ fd' = [fd EXCEPT ![p] = NoFile]
  /\ Goto(p, "exit")
  /\ UNCHANGED <<mode, signaled, lockPath, listening, sock>>

-----------------------------------------------------------------------------
(* The end of a process: the system closes what it has open.               *)

Die(p) ==
  /\ Goto(p, "dead")
  /\ locked' = Released(p)
  /\ fd' = [fd EXCEPT ![p] = NoFile]
  /\ listening' = listening \ {p}
  /\ sock' = IF sock = p THEN "stale" ELSE sock
  /\ signaled' = signaled \ {p}
  /\ UNCHANGED <<mode, lockPath>>

\* The failed Bind ends ListenAndServe, and main exits.
Exit(p) == pc[p] = "exit" /\ Die(p)

Kill(p) == pc[p] # "dead" /\ "kill" \in mode.ends /\ Die(p)

\* registerCleanupAtExit: the handler removes the socket, lock or no lock, ...
HandleSignal(p) ==
  /\ pc[p] # "dead" /\ p \notin signaled /\ "signal" \in mode.ends
  /\ sock' = "none"
  /\ signaled' = signaled \cup {p}
  /\ UNCHANGED <<mode, pc, fd, lockPath, locked, listening>>

\* ... and exits; the goroutines of Bind run on until then.
SignalExit(p) == p \in signaled /\ Die(p)

-----------------------------------------------------------------------------

Run(p) ==
  \/ CreateLockFile(p) \/ SetLock(p) \/ StatSocket(p) \/ RemoveLeftovers(p) \/ Listen(p)
  \/ Chown(p) \/ CloseListener(p) \/ RemoveLockFile(p) \/ CloseLockFile(p) \/ Exit(p)
  \/ SignalExit(p)

Next == \E p \in Servers : Start(p) \/ Run(p) \/ ServeFails(p) \/ Kill(p) \/ HandleSignal(p)

Spec == Init /\ [][Next]_vars

\* A process that can take a step of its own takes it; nothing makes anybody
\* start, fail, or signal one.
FairSpec == Spec /\ \A p \in Servers : WF_vars(Run(p))

-----------------------------------------------------------------------------

Abstract == INSTANCE OneServer
              WITH holding <- {p \in Servers : pc[p] \in Holding}, socket <- sock

\* Whatever the lock file goes through, one server at a time has the address: a
\* process gets it only when nobody has it, and no other one touches the socket
\* meanwhile or puts its own in the place of one that is there.
OneServerAtATime == Abstract!Spec

\* Every variable has a value of its type; past os.Create a process has a lock
\* file open until it closes it.
TypeOK ==
  /\ mode \in Mode
  /\ pc \in [Servers -> Steps]
  /\ signaled \subseteq Servers
  /\ fd \in [Servers -> Inodes \cup {NoFile}]
  /\ \A p \in Servers : pc[p] \in Holding \cup {"lock"} => fd[p] # NoFile
  /\ lockPath \in Inodes \cup {NoFile}
  /\ locked \in [Inodes -> Servers \cup {Nobody}]
  /\ listening \subseteq Servers
  /\ sock \in Servers \cup {"none", "stale"}

\* At most one process is past the lock: no other one looks at the socket,
\* removes it or listens meanwhile.
OneHolder == Cardinality({p \in Servers : pc[p] \in Holding}) <= 1

\* A server that listens can be reached at its address until it closes the
\* listener itself or handles a signal: nobody takes its socket away.
ServerReachable ==
  \A p \in listening : pc[p] \in {"chown", "serve"} /\ p \notin signaled => sock = p

Alone(p) == \A q \in Servers \ {p} : pc[q] = "dead"

\* A process that is started and stays alone serves, or dies, whatever lock
\* file and socket the earlier ones left behind: it waits for nobody.
LeftoversDoNotBlock ==
  \A p \in Servers :
    (pc[p] = "create" /\ Alone(p)) ~> (pc[p] \in {"serve", "dead"} \/ ~Alone(p))

\* Nor do leftovers make its start fail.
StartSucceedsAlone ==
  [][\A p \in Servers :
       Alone(p) /\ p \notin signaled /\ pc[p] \in {"lock", "remove", "listen"} => pc'[p] # "exit"]_vars

=============================================================================
