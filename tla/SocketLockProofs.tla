--------------------------- MODULE SocketLockProofs ---------------------------
(* Any number of processes that start on the same socket: types, exclusion,  *)
(* and what it gives, as long as no process runs Close beside another one.   *)
EXTENDS SocketLock, FiniteSetTheorems, TLAPS

-----------------------------------------------------------------------------
(* Types.                                                                   *)

LEMMA TypeInit == Init => TypeOK
  BY SocketLockAssumption DEF Init, TypeOK, Steps, Holding

LEMMA DieType ==
  ASSUME NEW p \in Servers, TypeOK, Die(p)
  PROVE  TypeOK'
  BY DEF Die, TypeOK, Goto, Released, Steps, Holding

LEMMA TypeNext == TypeOK /\ [Next]_vars => TypeOK'
<1> SUFFICES ASSUME TypeOK, [Next]_vars PROVE TypeOK'
  OBVIOUS
<1> USE DEF TypeOK, Goto, Steps, Holding
<1>1. ASSUME NEW p \in Servers, Start(p) PROVE TypeOK'
  BY <1>1 DEF Start
<1>2. ASSUME NEW p \in Servers, CreateLockFile(p) PROVE TypeOK'
  <2>1. PICK i \in Inodes : lockPath' = i /\ fd' = [fd EXCEPT ![p] = i]
    BY <1>2 DEF CreateLockFile, Unused
  <2>2. i # NoFile
    BY SocketLockAssumption
  <2> QED BY <1>2, <2>1, <2>2 DEF CreateLockFile
<1>3. ASSUME NEW p \in Servers, SetLock(p) PROVE TypeOK'
  <2>1. fd[p] \in Inodes
    BY <1>3 DEF SetLock
  <2> QED BY <1>3, <2>1 DEF SetLock
<1>4. ASSUME NEW p \in Servers, StatSocket(p) PROVE TypeOK'
  BY <1>4 DEF StatSocket
<1>5. ASSUME NEW p \in Servers, RemoveLeftovers(p) PROVE TypeOK'
  BY <1>5 DEF RemoveLeftovers
<1>6. ASSUME NEW p \in Servers, Listen(p) PROVE TypeOK'
  BY <1>6 DEF Listen
<1>7. ASSUME NEW p \in Servers, Chown(p) PROVE TypeOK'
  BY <1>7 DEF Chown
<1>8. ASSUME NEW p \in Servers, ServeFails(p) PROVE TypeOK'
  BY <1>8 DEF ServeFails
<1>9. ASSUME NEW p \in Servers, CloseListener(p) PROVE TypeOK'
  BY <1>9 DEF CloseListener
<1>10. ASSUME NEW p \in Servers, RemoveLockFile(p) PROVE TypeOK'
  BY <1>10 DEF RemoveLockFile
<1>11. ASSUME NEW p \in Servers, CloseLockFile(p) PROVE TypeOK'
  BY <1>11 DEF CloseLockFile, Released
<1>12. ASSUME NEW p \in Servers, HandleSignal(p) PROVE TypeOK'
  BY <1>12 DEF HandleSignal
<1>13. ASSUME NEW p \in Servers, Exit(p) \/ Kill(p) \/ SignalExit(p) PROVE TypeOK'
  BY <1>13, DieType DEF Exit, Kill, SignalExit
<1>14. CASE UNCHANGED vars
  BY <1>14 DEF vars
<1> QED
  BY <1>1, <1>2, <1>3, <1>4, <1>5, <1>6, <1>7, <1>8, <1>9, <1>10, <1>11, <1>12, <1>13, <1>14
  DEF Next, Run

\* Every variable of SocketLock keeps its type, and a process has a lock file
\* open from os.Create to the end of Close.
THEOREM SocketTypes == Spec => []TypeOK
  BY TypeInit, TypeNext, PTL DEF Spec

-----------------------------------------------------------------------------
(* Exclusion.  Removing the lock file in Close would break it when another    *)
(* process has the file open: no Close beside another process.                *)

Orderly(m) == ~m.overlap \/ m.ends \subseteq {"kill"}

\* Overlapping processes all have the file open that the name stands for; the
\* others come one after the other.
Apart ==
  /\ Orderly(mode)
  /\ mode.overlap =>
       /\ signaled = {}
       /\ \A p \in Servers : pc[p] \notin {"unlink", "rmlock", "release"}
       /\ \A p \in Servers : fd[p] # NoFile => fd[p] = lockPath
  /\ ~mode.overlap => \A p, q \in Servers : pc[p] # "dead" /\ pc[q] # "dead" => p = q

\* Who is past the lock holds it, and nobody holds a lock who has not come so far.
Locks ==
  /\ \A p \in Servers : pc[p] \in Holding => locked[fd[p]] = p
  /\ \A i \in Inodes : locked[i] # Nobody => pc[locked[i]] \in Holding \cup {"exit"}

Listeners ==
  \A p \in Servers :
    /\ pc[p] \in {"chown", "serve"} => p \in listening
    /\ p \in listening => pc[p] \in {"chown", "serve", "unlink"}

\* What a process has found out about the socket, or done to it, stays true.
Sockets ==
  \A p \in Servers \ signaled :
    /\ pc[p] = "remove" => sock # "none"
    /\ pc[p] = "listen" => sock = "none"
    /\ pc[p] \in {"chown", "serve"} => sock = p

IInv == TypeOK /\ Apart /\ Locks /\ Listeners /\ Sockets

Exclusive == \A p, q \in Servers : pc[p] \in Holding /\ pc[q] \in Holding => p = q

LEMMA OneAtATime == TypeOK /\ Apart /\ Locks => Exclusive
<1> SUFFICES ASSUME TypeOK, Apart, Locks, NEW p \in Servers, NEW q \in Servers,
                    pc[p] \in Holding, pc[q] \in Holding
             PROVE  p = q
  BY DEF Exclusive
<1>1. CASE mode.overlap
  <2>1. fd[p] # NoFile /\ fd[q] # NoFile
    BY DEF TypeOK
  <2>2. fd[p] = fd[q]
    BY <1>1, <2>1 DEF Apart
  <2>3. locked[fd[p]] = p /\ locked[fd[q]] = q
    BY DEF Locks
  <2> QED BY <2>2, <2>3
<1>2. CASE ~mode.overlap
  BY <1>2 DEF Apart, Holding
<1> QED BY <1>1, <1>2

LEMMA InvInit ==
  ASSUME \A m \in Modes : Orderly(m)
  PROVE  Init => IInv
<1> SUFFICES ASSUME Init PROVE IInv
  OBVIOUS
<1>1. TypeOK
  BY TypeInit
<1>2. Apart
  BY DEF Init, Apart
<1>3. Locks /\ Listeners /\ Sockets
  BY DEF Init, Locks, Listeners, Sockets, Holding
<1> QED BY <1>1, <1>2, <1>3 DEF IInv

LEMMA ApartNext == IInv /\ [Next]_vars => Apart'
<1> SUFFICES ASSUME TypeOK, Apart, Locks, Listeners, Sockets, [Next]_vars PROVE Apart'
  BY DEF IInv
<1> USE SocketLockAssumption DEF TypeOK, Apart, Orderly, Goto
<1>1. ASSUME NEW p \in Servers, Start(p) PROVE Apart'
  BY <1>1 DEF Start
<1>2. ASSUME NEW p \in Servers, CreateLockFile(p) PROVE Apart'
  <2>1. PICK i \in Inodes : (lockPath # NoFile => i = lockPath) /\ lockPath' = i
                            /\ fd' = [fd EXCEPT ![p] = i]
    BY <1>2 DEF CreateLockFile, Unused
  <2> QED BY <1>2, <2>1 DEF CreateLockFile
<1>3. ASSUME NEW p \in Servers, SetLock(p) PROVE Apart'
  BY <1>3 DEF SetLock
<1>4. ASSUME NEW p \in Servers, StatSocket(p) \/ RemoveLeftovers(p) \/ Listen(p) PROVE Apart'
  BY <1>4 DEF StatSocket, RemoveLeftovers, Listen
<1>5. ASSUME NEW p \in Servers, Chown(p) PROVE Apart'
  <2>1. mode.overlap => sock # "none" /\ "fail" \notin mode.ends
    BY <1>5 DEF Chown, Sockets
  <2> QED BY <1>5, <2>1 DEF Chown
<1>6. ASSUME NEW p \in Servers, ServeFails(p) PROVE Apart'
  BY <1>6 DEF ServeFails
<1>7. ASSUME NEW p \in Servers, CloseListener(p) \/ RemoveLockFile(p) \/ CloseLockFile(p)
      PROVE  Apart'
  BY <1>7 DEF CloseListener, RemoveLockFile, CloseLockFile
<1>8. ASSUME NEW p \in Servers, HandleSignal(p) PROVE Apart'
  BY <1>8 DEF HandleSignal
<1>9. ASSUME NEW p \in Servers, Exit(p) \/ Kill(p) \/ SignalExit(p) PROVE Apart'
  BY <1>9 DEF Exit, Kill, SignalExit, Die
<1>10. CASE UNCHANGED vars
  BY <1>10 DEF vars
<1> QED
  BY <1>1, <1>2, <1>3, <1>4, <1>5, <1>6, <1>7, <1>8, <1>9, <1>10 DEF Next, Run

LEMMA LocksNext == IInv /\ [Next]_vars => Locks'
<1> SUFFICES ASSUME TypeOK, Apart, Locks, Listeners, Sockets, [Next]_vars PROVE Locks'
  BY DEF IInv
<1> USE SocketLockAssumption DEF TypeOK, Locks, Holding, Goto
<1>1. ASSUME NEW p \in Servers, Start(p) PROVE Locks'
  BY <1>1 DEF Start
<1>2. ASSUME NEW p \in Servers, CreateLockFile(p) PROVE Locks'
  BY <1>2 DEF CreateLockFile
<1>3. ASSUME NEW p \in Servers, SetLock(p) PROVE Locks'
  <2>1. fd[p] \in Inodes
    BY <1>3 DEF SetLock
  <2> QED BY <1>3, <2>1 DEF SetLock
<1>4. ASSUME NEW p \in Servers, StatSocket(p) \/ RemoveLeftovers(p) \/ Listen(p) PROVE Locks'
  BY <1>4 DEF StatSocket, RemoveLeftovers, Listen
<1>5. ASSUME NEW p \in Servers, Chown(p) \/ ServeFails(p) PROVE Locks'
  BY <1>5 DEF Chown, ServeFails
<1>6. ASSUME NEW p \in Servers, CloseListener(p) \/ RemoveLockFile(p) PROVE Locks'
  BY <1>6 DEF CloseListener, RemoveLockFile
<1>7. ASSUME NEW p \in Servers, CloseLockFile(p) PROVE Locks'
  BY <1>7 DEF CloseLockFile, Released
<1>8. ASSUME NEW p \in Servers, HandleSignal(p) PROVE Locks'
  BY <1>8 DEF HandleSignal
<1>9. ASSUME NEW p \in Servers, Exit(p) \/ Kill(p) \/ SignalExit(p) PROVE Locks'
  BY <1>9 DEF Exit, Kill, SignalExit, Die, Released
<1>10. CASE UNCHANGED vars
  BY <1>10 DEF vars
<1> QED
  BY <1>1, <1>2, <1>3, <1>4, <1>5, <1>6, <1>7, <1>8, <1>9, <1>10 DEF Next, Run

LEMMA ListenersNext == IInv /\ [Next]_vars => Listeners'
<1> SUFFICES ASSUME TypeOK, Apart, Locks, Listeners, Sockets, [Next]_vars PROVE Listeners'
  BY DEF IInv
<1> USE DEF TypeOK, Listeners, Goto
<1>1. ASSUME NEW p \in Servers, Start(p) \/ CreateLockFile(p) \/ SetLock(p) PROVE Listeners'
  BY <1>1 DEF Start, CreateLockFile, SetLock
<1>2. ASSUME NEW p \in Servers, StatSocket(p) \/ RemoveLeftovers(p) \/ Listen(p)
      PROVE  Listeners'
  BY <1>2 DEF StatSocket, RemoveLeftovers, Listen
<1>3. ASSUME NEW p \in Servers, Chown(p) \/ ServeFails(p) PROVE Listeners'
  BY <1>3 DEF Chown, ServeFails
<1>4. ASSUME NEW p \in Servers, CloseListener(p) \/ RemoveLockFile(p) \/ CloseLockFile(p)
      PROVE  Listeners'
  BY <1>4 DEF CloseListener, RemoveLockFile, CloseLockFile
<1>5. ASSUME NEW p \in Servers, HandleSignal(p) PROVE Listeners'
  BY <1>5 DEF HandleSignal
<1>6. ASSUME NEW p \in Servers, Exit(p) \/ Kill(p) \/ SignalExit(p) PROVE Listeners'
  BY <1>6 DEF Exit, Kill, SignalExit, Die
<1>7. CASE UNCHANGED vars
  BY <1>7 DEF vars
<1> QED
  BY <1>1, <1>2, <1>3, <1>4, <1>5, <1>6, <1>7 DEF Next, Run

LEMMA SocketsNext == IInv /\ [Next]_vars => Sockets'
<1> SUFFICES ASSUME TypeOK, Apart, Locks, Listeners, Sockets, Exclusive, [Next]_vars
             PROVE  Sockets'
  BY OneAtATime DEF IInv
<1> USE SocketLockAssumption DEF TypeOK, Exclusive, Sockets, Holding, Goto
<1>1. ASSUME NEW p \in Servers, Start(p) PROVE Sockets'
  BY <1>1 DEF Start
<1>2. ASSUME NEW p \in Servers, CreateLockFile(p) \/ SetLock(p) PROVE Sockets'
  BY <1>2 DEF CreateLockFile, SetLock
<1>3. ASSUME NEW p \in Servers, StatSocket(p) PROVE Sockets'
  BY <1>3 DEF StatSocket
<1>4. ASSUME NEW p \in Servers, RemoveLeftovers(p) PROVE Sockets'
  BY <1>4 DEF RemoveLeftovers
<1>5. ASSUME NEW p \in Servers, Listen(p) PROVE Sockets'
  BY <1>5 DEF Listen
<1>6. ASSUME NEW p \in Servers, Chown(p) \/ ServeFails(p) PROVE Sockets'
  BY <1>6 DEF Chown, ServeFails
<1>7. ASSUME NEW p \in Servers, CloseListener(p) PROVE Sockets'
  BY <1>7 DEF CloseListener
<1>8. ASSUME NEW p \in Servers, RemoveLockFile(p) \/ CloseLockFile(p) PROVE Sockets'
  BY <1>8 DEF RemoveLockFile, CloseLockFile
<1>9. ASSUME NEW p \in Servers, HandleSignal(p) PROVE Sockets'
  <2>1. ~mode.overlap
    BY <1>9 DEF HandleSignal, Apart, Orderly
  <2>2. \A q \in Servers : q # p => pc[q] = "dead"
    BY <1>9, <2>1 DEF HandleSignal, Apart
  <2> QED BY <1>9, <2>2 DEF HandleSignal
<1>10. ASSUME NEW p \in Servers, Die(p) PROVE Sockets'
  BY <1>10 DEF Die
<1>11. CASE UNCHANGED vars
  BY <1>11 DEF vars
<1> QED
  BY <1>1, <1>2, <1>3, <1>4, <1>5, <1>6, <1>7, <1>8, <1>9, <1>10, <1>11
  DEF Next, Run, Exit, Kill, SignalExit

LEMMA InvNext == IInv /\ [Next]_vars => IInv'
  BY TypeNext, ApartNext, LocksNext, ListenersNext, SocketsNext DEF IInv

\* At most one process is past the lock, however many are started, and killed
\* at whatever point.
THEOREM Exclusion ==
  ASSUME \A m \in Modes : Orderly(m)
  PROVE  Spec => []OneHolder
<1>1. ASSUME Exclusive PROVE OneHolder
  <2> DEFINE S == {p \in Servers : pc[p] \in Holding}
  <2>1. CASE S = {}
    BY <2>1, FS_EmptySet DEF OneHolder
  <2>2. CASE S # {}
    <3>1. PICK p : p \in S
      BY <2>2
    <3>2. S = {p}
      BY <1>1, <3>1 DEF Exclusive
    <3> QED BY <3>2, FS_Singleton DEF OneHolder
  <2> QED BY <2>1, <2>2
<1>2. IInv => OneHolder
  BY <1>1, OneAtATime DEF IInv
<1> QED
  BY <1>2, InvInit, InvNext, PTL DEF Spec

\* A server that listens is reached at its address until it closes its
\* listener or handles a signal.
THEOREM Reachability ==
  ASSUME \A m \in Modes : Orderly(m)
  PROVE  Spec => []ServerReachable
<1>1. IInv => ServerReachable
  BY DEF IInv, ServerReachable, Sockets, TypeOK
<1> QED
  BY <1>1, InvInit, InvNext, PTL DEF Spec

\* The start of a process that is alone does not fail, whatever it finds.
THEOREM LeftoversDoNoHarm ==
  ASSUME \A m \in Modes : Orderly(m)
  PROVE  Spec => StartSucceedsAlone
<1> DEFINE Starts ==
      \A p \in Servers :
        Alone(p) /\ p \notin signaled /\ pc[p] \in {"lock", "remove", "listen"} => pc'[p] # "exit"
<1>1. ASSUME IInv, [Next]_vars PROVE [Starts]_vars
  <2> SUFFICES ASSUME Next, NEW p \in Servers, Alone(p), p \notin signaled,
                      pc[p] \in {"lock", "remove", "listen"}, pc'[p] = "exit"
               PROVE  FALSE
    BY <1>1
  <2> USE DEF TypeOK, Goto
  <2>1. TypeOK /\ Locks /\ Sockets
    BY <1>1 DEF IInv
  <2>2. SetLock(p) \/ RemoveLeftovers(p) \/ Listen(p)
    <3>1. PICK q \in Servers : Start(q) \/ Run(q) \/ ServeFails(q) \/ Kill(q) \/ HandleSignal(q)
      BY DEF Next
    <3>2. CASE q = p
      BY <3>1, <3>2, <2>1
      DEF Run, Start, CreateLockFile, StatSocket, Chown, ServeFails, CloseListener,
          RemoveLockFile, CloseLockFile, Exit, SignalExit, Kill, HandleSignal, Die
    <3>3. CASE q # p
      BY <3>1, <3>3, <2>1
      DEF Run, Start, CreateLockFile, SetLock, StatSocket, RemoveLeftovers, Listen, Chown,
          ServeFails, CloseListener, RemoveLockFile, CloseLockFile, Exit, SignalExit, Kill,
          HandleSignal, Die
    <3> QED BY <3>2, <3>3
  <2>3. CASE SetLock(p)
    <3>1. pc[p] = "lock" /\ fd[p] \in Inodes /\ locked[fd[p]] # Nobody
      BY <2>1, <2>3 DEF SetLock
    <3>2. pc[locked[fd[p]]] \in Holding \cup {"exit"} /\ locked[fd[p]] \in Servers
      BY <2>1, <3>1 DEF Locks
    <3>3. pc[locked[fd[p]]] \notin {"lock", "dead"}
      BY <3>2 DEF Holding
    <3> QED BY <3>1, <3>2, <3>3 DEF Alone
  <2>4. CASE RemoveLeftovers(p)
    BY <2>1, <2>4 DEF RemoveLeftovers, Sockets
  <2>5. CASE Listen(p)
    BY <2>1, <2>5 DEF Listen, Sockets
  <2> QED BY <2>2, <2>3, <2>4, <2>5
<1> QED
  BY <1>1, InvInit, InvNext, PTL DEF Spec, StartSucceedsAlone

-----------------------------------------------------------------------------
(* The refinement of OneServer.                                              *)

\* Whose socket it is has not closed its listener.
Owner == sock \in Servers => pc[sock] \in {"chown", "serve", "unlink"}

HeldBy == {p \in Servers : pc[p] \in Holding}

LEMMA OwnerInit == Init => Owner
  BY SocketLockAssumption DEF Init, Owner

LEMMA OwnerNext == TypeOK /\ Owner /\ [Next]_vars => Owner'
<1> SUFFICES ASSUME TypeOK, Owner, [Next]_vars PROVE Owner'
  OBVIOUS
<1> USE SocketLockAssumption DEF TypeOK, Owner, Goto
<1>1. ASSUME NEW p \in Servers, Start(p) \/ CreateLockFile(p) \/ SetLock(p) \/ StatSocket(p)
      PROVE  Owner'
  BY <1>1 DEF Start, CreateLockFile, SetLock, StatSocket
<1>2. ASSUME NEW p \in Servers, RemoveLeftovers(p) \/ Listen(p) PROVE Owner'
  BY <1>2 DEF RemoveLeftovers, Listen
<1>3. ASSUME NEW p \in Servers, Chown(p) \/ ServeFails(p) \/ CloseListener(p) PROVE Owner'
  BY <1>3 DEF Chown, ServeFails, CloseListener
<1>4. ASSUME NEW p \in Servers, RemoveLockFile(p) \/ CloseLockFile(p) \/ HandleSignal(p)
      PROVE  Owner'
  BY <1>4 DEF RemoveLockFile, CloseLockFile, HandleSignal
<1>5. ASSUME NEW p \in Servers, Die(p) PROVE Owner'
  BY <1>5 DEF Die
<1>6. CASE UNCHANGED vars
  BY <1>6 DEF vars
<1> QED
  BY <1>1, <1>2, <1>3, <1>4, <1>5, <1>6 DEF Next, Run, Exit, Kill, SignalExit

\* A process that ends gives the address back if it had it, and leaves the socket of
\* another one alone.
LEMMA DieReleases ==
  ASSUME TypeOK, Exclusive, Owner, NEW p \in Servers, Die(p)
  PROVE  Abstract!Release(p) \/ UNCHANGED <<HeldBy, sock>>
<1> USE DEF TypeOK, Goto, HeldBy
<1>1. CASE pc[p] \in Holding
  <2>1. HeldBy = {p}
    BY <1>1 DEF Exclusive
  <2>2. HeldBy' = {}
    BY <2>1 DEF Die, Holding
  <2> QED BY <2>1, <2>2 DEF Die, Abstract!Release
<1>2. CASE pc[p] \notin Holding
  <2>1. sock # p
    BY <1>2 DEF Owner, Holding
  <2> QED BY <1>2, <2>1 DEF Die, Holding
<1> QED BY <1>1, <1>2

LEMMA StepRefines ==
  ASSUME IInv, Exclusive', Owner, [Next]_vars
  PROVE  [Abstract!Next]_<<HeldBy, sock>>
<1>1. TypeOK /\ Exclusive /\ Exclusive' /\ Sockets /\ Apart
  BY OneAtATime DEF IInv
<1> USE <1>1 DEF TypeOK, Goto, HeldBy
<1> DEFINE Refined == [Abstract!Next]_<<HeldBy, sock>>
<1>2. ASSUME NEW p \in Servers, Start(p) \/ CreateLockFile(p) PROVE Refined
  BY <1>2 DEF Start, CreateLockFile, Holding
<1>3. ASSUME NEW p \in Servers, SetLock(p) PROVE Refined
  <2>1. CASE locked[fd[p]] = Nobody
    <3>1. HeldBy' = {p} /\ HeldBy = {} /\ UNCHANGED sock
      BY <1>3, <2>1 DEF SetLock, Exclusive, Holding
    <3> QED BY <3>1 DEF Abstract!Next, Abstract!Acquire
  <2>2. CASE locked[fd[p]] # Nobody
    BY <1>3, <2>2 DEF SetLock, Holding
  <2> QED BY <2>1, <2>2
<1>4. ASSUME NEW p \in Servers, StatSocket(p) \/ Chown(p) \/ ServeFails(p) \/ RemoveLockFile(p)
      PROVE  Refined
  BY <1>4 DEF StatSocket, Chown, ServeFails, RemoveLockFile, Holding
<1>5. ASSUME NEW p \in Servers, pc[p] \in Holding PROVE HeldBy = {p}
  BY <1>5 DEF Exclusive
<1>6. ASSUME NEW p \in Servers, RemoveLeftovers(p) \/ Listen(p) PROVE Refined
  <2>1. HeldBy = {p} /\ sock # p
    BY <1>5, <1>6 DEF RemoveLeftovers, Listen, Holding, Owner
  <2>2. CASE pc'[p] = "exit"
    <3>1. HeldBy' = {} /\ UNCHANGED sock
      BY <1>6, <2>1, <2>2, SocketLockAssumption DEF RemoveLeftovers, Listen, Holding
    <3> QED BY <2>1, <3>1 DEF Abstract!Next, Abstract!Release
  <2>3. CASE pc'[p] # "exit"
    <3>1. HeldBy' = {p}
      BY <1>6, <2>1, <2>3 DEF RemoveLeftovers, Listen, Holding
    <3>2. sock' = "none" \/ (sock = "none" /\ sock' = p)
      BY <1>6, <2>3 DEF RemoveLeftovers, Listen
    <3> QED BY <2>1, <3>1, <3>2 DEF Abstract!Next, Abstract!Unlink, Abstract!Serve
  <2> QED BY <2>2, <2>3
<1>7. ASSUME NEW p \in Servers, CloseListener(p) PROVE Refined
  <2>1. HeldBy = {p} /\ HeldBy' = {p} /\ sock' = "none"
    BY <1>5, <1>7 DEF CloseListener, Holding
  <2> QED BY <2>1 DEF Abstract!Next, Abstract!Unlink
<1>8. ASSUME NEW p \in Servers, CloseLockFile(p) PROVE Refined
  <2>1. HeldBy = {p} /\ HeldBy' = {} /\ UNCHANGED sock /\ sock # p
    BY <1>5, <1>8 DEF CloseLockFile, Holding, Owner
  <2> QED BY <2>1 DEF Abstract!Next, Abstract!Release
<1>9. ASSUME NEW p \in Servers, HandleSignal(p) PROVE Refined
  <2>1. ~mode.overlap
    BY <1>9 DEF HandleSignal, Apart, Orderly
  <2>2. HeldBy \subseteq {p} /\ UNCHANGED HeldBy /\ sock' = "none"
    BY <1>9, <2>1 DEF HandleSignal, Apart, Holding
  <2> QED BY <2>2 DEF Abstract!Next, Abstract!Unlink
<1>10. ASSUME NEW p \in Servers, Die(p) PROVE Refined
  BY <1>10, DieReleases DEF Abstract!Next
<1>11. CASE UNCHANGED vars
  BY <1>11 DEF vars
<1> QED
  BY <1>2, <1>3, <1>4, <1>6, <1>7, <1>8, <1>9, <1>10, <1>11
  DEF Next, Run, Exit, Kill, SignalExit

\* SocketLock implements OneServer, for any number of processes.
THEOREM SocketRefinement ==
  ASSUME \A m \in Modes : Orderly(m)
  PROVE  Spec => OneServerAtATime
<1>1. Init => Abstract!Init
  BY DEF Init, Abstract!Init, Holding
<1>2. TypeOK /\ Owner /\ [Next]_vars => Owner'
  BY OwnerNext
<1>3. IInv => TypeOK /\ Exclusive
  BY OneAtATime DEF IInv
<1>4. IInv /\ Exclusive' /\ Owner /\ [Next]_vars => [Abstract!Next]_<<HeldBy, sock>>
  BY StepRefines
<1> QED
  BY <1>1, <1>2, <1>3, <1>4, InvInit, InvNext, OwnerInit, PTL
  DEF Spec, OneServerAtATime, Abstract!Spec, HeldBy

=============================================================================
