------------------------------ MODULE MainProofs ------------------------------
(* The program for every configuration, any number of files, binds, addresses   *)
(* and permissions: first the binds (Startup), then the files that are loaded   *)
(* (ConfigLoad), then main, which is composed of both.                          *)
EXTENDS Main, SequenceLemmas

-----------------------------------------------------------------------------
(* Types.                                                                   *)

\* Nothing is bound before main knows what to bind.
Unbound == main = "config" => binds = <<>>

LEMMA StartTypeInit == StartInit => StartTypeOK /\ Unbound
<1> SUFFICES ASSUME StartInit PROVE StartTypeOK
  BY DEF StartInit, Unbound
<1>1. world \in World
  BY StartupAssumption DEF StartInit
<1>2. binds = <<>> /\ binds \in Seq(Bind) /\ DOMAIN binds = {}
  BY DEF StartInit
<1>3. at \in [DOMAIN binds -> Steps] /\ saved \in [DOMAIN binds -> SUBSET Bits]
  BY <1>2 DEF StartInit
<1>4. umask \in SUBSET Bits /\ names \subseteq Addresses
  BY <1>1 DEF StartInit, World
<1> QED
  BY <1>1, <1>2, <1>3, <1>4 DEF StartInit, StartTypeOK

LEMMA SpawnType ==
  ASSUME StartTypeOK, Unbound, NEW list, Spawn(list)
  PROVE  StartTypeOK'
<1>1. binds' = list /\ list \in Seq(Bind)
  BY DEF Spawn
<1>2. at' \in [DOMAIN binds' -> Steps] /\ saved' \in [DOMAIN binds' -> SUBSET Bits]
  BY <1>1 DEF Spawn, Steps
<1>3. DOMAIN binds = {}
  BY DEF Unbound, Spawn
<1>4. owner' \in [Addresses -> {0} \cup DOMAIN binds'] /\ open' \subseteq DOMAIN binds'
  BY <1>3 DEF Spawn, StartTypeOK
<1> QED
  BY <1>1, <1>2, <1>4 DEF StartTypeOK, Spawn, Gone

\* The binds of a list are counted from 1, and have an address and a mode.
LEMMA ListedBind ==
  ASSUME NEW list \in Seq(Bind), NEW b \in DOMAIN list
  PROVE  /\ b \in Nat /\ b # 0 /\ list[b] \in Bind
         /\ list[b].address \in Addresses /\ list[b].mode \subseteq Bits
<1>1. b \in Nat /\ b # 0
  <2>1. DOMAIN list = 1..Len(list) /\ Len(list) \in Nat
    OBVIOUS
  <2> QED BY <2>1
<1>2. list[b] \in Bind
  OBVIOUS
<1> QED
  BY <1>1, <1>2 DEF Bind

LEMMA BindType ==
  ASSUME StartTypeOK, NEW b \in DOMAIN binds
  PROVE  /\ b \in Nat /\ b # 0 /\ binds[b] \in Bind
         /\ binds[b].address \in Addresses /\ Address(b) \in Addresses
         /\ binds[b].mode \subseteq Bits
  BY ListedBind DEF StartTypeOK, Address

LEMMA ListenType ==
  ASSUME StartTypeOK, NEW b \in DOMAIN binds, Listen(b) \/ ServeFails(b)
  PROVE  StartTypeOK'
<1> USE DEF StartTypeOK, Step, Aside, Files, Masks
<1>1. Address(b) \in Addresses /\ binds[b].mode \subseteq Bits
  BY BindType
<1>2. CASE ListenTCP(b)
  BY <1>2 DEF ListenTCP, Steps
<1>3. CASE ServeTLS(b)
  BY <1>3 DEF ServeTLS, Steps
<1>4. CASE SetMask(b)
  BY <1>4 DEF SetMask, Steps
<1>5. CASE Lock(b)
  BY <1>1, <1>5 DEF Lock, Steps
<1>6. CASE StatSocket(b)
  BY <1>6 DEF StatSocket, Steps
<1>7. CASE RemoveLeftovers(b)
  BY <1>7 DEF RemoveLeftovers, Steps
<1>8. CASE ListenUnix(b)
  <2>1. at' \in [DOMAIN binds -> Steps] /\ open' \subseteq DOMAIN binds
    BY <1>8 DEF ListenUnix, Steps
  <2>2. names' \subseteq Addresses /\ owner' \in [Addresses -> {0} \cup DOMAIN binds]
    BY <1>1, <1>8 DEF ListenUnix
  <2>3. perm' \in [Addresses -> SUBSET Bits]
    <3>1. Bits \ umask \in SUBSET Bits
      OBVIOUS
    <3>2. perm' = [perm EXCEPT ![Address(b)] = Bits \ umask] \/ UNCHANGED perm
      BY <1>8 DEF ListenUnix
    <3> HIDE DEF Address
    <3> QED BY <3>1, <3>2
  <2> QED BY <1>8, <2>1, <2>2, <2>3 DEF ListenUnix
<1>9. CASE RestoreMask(b)
  BY <1>9 DEF RestoreMask, Steps
<1>10. CASE Chown(b)
  BY <1>10 DEF Chown, Steps
<1>11. CASE Close(b)
  BY <1>11 DEF Close, Steps
<1>12. CASE ServeFails(b)
  BY <1>12 DEF ServeFails, Steps
<1> QED
  BY <1>2, <1>3, <1>4, <1>5, <1>6, <1>7, <1>8, <1>9, <1>10, <1>11, <1>12 DEF Listen

LEMMA StartTypeNext == StartTypeOK /\ Unbound /\ [StartNext]_startVars => (StartTypeOK /\ Unbound)'
<1> SUFFICES ASSUME StartTypeOK, Unbound, [StartNext]_startVars PROVE (StartTypeOK /\ Unbound)'
  OBVIOUS
<1> USE DEF StartTypeOK, Unbound
<1>1. CASE Quit
  BY <1>1 DEF Quit, Gone
<1>2. ASSUME Spawn(binds') PROVE StartTypeOK' /\ Unbound'
  BY <1>2, SpawnType DEF Spawn
<1>3. ASSUME NEW b \in DOMAIN binds, Listen(b) \/ ServeFails(b) PROVE StartTypeOK' /\ Unbound'
  <2>1. main # "config" /\ UNCHANGED main
    BY <1>3 DEF Listen, ListenTCP, ServeTLS, SetMask, Lock, StatSocket, RemoveLeftovers,
                ListenUnix, RestoreMask, Chown, Close, ServeFails, Step, Running, Aside
  <2> QED BY <1>3, <2>1, ListenType
<1>4. CASE Receive
  <2>1. PICK b \in DOMAIN binds : at' = [at EXCEPT ![b] = "reported"]
    BY <1>4 DEF Receive
  <2> QED BY <1>4, <2>1 DEF Receive, Steps, Gone
<1>5. CASE ExitFailed
  BY <1>5 DEF ExitFailed, End, Gone
<1>6. CASE Signal
  BY <1>6 DEF Signal, Running
<1>7. CASE CleanUp
  BY <1>7 DEF CleanUp, Running
<1>8. CASE ExitSignaled
  BY <1>8 DEF ExitSignaled, End, Gone
<1>9. CASE UNCHANGED startVars
  BY <1>9 DEF startVars
<1> QED
  BY <1>1, <1>2, <1>3, <1>4, <1>5, <1>6, <1>7, <1>8, <1>9 DEF StartNext, Run, Finish, Handle

\* Every variable of the startup keeps its type, whatever the binds do.
THEOREM StartTypes == StartSpec => []StartTypeOK
  BY StartTypeInit, StartTypeNext, PTL DEF StartSpec

\* A bind of a running process has taken a step.
LEMMA ListenStep ==
  ASSUME NEW b, Listen(b) \/ ServeFails(b)
  PROVE  Running /\ Running' /\ UNCHANGED <<world, binds, main, sig>>
BY DEF Listen, ListenTCP, ServeTLS, SetMask, Lock, StatSocket, RemoveLeftovers, ListenUnix,
       RestoreMask, Chown, Close, ServeFails, Step, Running, Aside

Typed == StartTypeOK /\ Unbound

-----------------------------------------------------------------------------
(* Who is where: only Unix binds come to the steps that touch the mask, the   *)
(* lock or the socket, and only the others to TLS.                            *)

UnixSteps == Masked \cup {"chown", "close"}

Whereabouts ==
  \A b \in DOMAIN binds : (at[b] \in UnixSteps => Unix(b)) /\ (at[b] = "tls" => ~Unix(b))

LEMMA WhereNext == Typed /\ Whereabouts /\ [StartNext]_startVars => Whereabouts'
<1> SUFFICES ASSUME StartTypeOK, Unbound, Whereabouts, [StartNext]_startVars PROVE Whereabouts'
  BY DEF Typed
<1> USE DEF StartTypeOK, Whereabouts, UnixSteps, Masked, Unix
<1>1. CASE Quit \/ Signal
  BY <1>1 DEF Quit, Signal
<1>2. CASE Spawn(binds')
  BY <1>2 DEF Spawn
<1>3. ASSUME NEW b \in DOMAIN binds, Listen(b) \/ ServeFails(b) PROVE Whereabouts'
  <2> USE <1>3, ListenStep DEF Step
  <2>1. CASE ListenTCP(b) \/ ServeTLS(b) \/ ServeFails(b)
    BY <2>1 DEF ListenTCP, ServeTLS, ServeFails
  <2>2. CASE SetMask(b) \/ Lock(b) \/ StatSocket(b) \/ RemoveLeftovers(b)
    BY <2>2 DEF SetMask, Lock, StatSocket, RemoveLeftovers
  <2>3. CASE ListenUnix(b) \/ RestoreMask(b) \/ Chown(b) \/ Close(b)
    BY <2>3 DEF ListenUnix, RestoreMask, Chown, Close
  <2> QED BY <2>1, <2>2, <2>3 DEF Listen
<1>4. CASE Receive
  BY <1>4 DEF Receive
<1>5. CASE ExitFailed \/ ExitSignaled
  BY <1>5 DEF ExitFailed, ExitSignaled, End
<1>6. CASE CleanUp
  BY <1>6 DEF CleanUp
<1>7. CASE UNCHANGED startVars
  BY <1>7 DEF startVars
<1> QED
  BY <1>1, <1>2, <1>3, <1>4, <1>5, <1>6, <1>7 DEF StartNext, Run, Finish, Handle

-----------------------------------------------------------------------------
(* The mask of a process with one Unix bind.                                  *)

OneUnix == \A b, c \in DOMAIN binds : Unix(b) /\ Unix(c) => b = c

\* Between its two calls of myUmask the one bind has the mask it has set, and has kept
\* the one the process came with.
MaskInv ==
  OneUnix =>
    /\ \A b \in DOMAIN binds :
         at[b] \in Masked => umask = Bits \ binds[b].mode /\ saved[b] = world.umask
    /\ (\A b \in DOMAIN binds : at[b] \notin Masked) => umask = world.umask
    /\ SocketModeAsConfigured

LEMMA MaskInit == StartInit => Whereabouts /\ MaskInv
  BY DEF StartInit, Whereabouts, MaskInv, SocketModeAsConfigured

LEMMA MaskNext == Typed /\ Whereabouts /\ MaskInv /\ [StartNext]_startVars => MaskInv'
<1> SUFFICES ASSUME StartTypeOK, Unbound, Whereabouts, MaskInv, [StartNext]_startVars, OneUnix'
             PROVE  MaskInv'
  BY DEF Typed, MaskInv
<1> USE DEF MaskInv, SocketModeAsConfigured, OneUnix, Unix, Address
<1>1. CASE Quit \/ Signal
  BY <1>1 DEF Quit, Signal
<1>2. CASE Spawn(binds')
  <2>1. DOMAIN binds = {} /\ umask = world.umask
    BY <1>2 DEF Spawn, Unbound
  <2>2. \A a \in Addresses : owner[a] = 0
    BY <2>1 DEF StartTypeOK
  <2>3. \A b \in DOMAIN binds' : b # 0 /\ binds'[b].address \in Addresses
    BY <1>2, ListedBind DEF Spawn
  <2>4. \A b \in DOMAIN binds' : at'[b] = "start" /\ owner'[binds'[b].address] # b
    BY <1>2, <2>2, <2>3 DEF Spawn
  <2> QED BY <1>2, <2>1, <2>4 DEF Spawn, Masked
<1>3. ASSUME NEW b \in DOMAIN binds, Listen(b) \/ ServeFails(b) PROVE MaskInv'
  <2> USE <1>3, ListenStep DEF Step, StartTypeOK, Masked
  <2>1. OneUnix
    BY <1>3
  <2>2. CASE ListenTCP(b) \/ ServeTLS(b) \/ ServeFails(b)
    BY <2>1, <2>2 DEF ListenTCP, ServeTLS, ServeFails, Masks, Files
  <2>3. CASE SetMask(b)
    <3>1. \A c \in DOMAIN binds : at[c] \notin Masked
      BY <2>1, <2>3 DEF SetMask, Whereabouts, UnixSteps
    <3>2. umask = world.umask
      BY <2>1, <3>1
    <3>3. at'[b] \in Masked /\ umask' = Bits \ binds[b].mode /\ saved'[b] = world.umask
      BY <2>3, <3>2 DEF SetMask
    <3>4. \A c \in DOMAIN binds : at'[c] \in Masked => c = b
      BY <2>3, <3>1 DEF SetMask
    <3>5. UNCHANGED <<owner, perm>>
      BY <2>3 DEF SetMask, Files
    <3> QED BY <2>1, <3>3, <3>4, <3>5
  <2>4. CASE Lock(b) \/ StatSocket(b)
    BY <2>1, <2>4 DEF Lock, StatSocket, Masks, Files
  <2>5. CASE RemoveLeftovers(b)
    BY <2>1, <2>5, BindType DEF RemoveLeftovers, Masks
  <2>6. CASE ListenUnix(b)
    <3>1. Unix(b) /\ umask = Bits \ binds[b].mode /\ saved[b] = world.umask
      BY <2>1, <2>6 DEF ListenUnix, Whereabouts, UnixSteps
    <3>2. Bits \ umask = binds[b].mode
      BY <3>1, BindType
    <3>3. \A c \in DOMAIN binds :
            Unix(c) /\ owner'[Address(c)] = c => perm'[Address(c)] = binds[c].mode
      BY <2>1, <2>6, <3>1, <3>2, BindType DEF ListenUnix, Files
    <3>4. at' = [at EXCEPT ![b] = at'[b]] /\ at'[b] \in Masked /\ UNCHANGED <<umask, saved>>
      BY <2>6 DEF ListenUnix, Masks
    <3> QED BY <2>1, <3>1, <3>3, <3>4
  <2>7. CASE RestoreMask(b)
    <3>1. Unix(b) /\ saved[b] = world.umask
      BY <2>1, <2>7 DEF RestoreMask, Whereabouts, UnixSteps
    <3>2. \A c \in DOMAIN binds : at'[c] \notin Masked
      BY <2>1, <2>7, <3>1 DEF RestoreMask, Whereabouts, UnixSteps
    <3>3. umask' = world.umask /\ UNCHANGED <<owner, perm>>
      BY <2>7, <3>1 DEF RestoreMask, Files
    <3> QED BY <2>1, <3>2, <3>3
  <2>8. CASE Chown(b)
    BY <2>1, <2>8 DEF Chown, Masks, Files
  <2>9. CASE Close(b)
    <3>1. at[b] = "close" /\ at' = [at EXCEPT ![b] = "report"]
      BY <2>9 DEF Close
    <3>2. UNCHANGED <<umask, saved, perm>>
      BY <2>9 DEF Close, Masks
    <3>3. \A c \in DOMAIN binds : owner'[binds[c].address] = c => owner[binds[c].address] = c
      <4>1. CASE Named(b)
        BY <2>9, <4>1, BindType DEF Close
      <4>2. CASE ~Named(b)
        BY <2>9, <4>2 DEF Close
      <4> QED BY <4>1, <4>2
    <3> QED BY <2>1, <3>1, <3>2, <3>3
  <2> QED BY <2>2, <2>3, <2>4, <2>5, <2>6, <2>7, <2>8, <2>9 DEF Listen
<1>4. CASE Receive
  BY <1>4 DEF Receive, StartTypeOK, Masked
<1>5. CASE ExitFailed \/ ExitSignaled
  BY <1>5, BindType DEF ExitFailed, ExitSignaled, End
<1>6. CASE CleanUp
  BY <1>6, BindType DEF CleanUp, StartTypeOK
<1>7. CASE UNCHANGED startVars
  BY <1>7 DEF startVars
<1> QED
  BY <1>1, <1>2, <1>3, <1>4, <1>5, <1>6, <1>7 DEF StartNext, Run, Finish, Handle

\* With one Unix bind, among whatever others, the socket has its mode and the process
\* its umask again.
THEOREM MaskKept == StartSpec => []OneBindKeepsMask
<1>1. MaskInv => OneBindKeepsMask
  BY DEF MaskInv, OneBindKeepsMask, OneUnix
<1>2. StartInit => Typed /\ Whereabouts /\ MaskInv
  BY StartTypeInit, MaskInit DEF Typed
<1>3. Typed /\ Whereabouts /\ MaskInv /\ [StartNext]_startVars => (Typed /\ Whereabouts /\ MaskInv)'
  BY StartTypeNext, WhereNext, MaskNext DEF Typed
<1> QED
  BY <1>1, <1>2, <1>3, PTL DEF StartSpec

-----------------------------------------------------------------------------
(* The socket of one bind among others: its address is its own, and so is its  *)
(* lock, from the moment it has got it.                                       *)

\* The steps of a Unix bind that has passed its lock.
Locked == {"stat", "remove", "listen", "restore", "chown", "serve"}

Held ==
  Distinct /\ Running =>
    \A b \in DOMAIN binds : Unix(b) /\ Named(b) /\ at[b] \in Locked => Address(b) \in locks

SocketInv == Held /\ OwnSocket

LEMMA SocketInit == StartInit => SocketInv
  BY DEF StartInit, SocketInv, Held, OwnSocket, Running

LEMMA HeldNext == Typed /\ Whereabouts /\ Held /\ [StartNext]_startVars => Held'
<1> SUFFICES ASSUME StartTypeOK, Unbound, Whereabouts, Held, [StartNext]_startVars PROVE Held'
  BY DEF Typed
<1> USE DEF Held, Distinct, Unix, Named, Address, Locked
<1>1. CASE Quit
  BY <1>1 DEF Quit, Running
<1>2. CASE Spawn(binds')
  BY <1>2 DEF Spawn
<1>3. ASSUME NEW b \in DOMAIN binds, Listen(b) \/ ServeFails(b) PROVE Held'
  <2> USE <1>3, ListenStep DEF Step, StartTypeOK, UnixSteps, Masked
  <2>1. CASE ListenTCP(b) \/ ServeTLS(b) \/ ServeFails(b)
    BY <2>1 DEF ListenTCP, ServeTLS, ServeFails, Whereabouts
  <2>2. CASE SetMask(b) \/ StatSocket(b) \/ RemoveLeftovers(b)
    BY <2>2 DEF SetMask, StatSocket, RemoveLeftovers
  <2>3. CASE Lock(b)
    BY <2>3 DEF Lock
  <2>4. CASE ListenUnix(b) \/ RestoreMask(b) \/ Chown(b)
    BY <2>4 DEF ListenUnix, RestoreMask, Chown
  <2>5. CASE Close(b)
    <3>1. Unix(b) /\ at' = [at EXCEPT ![b] = "report"]
      BY <2>5 DEF Close, Whereabouts
    <3>2. locks \ {Address(b)} \subseteq locks'
      BY <2>5 DEF Close
    <3> QED BY <3>1, <3>2
  <2> QED BY <2>1, <2>2, <2>3, <2>4, <2>5 DEF Listen
<1>4. CASE Receive
  BY <1>4 DEF Receive, Running, StartTypeOK
<1>5. CASE ExitFailed \/ ExitSignaled
  BY <1>5 DEF ExitFailed, ExitSignaled, End, Running
<1>6. CASE Signal \/ CleanUp
  BY <1>6 DEF Signal, CleanUp
<1>7. CASE UNCHANGED startVars
  BY <1>7 DEF startVars, Running
<1> QED
  BY <1>1, <1>2, <1>3, <1>4, <1>5, <1>6, <1>7 DEF StartNext, Run, Finish, Handle

Own(b) == Address(b) \in names /\ owner[Address(b)] = b /\ Address(b) \in locks

\* A bind that takes a name away is a Unix bind, and the name it takes is its own.
LEMMA OthersKeep ==
  ASSUME StartTypeOK, Whereabouts, Distinct,
         NEW b \in DOMAIN binds, NEW c \in DOMAIN binds, c # b, Unix(b),
         Listen(c) \/ ServeFails(c), Own(b)
  PROVE  Own(b)' /\ at'[b] = at[b]
<1>1. at'[b] = at[b]
  BY DEF Listen, ListenTCP, ServeTLS, SetMask, Lock, StatSocket, RemoveLeftovers,
         ListenUnix, RestoreMask, Chown, Close, ServeFails, Step, StartTypeOK
<1>2. UNCHANGED binds /\ Address(b) \in Addresses
  BY ListenStep, BindType
<1>3. \A x \in Addresses : x # Address(b) => [owner EXCEPT ![x] = 0][Address(b)] = b
                                        /\ [owner EXCEPT ![x] = c][Address(b)] = b
  BY <1>2 DEF Own, StartTypeOK
<1>4. Address(c) \in Addresses
  BY BindType
<1>5. CASE RemoveLeftovers(c) \/ ListenUnix(c) \/ Close(c)
  <2>1. Address(c) # Address(b)
    BY <1>5 DEF RemoveLeftovers, ListenUnix, Close, Step, Whereabouts, UnixSteps, Masked, Distinct
  <2>2. Address(b)' = Address(b)
    BY <1>2 DEF Address
  <2>3. CASE RemoveLeftovers(c)
    BY <1>1, <1>3, <1>4, <2>1, <2>2, <2>3 DEF RemoveLeftovers, Own
  <2>4. CASE ListenUnix(c)
    <3>1. /\ names \subseteq names' /\ UNCHANGED locks
          /\ owner' = [owner EXCEPT ![Address(c)] = c] \/ UNCHANGED owner
      BY <2>4 DEF ListenUnix, Files
    <3>2. owner'[Address(b)] = b
      BY <1>3, <1>4, <2>1, <3>1 DEF Own
    <3> QED BY <1>1, <2>2, <3>1, <3>2 DEF Own
  <2>5. CASE Close(c)
    <3>1. /\ names \ {Address(c)} \subseteq names' /\ locks \ {Address(c)} \subseteq locks'
          /\ owner' = [owner EXCEPT ![Address(c)] = 0] \/ UNCHANGED owner
      BY <2>5 DEF Close
    <3>2. owner'[Address(b)] = b
      BY <1>3, <1>4, <2>1, <3>1 DEF Own
    <3> QED BY <1>1, <2>1, <2>2, <3>1, <3>2 DEF Own
  <2> QED BY <1>1, <1>5, <2>3, <2>4, <2>5
<1>6. CASE ~(RemoveLeftovers(c) \/ ListenUnix(c) \/ Close(c))
  <2>1. UNCHANGED <<names, owner>> /\ locks \subseteq locks'
    BY <1>6 DEF Listen, ListenTCP, ServeTLS, SetMask, Lock, StatSocket, RestoreMask, Chown,
                ServeFails, Files
  <2> QED BY <1>1, <1>2, <2>1 DEF Own, Address
<1> QED BY <1>5, <1>6

LEMMA OwnNext == Typed /\ Whereabouts /\ SocketInv /\ [StartNext]_startVars => OwnSocket'
<1> SUFFICES ASSUME StartTypeOK, Unbound, Whereabouts, Held, OwnSocket, [StartNext]_startVars,
                    Distinct', Running', (sig = 0)',
                    NEW b \in DOMAIN binds', Unix(b)', Named(b)', (at[b] \in Listening)'
             PROVE  Own(b)'
  BY DEF Typed, SocketInv, OwnSocket, Own
<1>1. CASE Quit
  BY <1>1 DEF Quit, Running
<1>2. CASE Spawn(binds')
  BY <1>2 DEF Spawn, Listening
<1>3. ASSUME NEW c \in DOMAIN binds, Listen(c) \/ ServeFails(c) PROVE Own(b)'
  <2>1. UNCHANGED <<binds, sig>> /\ Running /\ sig = 0 /\ b \in DOMAIN binds
    BY <1>3, ListenStep
  <2>2. Distinct /\ Unix(b) /\ Named(b) /\ Address(b) \in Addresses
    BY <2>1, BindType DEF Distinct, Unix, Named, Address
  <2>3. CASE c # b
    <3>1. at'[b] = at[b]
      BY <1>3, <2>1, <2>3 DEF Listen, ListenTCP, ServeTLS, SetMask, Lock, StatSocket,
         RemoveLeftovers, ListenUnix, RestoreMask, Chown, Close, ServeFails, Step, StartTypeOK
    <3>2. Own(b)
      BY <2>1, <2>2, <3>1 DEF OwnSocket, Own
    <3> QED BY <1>3, <2>1, <2>2, <2>3, <3>2, OthersKeep
  <2>4. CASE c = b
    <3>1. CASE ListenUnix(b)
      <4>1. Address(b) \in names' /\ owner'[Address(b)] = b
        BY <2>1, <2>2, <3>1 DEF ListenUnix, Step, Listening, StartTypeOK
      <4>2. Address(b) \in locks
        BY <2>1, <2>2, <3>1 DEF ListenUnix, Step, Held, Locked
      <4> QED BY <2>1, <3>1, <4>1, <4>2 DEF ListenUnix, Address, Own
    <3>2. CASE RestoreMask(b) \/ Chown(b)
      <4>1. at[b] \in Listening /\ UNCHANGED <<names, owner, locks>>
        BY <2>1, <3>2 DEF RestoreMask, Chown, Step, Listening, Files, StartTypeOK
      <4> QED BY <2>1, <2>2, <4>1 DEF OwnSocket, Address, Own
    <3>3. ~ListenTCP(b) /\ ~ServeTLS(b)
      BY <2>1, <2>2 DEF ListenTCP, ServeTLS, Step, Whereabouts
    <3>4. ~(SetMask(b) \/ Lock(b) \/ StatSocket(b) \/ RemoveLeftovers(b))
      BY <2>1, <2>2 DEF SetMask, Lock, StatSocket, RemoveLeftovers, Step, Listening, StartTypeOK
    <3>5. ~Close(b) /\ ~ServeFails(b)
      BY <2>1, <2>2 DEF Close, ServeFails, Step, Listening, StartTypeOK
    <3> QED BY <1>3, <2>4, <3>1, <3>2, <3>3, <3>4, <3>5 DEF Listen
  <2> QED BY <2>3, <2>4
<1>4. CASE Receive
  <2>1. UNCHANGED <<binds, sig, names, owner, locks>> /\ Running
    BY <1>4 DEF Receive, Running
  <2>2. b \in DOMAIN binds /\ Distinct /\ Unix(b) /\ Named(b)
    BY <2>1 DEF Distinct, Unix, Named, Address
  <2>3. at[b] \in Listening
    BY <1>4, <2>1 DEF Receive, Listening, StartTypeOK
  <2> QED BY <2>1, <2>2, <2>3 DEF OwnSocket, Own, Address
<1>5. CASE ExitFailed \/ ExitSignaled
  BY <1>5 DEF ExitFailed, ExitSignaled, End, Running
<1>6. CASE Signal \/ CleanUp
  <2>1. sig' # 0
    BY <1>6 DEF Signal, CleanUp, StartTypeOK
  <2> QED BY <2>1
<1>7. CASE UNCHANGED startVars
  BY <1>7 DEF startVars, Running, OwnSocket, Own, Distinct, Unix, Named, Address
<1> QED
  BY <1>1, <1>2, <1>3, <1>4, <1>5, <1>6, <1>7 DEF StartNext, Run, Finish, Handle

\* However many binds there are, and whatever becomes of the others: with distinct
\* addresses a Unix bind that listens has its socket and its lock.
THEOREM OwnSocketKept == StartSpec => []OwnSocket
<1>1. StartInit => Typed /\ Whereabouts /\ SocketInv
  BY StartTypeInit, MaskInit, SocketInit DEF Typed
<1>2. Typed /\ Whereabouts /\ SocketInv /\ [StartNext]_startVars
        => (Typed /\ Whereabouts /\ SocketInv)'
  BY StartTypeNext, WhereNext, HeldNext, OwnNext DEF Typed, SocketInv
<1>3. SocketInv => OwnSocket
  BY DEF SocketInv
<1> QED
  BY <1>1, <1>2, <1>3, PTL DEF StartSpec

-----------------------------------------------------------------------------
(* The files that are loaded: types, and that none gets lost.               *)

LEMMA DiskType ==
  ASSUME disk \in Disks, NEW path \in Paths
  PROVE  /\ disk[path].kind \in Kinds
         /\ disk[path].entries \in Seq(Paths)
         /\ Includes(path) \in Seq(SUBSET Option)
         /\ \A p \in DOMAIN Document(path) : IsLeaf(Document(path)[p])
         /\ \A p, q \in DOMAIN Document(path) : ~Clash(p, q)
<1>1. DOMAIN Empty = {}
  BY DEF Empty
<1> HIDE DEF Empty
<1> QED BY <1>1, LoadAssumption DEF Includes, Document

\* An include stands for files of the disk.
LEMMA FoundType ==
  ASSUME disk \in Disks, NEW option \in Option
  PROVE  Found(option) \in Seq(Paths)
<1> DEFINE entries == disk[option.path].entries
           Part(i) == IF IsConf(entries[i]) THEN <<entries[i]>> ELSE <<>>
           parts == [i \in DOMAIN entries |-> Part(i)]
<1>1. option.path \in Paths /\ entries \in Seq(Paths)
  BY LoadAssumption DEF Option
<1>2. Len(entries) \in Nat /\ DOMAIN entries = 1..Len(entries) /\ \A i \in DOMAIN entries : entries[i] \in Paths
  <2> HIDE DEF entries
  <2> QED BY <1>1, LenProperties, ElementOfSeq
<1>3. \A i \in DOMAIN entries : Part(i) \in Seq(Paths)
  <2> HIDE DEF entries
  <2> QED BY <1>2
<1>4. parts \in [1..Len(entries) -> Seq(Paths)]
  <2> HIDE DEF entries, Part
  <2> QED BY <1>2, <1>3
<1>5. parts \in Seq(Seq(Paths))
  <2> HIDE DEF parts, entries
  <2> QED BY <1>2, <1>4, FunctionIsSeq
<1>6. FlattenSeq(parts) \in Seq(Paths)
  <2> HIDE DEF parts
  <2> QED BY <1>5, FlattenType
<1>7. ConfFiles(entries) \in Seq(Paths)
  BY <1>6 DEF ConfFiles
<1>8. <<option.path>> \in Seq(Paths) /\ <<>> \in Seq(Paths)
  BY <1>1
<1> HIDE DEF entries, parts, Part
<1> QED BY <1>7, <1>8 DEF Found, entries

LEMMA MergeKeepsApart ==
  ASSUME NEW a, NEW b,
         \A p, q \in DOMAIN a : ~Clash(p, q), \A p, q \in DOMAIN b : ~Clash(p, q)
  PROVE  \A p, q \in DOMAIN Merge(a, b) : ~Clash(p, q)
<1>1. \A p, q : Clash(p, q) => Clash(q, p)
  BY DEF Clash
<1>2. DOMAIN Merge(a, b) = {q \in DOMAIN a : \A r \in DOMAIN b : ~Clash(q, r)} \cup DOMAIN b
  BY DEF Merge
<1> QED BY <1>1, <1>2

\* What a file that is loaded puts on the stack, and in which order.
Pushed(pick) == FlattenSeq([i \in DOMAIN pick |-> Found(pick[i])])

LEMMA PushedFiles ==
  ASSUME disk \in Disks, NEW path \in Paths, NEW pick \in Picks(Includes(path))
  PROVE  /\ Pushed(pick) \in Seq(Paths)
         /\ DOMAIN pick = DOMAIN Includes(path)
         /\ \A i \in DOMAIN pick : /\ pick[i] \in Includes(path)[i]
                                   /\ pick[i] \in Option
                                   /\ Range(Found(pick[i])) \subseteq Range(Pushed(pick))
<1> DEFINE include == Includes(path)
           n == Len(include)
           found == [i \in DOMAIN pick |-> Found(pick[i])]
<1>1. include \in Seq(SUBSET Option)
  BY DiskType
<1>2. n \in Nat /\ DOMAIN include = 1..n /\ \A i \in 1..n : include[i] \subseteq Option
  <2> HIDE DEF include
  <2> QED BY <1>1, LenProperties, ElementOfSeq
<1>3. DOMAIN pick = DOMAIN include /\ \A i \in DOMAIN include : pick[i] \in include[i]
  BY DEF Picks
<1> HIDE DEF include
<1>4. \A i \in DOMAIN pick : pick[i] \in Option
  BY <1>2, <1>3
<1>5. \A i \in DOMAIN pick : Found(pick[i]) \in Seq(Paths)
  BY <1>4, FoundType
<1>6. found \in [1..n -> Seq(Paths)]
  BY <1>2, <1>3, <1>5
<1>7. found \in Seq(Seq(Paths)) /\ DOMAIN found = 1..n
  <2> HIDE DEF found
  <2> QED BY <1>2, <1>6, FunctionIsSeq
<1>8. \A i \in DOMAIN pick : found[i] = Found(pick[i])
  OBVIOUS
<1>9. Pushed(pick) = FlattenSeq(found)
  BY DEF Pushed
<1> HIDE DEF found, n
<1>10. FlattenSeq(found) \in Seq(Paths)
  BY <1>7, FlattenType
<1>11. ASSUME NEW i \in DOMAIN pick PROVE Range(Found(pick[i])) \subseteq Range(Pushed(pick))
  <2>1. ASSUME NEW x \in Range(Found(pick[i])) PROVE x \in Range(FlattenSeq(found))
    <3>1. i \in DOMAIN found /\ x \in Range(found[i])
      BY <1>2, <1>3, <1>7, <1>8, <2>1
    <3> QED BY <1>7, <3>1, FlattenRange
  <2> QED BY <1>9, <2>1
<1> QED BY <1>3, <1>4, <1>9, <1>10, <1>11 DEF include

\* Taking the last path off the stack leaves the other ones.
LEMMA FrontLast ==
  ASSUME NEW S, NEW s \in Seq(S), s # <<>>
  PROVE  /\ Last(s) \in S
         /\ Front(s) \in Seq(S)
         /\ Range(s) = Range(Front(s)) \cup {Last(s)}
<1>1. PICK t \in Seq(S), e \in S : s = Append(t, e)
  BY SequenceEmptyOrAppend
<1>2. Len(s) = Len(t) + 1 /\ Len(t) \in Nat /\ s[Len(t) + 1] = e /\ \A i \in 1..Len(t) : s[i] = t[i]
  BY <1>1, AppendProperties, LenProperties
<1>3. Last(s) = e
  BY <1>2 DEF Last
<1>4. Front(s) = t
  <2>1. DOMAIN t = 1..Len(t) /\ t = [i \in 1..Len(t) |-> t[i]]
    BY LenProperties
  <2>2. Front(s) = [i \in 1..Len(t) |-> s[i]]
    <3>1. Len(s) - 1 = Len(t)
      BY <1>2
    <3> QED BY <3>1 DEF Front
  <2> QED BY <1>2, <2>1, <2>2
<1>5. Range(s) = Range(t) \cup {e}
  BY <1>1, AppendRange
<1> QED BY <1>1, <1>3, <1>4, <1>5

\* Some option of an include that asks for a file is there, and its files have been
\* loaded or are still to be.
Visits(include) ==
  (\A option \in include : option.required) =>
    \E option \in include :
      disk[option.path].kind # "missing" /\ Range(Found(option)) \subseteq Range(loaded) \cup Range(stack)

LoadInv ==
  /\ disk \in Disks
  /\ LoadTypeOK
  /\ cfg = "ready" => stack = <<>>
  /\ \A path \in Range(loaded) : \A include \in Range(Includes(path)) : Visits(include)

LEMMA LoadInvInit == LoadInit => LoadInv
<1> SUFFICES ASSUME LoadInit PROVE LoadInv
  OBVIOUS
<1>1. DOMAIN disk = Paths /\ MainFile \in Paths /\ MaxLoads \in Nat
  BY LoadAssumption DEF LoadInit
<1>2. stack \in Seq(Paths) /\ loaded \in Seq(Paths) /\ Len(loaded) = 0 /\ Range(loaded) = {}
  BY <1>1 DEF LoadInit, Range
<1>3. DOMAIN root = {}
  BY DEF LoadInit, Empty
<1> QED BY <1>1, <1>2, <1>3 DEF LoadInit, LoadInv, LoadTypeOK

LEMMA LoadFileInv ==
  ASSUME LoadInv, LoadFile
  PROVE  LoadInv'
<1> DEFINE path == Last(stack)
<1>1. /\ UNCHANGED <<disk, cfg>> /\ cfg = "loading" /\ stack # <<>> /\ Len(loaded) < MaxLoads
      /\ loaded' = Append(loaded, path) /\ root' = Merge(root, Document(path))
  BY DEF LoadFile, Loading
<1>2. PICK pick \in Picks(Includes(path)) :
        /\ \A i \in DOMAIN pick : Refusal(pick[i]) = "none"
        /\ stack' = Front(stack) \o Pushed(pick)
  BY DEF LoadFile, Pushed
<1>3. disk \in Disks /\ stack \in Seq(Paths) /\ loaded \in Seq(Paths) /\ MaxLoads \in Nat
  BY LoadAssumption DEF LoadInv, LoadTypeOK
<1>4. /\ path \in Paths /\ Front(stack) \in Seq(Paths)
      /\ Range(stack) = Range(Front(stack)) \cup {path}
  BY <1>1, <1>3, FrontLast
<1> HIDE DEF path
<1>5. /\ Pushed(pick) \in Seq(Paths) /\ DOMAIN pick = DOMAIN Includes(path)
      /\ \A i \in DOMAIN pick : /\ pick[i] \in Includes(path)[i] /\ pick[i] \in Option
                                /\ Range(Found(pick[i])) \subseteq Range(Pushed(pick))
  BY <1>2, <1>3, <1>4, PushedFiles
<1>6. stack' \in Seq(Paths) /\ Range(stack') = Range(Front(stack)) \cup Range(Pushed(pick))
  BY <1>2, <1>4, <1>5, ConcatProperties, RangeConcatenation
<1>7. /\ loaded' \in Seq(Paths) /\ Len(loaded') = Len(loaded) + 1 /\ Len(loaded) \in Nat
      /\ Range(loaded') = Range(loaded) \cup {path}
  BY <1>1, <1>3, <1>4, AppendProperties, AppendRange, LenProperties
<1>8. Range(loaded) \cup Range(stack) \subseteq Range(loaded') \cup Range(stack')
  BY <1>4, <1>6, <1>7
<1>9. ASSUME NEW p PROVE Includes(p)' = Includes(p)
  BY <1>1 DEF Includes
<1>10. ASSUME NEW option PROVE Found(option)' = Found(option)
  BY <1>1 DEF Found, ConfFiles, IsConf
<1>11. ASSUME NEW include, Visits(include) PROVE Visits(include)'
  BY <1>1, <1>8, <1>10, <1>11 DEF Visits
<1>12. ASSUME NEW include \in Range(Includes(path)) PROVE Visits(include)'
  <2>1. PICK i \in DOMAIN Includes(path) : include = Includes(path)[i]
    BY DEF Range
  <2>2. pick[i] \in include /\ Refusal(pick[i]) = "none"
    BY <1>2, <1>5, <2>1
  <2>3. pick[i].required => disk[pick[i].path].kind # "missing"
    BY <2>2 DEF Refusal
  <2>4. Range(Found(pick[i])) \subseteq Range(stack')
    BY <1>5, <1>6, <2>1
  <2> QED BY <1>1, <1>10, <2>2, <2>3, <2>4 DEF Visits
<1>13. LoadTypeOK'
  <2>1. \A p, q \in DOMAIN root' : ~Clash(p, q)
    <3>1. \A p, q \in DOMAIN root : ~Clash(p, q)
      BY DEF LoadInv, LoadTypeOK
    <3>2. \A p, q \in DOMAIN Document(path) : ~Clash(p, q)
      BY <1>3, <1>4, DiskType
    <3> QED BY <1>1, <3>1, <3>2, MergeKeepsApart DEF path
  <2>2. Len(loaded') <= MaxLoads
    BY <1>1, <1>3, <1>7
  <2> QED BY <1>1, <1>6, <1>7, <2>1, <2>2 DEF LoadInv, LoadTypeOK
<1>14. \A p \in Range(loaded') : \A include \in Range(Includes(p)') : Visits(include)'
  BY <1>7, <1>9, <1>11, <1>12 DEF LoadInv
<1> QED BY <1>1, <1>3, <1>13, <1>14 DEF LoadInv

LEMMA LoadInvNext == LoadInv /\ [Load]_loadVars => LoadInv'
<1> SUFFICES ASSUME LoadInv, [Load]_loadVars PROVE LoadInv'
  OBVIOUS
<1>1. CASE LoadFile
  BY <1>1, LoadFileInv
<1>2. CASE ReadFails \/ ParsePanics \/ IncludeFails \/ LoadReturns \/ UNCHANGED loadVars
  <2>1. UNCHANGED <<disk, stack, root, loaded>>
    BY <1>2 DEF ReadFails, ParsePanics, IncludeFails, LoadReturns, Stop, loadVars
  <2>2. cfg' \in {"loading", "ready", "failed", "panicked"} /\ (cfg' = "ready" => stack = <<>>)
    <3>1. CASE IncludeFails
      BY <3>1 DEF IncludeFails, Refusal, Stop
    <3> QED BY <1>2, <3>1 DEF LoadInv, LoadTypeOK, ReadFails, ParsePanics, LoadReturns, Stop, loadVars
  <2>3. \A path : Includes(path)' = Includes(path)
    BY <2>1 DEF Includes
  <2>4. \A option : Found(option)' = Found(option)
    BY <2>1 DEF Found, ConfFiles, IsConf
  <2>5. \A include : Visits(include)' = Visits(include)
    BY <2>1, <2>4 DEF Visits
  <2> QED BY <2>1, <2>2, <2>3, <2>5 DEF LoadInv, LoadTypeOK
<1> QED BY <1>1, <1>2 DEF Load

LEMMA LoadInvariance == LoadSpec => []LoadInv
BY LoadInvInit, LoadInvNext, PTL DEF LoadSpec

\* The stack of config.Load loses no file: when it is empty, all that a required
\* include stands for has been loaded, for any files, includes and cycles.
THEOREM RequiredLoaded == LoadSpec => []RequiredPresent
<1>1. LoadInv => RequiredPresent
  <2> SUFFICES ASSUME LoadInv, cfg = "ready" PROVE RequiredPresent
    BY DEF RequiredPresent
  <2>1. Range(stack) = {}
    BY DEF LoadInv, Range
  <2> QED BY <2>1 DEF LoadInv, Visits, RequiredPresent
<1> QED BY <1>1, LoadInvariance, PTL

\* The mapping in the i-th file.
Said(i) == Document(loaded[i])

\* An item list of the merged mapping holds what the i-th file says of p, whole and in
\* order.
Holds(i, p) ==
  /\ p \in DOMAIN root /\ root[p].list
  /\ \E from \in 0..Len(root[p].items) :
       LET items == Said(i)[p].items IN
       /\ from + Len(items) <= Len(root[p].items)
       /\ items = SubSeq(root[p].items, from + 1, from + Len(items))

\* A list of the same path, which is appended to what is there.
Extends(j, p) == p \in DOMAIN Said(j) /\ Said(j)[p].list

\* The same value.
Repeats(j, p, i) == p \in DOMAIN Said(j) /\ Said(j)[p] = Said(i)[p]

\* The files after the i-th that say something about the key path p.
Later(i, p) ==
  {j \in DOMAIN loaded : j > i /\ \E q \in DOMAIN Said(j) : p = q \/ Clash(p, q)}

\* The file that a value of the merged mapping is from; a list may be from several.
Origin(p) ==
  \E i \in DOMAIN loaded : p \in DOMAIN Said(i) /\ (root[p].list \/ root[p] = Said(i)[p])

\* SettingsKept, and why: what a file says is lost to a later file only.  Lists are
\* sequences, which are extended at their end.
MergeInv ==
  /\ \A p \in DOMAIN root : IsLeaf(root[p])
  /\ \A p \in DOMAIN root : Origin(p)
  /\ \A i \in DOMAIN loaded : \A p \in DOMAIN Said(i) :
       LET leaf == Said(i)[p] IN
       IF leaf.list
       THEN (\A j \in Later(i, p) : Extends(j, p)) => Holds(i, p)
       ELSE (\A j \in Later(i, p) : Repeats(j, p, i)) => p \in DOMAIN root /\ root[p] = leaf

LEMMA MergeInvInit == LoadInit => MergeInv
<1> SUFFICES ASSUME LoadInit PROVE MergeInv
  OBVIOUS
<1>1. DOMAIN root = {} /\ DOMAIN loaded = {}
  BY DEF LoadInit, Empty
<1> QED BY <1>1 DEF MergeInv

\* Two sequences in one: each is where it was put.
LEMMA JoinedItems ==
  ASSUME NEW a, a \in Seq(Range(a)), NEW b, b \in Seq(Range(b))
  PROVE  /\ Len(a) \in Nat /\ Len(b) \in Nat
         /\ a \o b \in Seq(Range(a \o b)) /\ Len(a \o b) = Len(a) + Len(b)
         /\ b = SubSeq(a \o b, Len(a) + 1, Len(a) + Len(b))
         /\ \A from, n \in Nat :
              from + n <= Len(a) => SubSeq(a \o b, from + 1, from + n) = SubSeq(a, from + 1, from + n)
<1> DEFINE S == Range(a) \cup Range(b)
           c == a \o b
<1>1. a \in Seq(S) /\ b \in Seq(S)
  BY SeqMonotonic
<1>2. /\ c \in Seq(S) /\ Len(c) = Len(a) + Len(b) /\ Len(a) \in Nat /\ Len(b) \in Nat
      /\ \A i \in 1..(Len(a) + Len(b)) : c[i] = IF i <= Len(a) THEN a[i] ELSE b[i - Len(a)]
  BY <1>1, ConcatProperties, LenProperties
<1>3. c \in Seq(Range(c))
  BY <1>2, SeqOfRange
<1> HIDE DEF c
<1>4. b = SubSeq(c, Len(a) + 1, Len(a) + Len(b))
  <2> DEFINE d == SubSeq(c, Len(a) + 1, Len(a) + Len(b))
  <2>1. \A i \in (Len(a) + 1)..(Len(a) + Len(b)) : c[i] \in S
    BY <1>1, <1>2, ElementOfSeq
  <2>2. /\ d \in Seq(S) /\ Len(d) = Len(b)
        /\ \A i \in 1..Len(b) : d[i] = c[Len(a) + 1 + i - 1]
    <3>1. /\ d \in Seq(S)
          /\ Len(d) = IF Len(a) + 1 <= Len(a) + Len(b) THEN Len(a) + Len(b) - (Len(a) + 1) + 1 ELSE 0
          /\ \A i \in 1..(Len(a) + Len(b) - (Len(a) + 1) + 1) : d[i] = c[Len(a) + 1 + i - 1]
      BY <1>2, <2>1, SubSeqProperties
    <3> HIDE DEF d
    <3> QED BY <1>2, <3>1
  <2> HIDE DEF d
  <2>3. \A i \in 1..Len(b) : d[i] = b[i]
    <3> SUFFICES ASSUME NEW i \in 1..Len(b) PROVE d[i] = b[i]
      OBVIOUS
    <3>1. d[i] = c[Len(a) + i]
      <4>1. Len(a) + 1 + i - 1 = Len(a) + i
        BY <1>2
      <4>2. d[i] = c[Len(a) + 1 + i - 1]
        BY <2>2
      <4> QED BY <4>1, <4>2
    <3>2. Len(a) + i \in 1..(Len(a) + Len(b)) /\ ~(Len(a) + i <= Len(a)) /\ Len(a) + i - Len(a) = i
      BY <1>2
    <3> QED BY <1>2, <3>1, <3>2
  <2>4. d = b
    BY <1>1, <2>2, <2>3, SeqEqual
  <2> QED BY <2>4 DEF d
<1>5. ASSUME NEW from \in Nat, NEW n \in Nat, from + n <= Len(a)
      PROVE  SubSeq(c, from + 1, from + n) = SubSeq(a, from + 1, from + n)
  <2> DEFINE d == SubSeq(c, from + 1, from + n)
             e == SubSeq(a, from + 1, from + n)
  <2>1. \A i \in (from + 1)..(from + n) : c[i] = a[i] /\ a[i] \in S
    BY <1>1, <1>2, <1>5, ElementOfSeq
  <2>2. d \in Seq(S) /\ Len(d) = n /\ \A i \in 1..n : d[i] = c[from + i]
    <3>1. /\ d \in Seq(S)
          /\ Len(d) = IF from + 1 <= from + n THEN from + n - (from + 1) + 1 ELSE 0
          /\ \A i \in 1..(from + n - (from + 1) + 1) : d[i] = c[from + 1 + i - 1]
      BY <2>1, SubSeqProperties
    <3> HIDE DEF d
    <3> QED BY <3>1
  <2>3. e \in Seq(S) /\ Len(e) = n /\ \A i \in 1..n : e[i] = a[from + i]
    <3>1. /\ e \in Seq(S)
          /\ Len(e) = IF from + 1 <= from + n THEN from + n - (from + 1) + 1 ELSE 0
          /\ \A i \in 1..(from + n - (from + 1) + 1) : e[i] = a[from + 1 + i - 1]
      BY <2>1, SubSeqProperties
    <3> HIDE DEF e
    <3> QED BY <3>1
  <2> HIDE DEF d, e
  <2>4. ASSUME NEW i \in 1..n PROVE d[i] = e[i]
    <3>1. PICK j : j = from + i
      OBVIOUS
    <3>2. j \in (from + 1)..(from + n)
      BY <3>1
    <3> QED BY <2>1, <2>2, <2>3, <3>1, <3>2
  <2>5. d = e
    BY <2>2, <2>3, <2>4, SeqEqual
  <2> QED BY <2>5 DEF d, e
<1> QED BY <1>2, <1>3, <1>4, <1>5 DEF c

\* What c has at p, when b has been merged into a.
MergedAt(a, b, c, p) ==
  /\ p \in DOMAIN b /\ p \in DOMAIN a /\ a[p].list /\ b[p].list =>
       p \in DOMAIN c /\ c[p] = Leaf(a[p].items \o b[p].items, TRUE)
  /\ p \in DOMAIN b /\ ~(p \in DOMAIN a /\ a[p].list /\ b[p].list) =>
       p \in DOMAIN c /\ c[p] = b[p]
  /\ p \in DOMAIN a /\ (\A q \in DOMAIN b : p # q /\ ~Clash(p, q)) =>
       p \in DOMAIN c /\ c[p] = a[p]

LEMMA MergedValue ==
  ASSUME NEW a, NEW b, NEW p
  PROVE  MergedAt(a, b, Merge(a, b), p)
BY DEF Merge, MergedAt

LEMMA MergedLeaves ==
  ASSUME NEW a, NEW b, \A p \in DOMAIN a : IsLeaf(a[p]), \A p \in DOMAIN b : IsLeaf(b[p])
  PROVE  \A p \in DOMAIN Merge(a, b) : IsLeaf(Merge(a, b)[p])
<1> DEFINE c == Merge(a, b)
<1> SUFFICES ASSUME NEW p \in DOMAIN c PROVE IsLeaf(c[p])
  OBVIOUS
<1>1. /\ p \in DOMAIN a \/ p \in DOMAIN b
      /\ c[p] = IF p \notin DOMAIN b THEN a[p]
                ELSE IF p \in DOMAIN a /\ a[p].list /\ b[p].list
                     THEN Leaf(a[p].items \o b[p].items, TRUE)
                     ELSE b[p]
  BY DEF Merge
<1>2. p \in DOMAIN a /\ p \in DOMAIN b => IsLeaf(Leaf(a[p].items \o b[p].items, TRUE))
  BY JoinedItems DEF IsLeaf, Leaf
<1> HIDE DEF c
<1> QED BY <1>1, <1>2

LEMMA MergeInvFile ==
  ASSUME LoadInv, MergeInv, LoadFile
  PROVE  MergeInv'
<1> DEFINE path == Last(stack)
           b == Document(path)
<1>1. loaded' = Append(loaded, path) /\ root' = Merge(root, b) /\ disk' = disk /\ stack # <<>>
  BY DEF LoadFile, Loading
<1>2. path \in Paths /\ loaded \in Seq(Paths) /\ disk \in Disks
  BY <1>1, FrontLast DEF LoadInv, LoadTypeOK
<1>3. \A p \in DOMAIN b : IsLeaf(b[p])
  BY <1>2, DiskType
<1> HIDE DEF path
<1>4. PICK n \in Nat : n = Len(loaded)
  BY <1>2, LenProperties
<1>5. /\ DOMAIN loaded = 1..n /\ DOMAIN loaded' = 1..(n + 1)
      /\ loaded'[n + 1] = path /\ \A i \in 1..n : loaded'[i] = loaded[i]
  BY <1>1, <1>2, <1>4, AppendProperties, LenProperties
<1>6. PICK new : new = n + 1
  OBVIOUS
<1>7. /\ new \in DOMAIN loaded' /\ loaded'[new] = path /\ new \notin DOMAIN loaded
      /\ \A i \in DOMAIN loaded : i \in DOMAIN loaded' /\ loaded'[i] = loaded[i] /\ new > i
      /\ \A i \in DOMAIN loaded' : (i = new \/ i \in DOMAIN loaded) /\ ~(i > new)
  BY <1>5, <1>6
<1>8. ASSUME NEW q PROVE Document(q)' = Document(q)
  BY <1>1 DEF Document
<1>9. \A p \in DOMAIN root : IsLeaf(root[p])
  BY DEF MergeInv
<1>14. Said(new)' = b /\ \A i \in DOMAIN loaded : Said(i)' = Said(i)
  BY <1>7, <1>8 DEF Said
<1>10. \A p \in DOMAIN root' : IsLeaf(root'[p])
  <2> HIDE DEF b
  <2> QED BY <1>1, <1>3, <1>9, MergedLeaves
<1>15. ASSUME NEW p
       PROVE  /\ p \in DOMAIN b /\ p \in DOMAIN root /\ root[p].list /\ b[p].list =>
                   /\ p \in DOMAIN root' /\ root'[p].list
                   /\ root'[p].items = root[p].items \o b[p].items
              /\ p \in DOMAIN b /\ ~(p \in DOMAIN root /\ root[p].list /\ b[p].list) =>
                   p \in DOMAIN root' /\ root'[p] = b[p]
              /\ p \in DOMAIN root /\ (\A q \in DOMAIN b : p # q /\ ~Clash(p, q)) =>
                   p \in DOMAIN root' /\ root'[p] = root[p]
  <2> HIDE DEF b
  <2> DEFINE joined == Leaf(root[p].items \o b[p].items, TRUE)
  <2>1. joined.list /\ joined.items = root[p].items \o b[p].items
    BY DEF Leaf
  <2> HIDE DEF joined
  <2>2. MergedAt(root, b, root', p)
    BY <1>1, MergedValue
  <2> QED BY <2>1, <2>2 DEF MergedAt, joined
<1>11. ASSUME NEW p \in DOMAIN b
       PROVE  IF b[p].list THEN Holds(new, p)' ELSE p \in DOMAIN root' /\ root'[p] = b[p]
  <2>1. Said(new)' = b
    BY <1>14
  <2> HIDE DEF b
  <2>2. CASE p \in DOMAIN root /\ root[p].list /\ b[p].list
    <3> DEFINE x == root[p].items
               y == b[p].items
    <3>1. p \in DOMAIN root' /\ root'[p].list /\ root'[p].items = x \o y
      BY <1>15, <2>2
    <3>2. x \in Seq(Range(x)) /\ y \in Seq(Range(y))
      BY <1>3, <1>9, <2>2 DEF IsLeaf
    <3> HIDE DEF x, y
    <3>3. /\ Len(x) \in 0..Len(x \o y)
          /\ Len(x) + Len(y) <= Len(x \o y)
          /\ y = SubSeq(x \o y, Len(x) + 1, Len(x) + Len(y))
      BY <3>2, JoinedItems
    <3>4. Holds(new, p)'
      BY <2>1, <3>1, <3>3 DEF Holds, y
    <3> QED BY <2>2, <3>4
  <2>3. CASE ~(p \in DOMAIN root /\ root[p].list /\ b[p].list)
    <3> DEFINE y == b[p].items
    <3>1. p \in DOMAIN root' /\ root'[p] = b[p]
      BY <1>15, <2>3
    <3>2. y \in Seq(Range(y))
      BY <1>3 DEF IsLeaf
    <3>3. Len(y) \in Nat /\ 0 \in 0..Len(y) /\ y = SubSeq(y, 0 + 1, 0 + Len(y))
      <4>1. Len(y) \in Nat
        BY <3>2, LenProperties
      <4>2. 0 + 1 = 1 /\ 0 + Len(y) = Len(y)
        BY <4>1
      <4> HIDE DEF y
      <4> QED BY <3>2, <4>1, <4>2, SubSeqFull
    <3> HIDE DEF y
    <3>4. b[p].list => Holds(new, p)'
      <4>1. 0 + Len(y) <= Len(y)
        BY <3>3
      <4> QED BY <2>1, <3>1, <3>3, <4>1 DEF Holds, y
    <3> QED BY <3>1, <3>4
  <2> QED BY <2>2, <2>3
<1>12. ASSUME NEW i \in DOMAIN loaded, NEW p \in DOMAIN Said(i)
       PROVE  LET leaf == Said(i)[p] IN
              IF leaf.list
              THEN (\A j \in Later(i, p)' : Extends(j, p)') => Holds(i, p)'
              ELSE (\A j \in Later(i, p)' : Repeats(j, p, i)') =>
                     p \in DOMAIN root' /\ root'[p] = leaf
  <2> DEFINE leaf == Said(i)[p]
  <2>1. Later(i, p) \subseteq Later(i, p)'
    BY <1>7, <1>14 DEF Later, Said
  <2>2. (\E q \in DOMAIN b : p = q \/ Clash(p, q)) => new \in Later(i, p)'
    BY <1>7, <1>14 DEF Later, Said
  <2>3. /\ Said(i)' = Said(i) /\ Said(new)' = b
        /\ \A j \in DOMAIN loaded : Extends(j, p)' = Extends(j, p)
        /\ \A j \in DOMAIN loaded : Repeats(j, p, i)' = Repeats(j, p, i)
    BY <1>14 DEF Extends, Repeats
  <2> HIDE DEF b
  <2>4. ASSUME leaf.list, \A j \in Later(i, p)' : Extends(j, p)' PROVE Holds(i, p)'
    <3>1. \A j \in Later(i, p) : Extends(j, p)
      <4>1. Later(i, p) \subseteq DOMAIN loaded
        BY DEF Later
      <4> QED BY <2>1, <2>3, <2>4, <4>1
    <3>2. Holds(i, p)
      BY <2>4, <3>1 DEF MergeInv
    <3>3. PICK from \in 0..Len(root[p].items) :
            /\ from + Len(leaf.items) <= Len(root[p].items)
            /\ leaf.items = SubSeq(root[p].items, from + 1, from + Len(leaf.items))
      BY <3>2 DEF Holds
    <3>4. p \in DOMAIN root /\ root[p].list
      BY <3>2 DEF Holds
    <3>5. CASE new \in Later(i, p)'
      <4> DEFINE x == root[p].items
                 y == b[p].items
                 z == leaf.items
      <4>1. p \in DOMAIN b /\ b[p].list
        BY <2>3, <2>4, <3>5 DEF Extends
      <4>2. p \in DOMAIN root' /\ root'[p].list /\ root'[p].items = x \o y
        BY <1>15, <3>4, <4>1
      <4>3. x \in Seq(Range(x)) /\ y \in Seq(Range(y))
        BY <1>3, <1>9, <3>4, <4>1 DEF IsLeaf
      <4>4. IsLeaf(leaf)
        <5>1. loaded[i] \in Paths
          BY <1>2, LenProperties, ElementOfSeq
        <5> QED BY <1>2, <5>1, DiskType DEF Said
      <4>5. Len(z) \in Nat
        BY <4>4, LenProperties DEF IsLeaf
      <4> HIDE DEF x, y, z, leaf
      <4>6. from \in Nat /\ from + Len(z) <= Len(x) /\ z = SubSeq(x, from + 1, from + Len(z))
        BY <3>3 DEF x, z
      <4>7. /\ from \in 0..Len(x \o y) /\ from + Len(z) <= Len(x \o y)
            /\ z = SubSeq(x \o y, from + 1, from + Len(z))
        BY <4>3, <4>5, <4>6, JoinedItems
      <4> QED BY <2>3, <4>2, <4>7 DEF Holds, leaf, z
    <3>6. CASE new \notin Later(i, p)'
      <4>1. p \in DOMAIN root' /\ root'[p] = root[p]
        BY <1>15, <2>2, <3>4, <3>6
      <4> QED BY <2>3, <3>3, <3>4, <4>1 DEF Holds
    <3> QED BY <3>5, <3>6
  <2>5. ASSUME ~leaf.list, \A j \in Later(i, p)' : Repeats(j, p, i)'
        PROVE  p \in DOMAIN root' /\ root'[p] = leaf
    <3>1. CASE new \in Later(i, p)'
      <4>1. p \in DOMAIN b /\ b[p] = leaf
        BY <2>3, <2>5, <3>1 DEF Repeats
      <4> HIDE DEF leaf
      <4> QED BY <1>15, <2>5, <4>1
    <3>2. CASE new \notin Later(i, p)'
      <4>1. \A j \in Later(i, p) : Repeats(j, p, i)
        <5>1. Later(i, p) \subseteq DOMAIN loaded
          BY DEF Later
        <5> QED BY <2>1, <2>3, <2>5, <5>1
      <4>2. p \in DOMAIN root /\ root[p] = leaf
        BY <2>5, <4>1 DEF MergeInv
      <4> QED BY <1>15, <2>2, <3>2, <4>2
    <3> QED BY <3>1, <3>2
  <2> QED BY <2>4, <2>5
<1>13. ASSUME NEW i \in DOMAIN loaded', NEW p \in DOMAIN Said(i)'
       PROVE  LET leaf == Said(i)'[p] IN
              IF leaf.list
              THEN (\A j \in Later(i, p)' : Extends(j, p)') => Holds(i, p)'
              ELSE (\A j \in Later(i, p)' : Repeats(j, p, i)') =>
                     p \in DOMAIN root' /\ root'[p] = leaf
  <2>1. CASE i = new
    BY <1>7, <1>14, <1>11, <2>1
  <2>2. CASE i \in DOMAIN loaded
    BY <1>14, <1>12, <2>2
  <2> QED BY <1>7, <2>1, <2>2
<1>16. ASSUME NEW p \in DOMAIN root' PROVE Origin(p)'
  <2>1. CASE p \in DOMAIN b
    BY <1>7, <1>14, <1>15, <2>1 DEF Origin
  <2>2. CASE p \notin DOMAIN b
    <3>1. p \in DOMAIN root /\ root'[p] = root[p]
      BY <1>1, <2>2 DEF Merge
    <3>2. PICK i \in DOMAIN loaded : p \in DOMAIN Said(i) /\ (root[p].list \/ root[p] = Said(i)[p])
      BY <3>1 DEF MergeInv, Origin
    <3> QED BY <1>7, <1>14, <3>1, <3>2 DEF Origin
  <2> QED BY <2>1, <2>2
<1> QED BY <1>10, <1>13, <1>16 DEF MergeInv

LEMMA MergeInvNext == LoadInv /\ MergeInv /\ [Load]_loadVars => MergeInv'
<1> SUFFICES ASSUME LoadInv, MergeInv, [Load]_loadVars PROVE MergeInv'
  OBVIOUS
<1>1. CASE LoadFile
  BY <1>1, MergeInvFile
<1>2. CASE UNCHANGED <<disk, root, loaded>>
  <2>1. \A i : Said(i)' = Said(i)
    BY <1>2 DEF Said, Document
  <2>2. \A i, p : Later(i, p)' = Later(i, p)
    BY <1>2, <2>1 DEF Later, Said
  <2>3. /\ \A i, p : Extends(i, p)' = Extends(i, p) /\ Holds(i, p)' = Holds(i, p)
        /\ \A i, j, p : Repeats(j, p, i)' = Repeats(j, p, i)
        /\ \A p : Origin(p)' = Origin(p)
    BY <1>2, <2>1 DEF Extends, Holds, Repeats, Origin
  <2> QED BY <1>2, <2>1, <2>2, <2>3 DEF MergeInv
<1>3. LoadFile \/ UNCHANGED <<disk, root, loaded>>
  BY DEF Load, loadVars, ReadFails, ParsePanics, IncludeFails, LoadReturns, Stop
<1> QED BY <1>1, <1>2, <1>3

LEMMA MergeKeeps == LoadInv /\ MergeInv => SettingsKept
<1> SUFFICES ASSUME LoadInv, MergeInv PROVE SettingsKept
  OBVIOUS
<1>1. ASSUME NEW i \in DOMAIN loaded, NEW p \in DOMAIN Said(i), Agreed(p, Said(i)[p])
      PROVE  /\ p \in DOMAIN root
             /\ IF Said(i)[p].list
                  THEN \E from \in 0..(Len(root[p].items) - Len(Said(i)[p].items)) :
                         Said(i)[p].items = SubSeq(root[p].items, from + 1, from + Len(Said(i)[p].items))
                  ELSE root[p] = Said(i)[p]
  <2>1. \A j \in Later(i, p) : j \in About(p)
    BY DEF Later, About, Said
  <2>2. CASE Said(i)[p].list
    <3>1. \A j \in Later(i, p) : Extends(j, p)
      BY <1>1, <2>1, <2>2 DEF Agreed, Extends, Said
    <3>2. Holds(i, p)
      BY <2>2, <3>1 DEF MergeInv
    <3>3. IsLeaf(Said(i)[p]) /\ IsLeaf(root[p])
      <4>1. loaded[i] \in Paths /\ disk \in Disks
        BY LenProperties, ElementOfSeq DEF LoadInv, LoadTypeOK
      <4> QED BY <3>2, <4>1, DiskType DEF Said, MergeInv, Holds
    <3>4. Len(Said(i)[p].items) \in Nat /\ Len(root[p].items) \in Nat
      BY <3>3, LenProperties DEF IsLeaf
    <3>5. PICK from \in 0..Len(root[p].items) :
            /\ from + Len(Said(i)[p].items) <= Len(root[p].items)
            /\ Said(i)[p].items = SubSeq(root[p].items, from + 1, from + Len(Said(i)[p].items))
      BY <3>2 DEF Holds
    <3>6. from \in 0..(Len(root[p].items) - Len(Said(i)[p].items))
      BY <3>4, <3>5
    <3> QED BY <2>2, <3>2, <3>5, <3>6 DEF Holds
  <2>3. CASE ~Said(i)[p].list
    <3>1. \A j \in Later(i, p) : Repeats(j, p, i)
      BY <1>1, <2>1, <2>3 DEF Agreed, Repeats, Said
    <3> QED BY <2>3, <3>1 DEF MergeInv
  <2> QED BY <2>2, <2>3
<1>2. \A p \in DOMAIN root : Origin(p)
  BY DEF MergeInv
<1> QED BY <1>1, <1>2 DEF SettingsKept, Said, Origin

\* Whatever files include each other, in whatever order, mergeMap loses what a file
\* says only to another file that says something else about it, puts the items of
\* lists together whole, and makes up nothing.
THEOREM SettingsStay == LoadSpec => []SettingsKept
<1>1. LoadInit => LoadInv /\ MergeInv
  BY LoadInvInit, MergeInvInit
<1>2. LoadInv /\ MergeInv /\ [Load]_loadVars => (LoadInv /\ MergeInv)'
  BY LoadInvNext, MergeInvNext
<1> QED BY <1>1, <1>2, MergeKeeps, PTL DEF LoadSpec

-----------------------------------------------------------------------------
(* The parts and the whole.                                                 *)

LEMMA MainStep == [Next]_vars => [StartNext]_startVars /\ [Load]_loadVars
<1> SUFFICES ASSUME [Next]_vars PROVE [StartNext]_startVars /\ [Load]_loadVars
  OBVIOUS
<1>1. CASE LoadFiles
  BY <1>1 DEF LoadFiles
<1>2. CASE Refuse \/ Panic
  BY <1>2 DEF Refuse, Panic, StartNext
<1>3. CASE ListenAndServe
  BY <1>3 DEF ListenAndServe, Spawn, StartNext
<1>4. CASE Serving(Run)
  BY <1>4 DEF Serving, StartNext
<1>5. CASE UNCHANGED vars
  BY <1>5 DEF vars, startVars, loadVars
<1> QED BY <1>1, <1>2, <1>3, <1>4, <1>5 DEF Next, Decide

\* The program starts binds and loads files as Startup and ConfigLoad have it: main
\* adds no step of its own to either.
THEOREM PartsOfMain == Spec => StartSpec /\ LoadSpec
<1>1. Init => StartInit /\ LoadInit
  BY DEF Init
<1> QED
  BY <1>1, MainStep, PTL DEF Spec, StartSpec, LoadSpec

\* Whatever files main reads, and however many binds they give it: with distinct
\* addresses no bind takes another one's socket or lock.
THEOREM MainKeepsSockets == Spec => []OwnSocket
  BY PartsOfMain, OwnSocketKept, PTL

\* Nor does the program come out of a single Unix bind with another umask, or give
\* its socket another mode.
THEOREM MainKeepsMask == Spec => []OneBindKeepsMask
  BY PartsOfMain, MaskKept, PTL

-----------------------------------------------------------------------------
(* The limit of a method.  A scalar of the merged mapping is what the last of   *)
(* the files loaded says of its key path that says anything.                    *)

LastSays(p, i) ==
  /\ p \in DOMAIN Document(loaded[i])
  /\ \A j \in DOMAIN loaded : p \in DOMAIN Document(loaded[j]) => j <= i
  /\ root[p] = Document(loaded[i])[p]

Sourced ==
  /\ loaded \in Seq(Range(loaded))
  /\ \A p \in DOMAIN root : root[p].list \/ \E i \in DOMAIN loaded : LastSays(p, i)

LEMMA SourcedInit == Init => Sourced
<1> SUFFICES ASSUME Init PROVE Sourced
  OBVIOUS
<1>1. loaded = <<>> /\ DOMAIN root = {}
  BY DEF Init, LoadInit, Empty
<1>2. loaded \in Seq({})
  BY <1>1
<1> QED BY <1>1, <1>2, SeqOfRange DEF Sourced

\* What merging one more file makes of a key path.
LEMMA MergedLeaf ==
  ASSUME NEW a, NEW b, NEW p \in DOMAIN Merge(a, b)
  PROVE  \/ p \in DOMAIN b /\ Merge(a, b)[p] = b[p]
         \/ p \in DOMAIN b /\ Merge(a, b)[p].list
         \/ p \notin DOMAIN b /\ p \in DOMAIN a /\ Merge(a, b)[p] = a[p]
  BY DEF Merge, Leaf

LEMMA LoadFileSourced ==
  ASSUME Sourced, LoadFile
  PROVE  Sourced'
<1> DEFINE path == Last(stack)
           n == Len(loaded)
<1>1. /\ loaded' = Append(loaded, path)
      /\ root' = Merge(root, Document(path)) /\ disk' = disk
  BY DEF LoadFile
<1>2. loaded \in Seq(Range(loaded) \cup {path})
  BY SeqMonotonic DEF Sourced
<1>3. /\ n \in Nat /\ DOMAIN loaded = 1..n /\ DOMAIN loaded' = 1..(n + 1)
      /\ loaded'[n + 1] = path /\ \A i \in 1..n : loaded'[i] = loaded[i]
      /\ loaded' \in Seq(Range(loaded) \cup {path})
  <2> HIDE DEF path
  <2> QED BY <1>1, <1>2, AppendProperties, LenProperties
<1>4. loaded' \in Seq(Range(loaded'))
  BY <1>3, SeqOfRange
<1>5. ASSUME NEW q PROVE Document(q)' = Document(q)
  BY <1>1 DEF Document
<1>6. ASSUME NEW p \in DOMAIN root', ~root'[p].list
      PROVE  \E i \in DOMAIN loaded' : LastSays(p, i)'
  <2>1. CASE p \in DOMAIN Document(path)
    <3>1. root'[p] = Document(path)[p]
      BY <1>1, <1>6, <2>1, MergedLeaf
    <3>2. PICK k : k = n + 1
      OBVIOUS
    <3>3. k \in DOMAIN loaded' /\ loaded'[k] = path /\ \A j \in DOMAIN loaded' : j <= k
      BY <1>3, <3>2
    <3>4. LastSays(p, k)'
      BY <1>5, <2>1, <3>1, <3>3 DEF LastSays
    <3> QED BY <3>3, <3>4
  <2>2. CASE p \notin DOMAIN Document(path)
    <3>1. p \in DOMAIN root /\ root'[p] = root[p]
      BY <1>1, <1>6, <2>2, MergedLeaf
    <3>2. PICK i \in DOMAIN loaded : LastSays(p, i)
      BY <1>6, <3>1 DEF Sourced
    <3>3. \A j \in DOMAIN loaded' : p \in DOMAIN Document(loaded'[j]) => j \in DOMAIN loaded
      BY <1>3, <2>2
    <3>4. LastSays(p, i)'
      BY <1>3, <1>5, <3>1, <3>2, <3>3 DEF LastSays
    <3> QED BY <1>3, <3>2, <3>4
  <2> QED BY <2>1, <2>2
<1> QED BY <1>4, <1>6 DEF Sourced

LEMMA SourcedNext == Sourced /\ [Next]_vars => Sourced'
<1> SUFFICES ASSUME Sourced, [Next]_vars PROVE Sourced'
  OBVIOUS
<1>1. CASE LoadFile
  BY <1>1, LoadFileSourced
<1>2. CASE UNCHANGED <<disk, root, loaded>>
  BY <1>2 DEF Sourced, LastSays, Document
<1>3. LoadFile \/ UNCHANGED <<disk, root, loaded>>
  BY MainStep DEF Load, loadVars, ReadFails, ParsePanics, IncludeFails, LoadReturns, Stop
<1> QED BY <1>1, <1>2, <1>3

LEMMA LimitOfFile ==
  ASSUME Sourced, NEW m, Limited(m)
  PROVE  root[LimitPath(m)].items[1] \in Given(LimitPath(m))
<1> DEFINE p == LimitPath(m)
<1>1. p \in DOMAIN root /\ ~root[p].list /\ root[p] # NoValue
  BY DEF Limited
<1>2. PICK i \in DOMAIN loaded : LastSays(p, i)
  BY <1>1 DEF Sourced
<1>3. i \in Giving(p)
  BY <1>1, <1>2 DEF Giving, LastSays
<1> QED BY <1>2, <1>3 DEF Given, LastSays

\* The table is made when the files have been read, and stays.
Tabled == (table = NoMethods \/ cfg = "ready") /\ OwnLimit

LEMMA MethodSize ==
  ASSUME NEW m
  PROVE  MethodLimits(m).size = IF Limited(m) THEN root[LimitPath(m)].items[1]
                                ELSE IF MethodLimits(m).streamed THEN 0 ELSE DefaultSize
  BY DEF MethodLimits, Limited, LimitPath, Value

\* What the files give does not change when they are not read.
LEMMA GivenStays ==
  ASSUME UNCHANGED <<disk, root, loaded>>, NEW p, NEW m
  PROVE  Given(p)' = Given(p) /\ Limited(m)' = Limited(m)
<1>1. \A q : Document(q)' = Document(q)
  BY DEF Document
<1>2. Giving(p)' = Giving(p)
  BY <1>1 DEF Giving
<1> QED BY <1>1, <1>2 DEF Given, Limited

LEMMA TabledNext == Sourced /\ Tabled /\ [Next]_vars => Tabled'
<1> SUFFICES ASSUME Sourced, Tabled, [Next]_vars PROVE Tabled'
  OBVIOUS
<1>1. CASE LoadFiles
  <2>1. table = NoMethods /\ table' = NoMethods
    BY <1>1 DEF LoadFiles, Tabled, Load, Loading, ReadFails, ParsePanics, IncludeFails, LoadFile,
                LoadReturns
  <2> QED BY <2>1 DEF Tabled, OwnLimit, NoMethods
<1>2. CASE ListenAndServe
  <2>1. /\ table' = [m \in Methods |-> MethodLimits(m)] /\ cfg' = "ready"
        /\ UNCHANGED <<disk, root, loaded>>
    BY <1>2 DEF ListenAndServe, loadVars
  <2>2. \A p, m : Given(p)' = Given(p) /\ Limited(m)' = Limited(m)
    BY <2>1, GivenStays
  <2>3. ASSUME NEW m \in DOMAIN table'
        PROVE  table'[m].size \in (IF Limited(m) THEN Given(LimitPath(m))
                                   ELSE IF table'[m].streamed THEN {0}
                                   ELSE Given(SectionPath) \cup {DefaultSize})
    <3>1. table'[m] = MethodLimits(m)
      BY <2>1, <2>3
    <3> QED BY <3>1, MethodSize, LimitOfFile
  <2>4. OwnLimit'
    BY <2>2, <2>3 DEF OwnLimit
  <2> QED BY <2>1, <2>4 DEF Tabled
<1>3. CASE UNCHANGED <<loadVars, table>>
  <2>1. \A p, m : Given(p)' = Given(p) /\ Limited(m)' = Limited(m)
    BY <1>3, GivenStays DEF loadVars
  <2> QED BY <1>3, <2>1 DEF Tabled, OwnLimit, loadVars
<1>4. LoadFiles \/ ListenAndServe \/ UNCHANGED <<loadVars, table>>
  BY DEF Next, Decide, Refuse, Panic, Serving, vars, loadVars
<1> QED BY <1>1, <1>2, <1>3, <1>4

\* Every method that the processor serves has a limit that a loaded file gives it, or
\* a limit of its kind, whatever the files say of other methods.
THEOREM LimitsAreOwn == Spec => []OwnLimit
<1>1. Init => Sourced /\ Tabled
  BY SourcedInit DEF Init, Tabled, OwnLimit, NoMethods
<1>2. Sourced /\ Tabled /\ [Next]_vars => (Sourced /\ Tabled)'
  BY SourcedNext, TabledNext
<1>3. Tabled => OwnLimit
  BY DEF Tabled
<1> QED
  BY <1>1, <1>2, <1>3, PTL DEF Spec

-----------------------------------------------------------------------------
(* The types of the whole: those of the parts, and of the table, whose values   *)
(* come from the files.                                                         *)

\* A scalar of the processor in the merged mapping has the type it has in its file.
LEMMA ScalarTypes ==
  ASSUME LoadInv, Sourced, NEW p \in DOMAIN root, ~root[p].list, root[p] # NoValue
  PROVE  /\ Len(p) = 3 /\ p[3] = "streamed" => root[p].items[1] \in BOOLEAN
         /\ Len(p) = 4 /\ p[3] = "limits" => root[p].items[1] \in Int
<1>1. PICK i \in DOMAIN loaded : LastSays(p, i)
  BY DEF Sourced
<1>2. PICK f : f = loaded[i]
  OBVIOUS
<1>3. f \in Paths /\ disk \in Disks
  BY <1>2, LenProperties, ElementOfSeq DEF LoadInv, LoadTypeOK
<1>4. p \in DOMAIN Document(f) /\ root[p] = Document(f)[p]
  BY <1>1, <1>2 DEF LastSays
<1>5. p \in DOMAIN disk[f].leaves /\ root[p] = disk[f].leaves[p]
  BY <1>4 DEF Document, Empty
<1> QED BY <1>3, <1>5, MainAssumption

LEMMA LimitTypes ==
  ASSUME LoadInv, Sourced, NEW m
  PROVE  /\ MethodLimits(m).streamed \in BOOLEAN
         /\ MethodLimits(m).size \in Nat /\ MethodLimits(m).timeout \in Nat
<1>1. Value(<<"methods", m, "streamed">>, FALSE) \in BOOLEAN
  <2>1. PICK p : p = <<"methods", m, "streamed">>
    OBVIOUS
  <2>2. Len(p) = 3 /\ p[3] = "streamed"
    BY <2>1
  <2> QED BY <2>1, <2>2, ScalarTypes DEF Value
<1>2. Value(<<"methods", m, "limits", "max-response">>, -1) \in Int
  <2>1. PICK p : p = <<"methods", m, "limits", "max-response">>
    OBVIOUS
  <2>2. Len(p) = 4 /\ p[3] = "limits"
    BY <2>1
  <2> QED BY <2>1, <2>2, ScalarTypes DEF Value
<1>3. Value(<<"methods", m, "limits", "exec-timeout">>, -1) \in Int
  <2>1. PICK p : p = <<"methods", m, "limits", "exec-timeout">>
    OBVIOUS
  <2>2. Len(p) = 4 /\ p[3] = "limits"
    BY <2>1
  <2> QED BY <2>1, <2>2, ScalarTypes DEF Value
<1>4. DefaultSize \in Nat
  BY MainAssumption
<1>5. PICK streamed, size, timeout :
        /\ streamed = Value(<<"methods", m, "streamed">>, FALSE)
        /\ size = Value(<<"methods", m, "limits", "max-response">>, -1)
        /\ timeout = Value(<<"methods", m, "limits", "exec-timeout">>, -1)
  OBVIOUS
<1>6. size \in Int /\ timeout \in Int
  BY <1>2, <1>3, <1>5
<1>7. (IF size >= 0 THEN size ELSE IF streamed THEN 0 ELSE DefaultSize) \in Nat
  BY <1>4, <1>6
<1>8. (IF timeout >= 0 THEN timeout ELSE 0) \in Nat
  BY <1>6
<1>9. MethodLimits(m).streamed \in BOOLEAN
  BY <1>1 DEF MethodLimits
<1>10. MethodLimits(m).size \in Nat
  BY <1>5, <1>7 DEF MethodLimits
<1>11. MethodLimits(m).timeout \in Nat
  BY <1>5, <1>8 DEF MethodLimits
<1> QED BY <1>9, <1>10, <1>11

TableTypeOK ==
  \A m \in DOMAIN table :
    table[m].streamed \in BOOLEAN /\ table[m].size \in Nat /\ table[m].timeout \in Nat

LEMMA TableTypeNext == LoadInv /\ Sourced /\ TableTypeOK /\ [Next]_vars => TableTypeOK'
<1> SUFFICES ASSUME LoadInv, Sourced, TableTypeOK, [Next]_vars PROVE TableTypeOK'
  OBVIOUS
<1>1. CASE ListenAndServe
  <2>1. table' = [m \in Methods |-> MethodLimits(m)]
    BY <1>1 DEF ListenAndServe
  <2> QED BY <2>1, LimitTypes DEF TableTypeOK
<1>2. CASE UNCHANGED table
  BY <1>2 DEF TableTypeOK
<1>3. ListenAndServe \/ UNCHANGED table
  BY DEF Next, LoadFiles, Decide, Refuse, Panic, Serving, vars
<1> QED BY <1>1, <1>2, <1>3

\* main's variables have their types, whatever the files say: in the table of the
\* processor no limit is negative, the ones that files give included.
THEOREM MainTypes == Spec => []TypeOK
<1>1. Init => Sourced /\ TableTypeOK
  BY SourcedInit DEF Init, TableTypeOK, NoMethods
<1>2. LoadInv /\ Sourced /\ TableTypeOK /\ [Next]_vars => (Sourced /\ TableTypeOK)'
  BY SourcedNext, TableTypeNext
<1>3. LoadInv /\ StartTypeOK /\ TableTypeOK => TypeOK
  BY DEF LoadInv, TypeOK, TableTypeOK
<1> QED BY <1>1, <1>2, <1>3, PartsOfMain, LoadInvariance, StartTypes, PTL DEF Spec

=============================================================================
