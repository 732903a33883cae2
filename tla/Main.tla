--------------------------------- MODULE Main ---------------------------------
(***************************************************************************)
(* The program from its start: ConfigLoad reads the files, ReadConfig and  *)
(* main decide what to make of them, and Startup runs the binds.           *)
(***************************************************************************)
EXTENDS ConfigLoad, Startup

CONSTANTS
  Backends,    \* the log backends that parseBackend knows
  Levels,      \* the log levels that parseLoglevel knows
  DefaultSize  \* defaultRPCLimits.MaxResponse

\* Where the configuration has scalars for the processor, they are of their types.
ASSUME MainAssumption ==
  /\ DefaultSize \in Nat
  /\ \A d \in Disks : \A f \in Paths : \A p \in DOMAIN d[f].leaves :
       LET leaf == d[f].leaves[p] IN
       ~leaf.list /\ leaf # NoValue =>
         /\ Len(p) = 3 /\ p[3] = "streamed" => leaf.items[1] \in BOOLEAN
         /\ Len(p) = 4 /\ p[3] = "limits" => leaf.items[1] \in Int

VARIABLE table  \* the limits of each method of the processor

vars == <<disk, stack, root, cfg, loaded, world, binds, main, at, umask, saved, names, owner,
          perm, open, locks, sig, table>>

NoMethods == [m \in {} |-> 0]

Init == LoadInit /\ StartInit /\ table = NoMethods

-----------------------------------------------------------------------------
(* ReadConfig: what the merged mapping says.                               *)

\* AsString, Int64, Bool: anything but a scalar with a value gives the default.
Value(path, default) ==
  IF path \in DOMAIN root /\ ~root[path].list /\ root[path] # NoValue
  THEN root[path].items[1] ELSE default

\* Array(nil)
Items(path) == IF path \in DOMAIN root /\ root[path].list THEN root[path].items ELSE <<>>

\* shamefullFileModeFix reads the decimal digits as octal ones; where they are
\* none, its error is ignored and the number stays.
Mode(n) ==
  LET digits == <<n \div 100, (n \div 10) % 10, n % 10>>
      mode == IF \A i \in 1..3 : digits[i] < 8
              THEN 64 * digits[1] + 8 * digits[2] + digits[3] ELSE n
  IN {i \in 0..8 : (mode \div 2^i) % 2 = 1}

\* The error of parseBindType is overwritten: an unknown type is HTTP.
BindOf(entry) ==
  [type |-> IF entry.type \in Types THEN entry.type ELSE "http",
   address |-> entry.address,
   mode |-> Mode(IF "mode" \in DOMAIN entry THEN entry.mode ELSE 666)]

Entries == Items(<<"protocol", "bind">>)
Binds == [i \in DOMAIN Entries |-> BindOf(Entries[i])]

InMethods(path) == Len(path) >= 2 /\ path[1] = "methods"
Methods == {path[2] : path \in {q \in DOMAIN root : InMethods(q)}}

\* Validate: the arguments use declared parameters only.
Valid(m) ==
  Range(Items(<<"methods", m, "invoke", "args">>)) \subseteq
    {path[4] : path \in {q \in DOMAIN root : Len(q) >= 4 /\ SubSeq(q, 1, 3) = <<"methods", m, "params">>}}

\* Broken: all methods of a kind share one record of limits.
MethodLimitsShared(m) ==
  LET streamed == Value(<<"methods", m, "streamed">>, FALSE)
      sizes == {Value(<<"methods", n, "limits", "max-response">>, -1) : n \in Methods} \ {-1}
  IN [streamed |-> streamed,
      size |-> IF sizes = {} THEN (IF streamed THEN 0 ELSE DefaultSize) ELSE CHOOSE s \in sizes : TRUE,
      timeout |-> 0]

\* Broken: a limit that is not set is taken as one.
MethodLimitsUnset(m) ==
  [streamed |-> Value(<<"methods", m, "streamed">>, FALSE),
   size |-> Value(<<"methods", m, "limits", "max-response">>, -1),
   timeout |-> Value(<<"methods", m, "limits", "exec-timeout">>, -1)]

\* newRupicolaProcessorFromConfig: a copy of the limits of the method's kind, and
\* then its own.  The limits section of the configuration has no part in it.
MethodLimits(m) ==
  LET streamed == Value(<<"methods", m, "streamed">>, FALSE)
      size == Value(<<"methods", m, "limits", "max-response">>, -1)
      timeout == Value(<<"methods", m, "limits", "exec-timeout">>, -1)
  IN [streamed |-> streamed,
      size |-> IF size >= 0 THEN size ELSE IF streamed THEN 0 ELSE DefaultSize,
      timeout |-> IF timeout >= 0 THEN timeout ELSE 0]

\* What ReadConfig, main and SetLogging ask for.
Accepted ==
  /\ \A m \in Methods : Valid(m)
  /\ Value(<<"log", "backend">>, "") \in Backends
  /\ Value(<<"log", "level">>, "warn") \in Levels
  /\ Value(<<"log", "backend">>, "") = "syslog" => "syslog" \notin world.faults
  /\ Methods # {}
  /\ Binds # <<>>

\* http.ServeMux.Handle does not take an empty pattern, nor one twice.
MuxPanics ==
  LET rpc == Value(<<"protocol", "uri", "rpc">>, "/jsonrpc")
      streamed == Value(<<"protocol", "uri", "streamed">>, "/streaming")
  IN rpc = streamed \/ "" \in {rpc, streamed}

-----------------------------------------------------------------------------
(* main.                                                                   *)

LoadFiles == Load /\ UNCHANGED <<startVars, table>>

Refuse ==
  /\ main = "config"
  /\ cfg = "failed" \/ (cfg = "ready" /\ ~Accepted)
  /\ Quit /\ main' = "exit1"
  /\ UNCHANGED <<loadVars, table>>

Panic ==
  /\ main = "config"
  /\ cfg = "panicked" \/ (cfg = "ready" /\ Accepted /\ MuxPanics)
  /\ Quit /\ main' = "panicked"
  /\ UNCHANGED <<loadVars, table>>

ListenAndServe ==
  /\ main = "config" /\ cfg = "ready" /\ Accepted /\ ~MuxPanics
  /\ Spawn(Binds)
  /\ table' = [m \in Methods |-> MethodLimits(m)]
  /\ UNCHANGED loadVars

Decide == Refuse \/ Panic \/ ListenAndServe

\* The configuration is not read again, whatever the signal.
Serving(step) == step /\ UNCHANGED <<loadVars, table>>

Next == LoadFiles \/ Decide \/ Serving(Run)

Spec == Init /\ [][Next]_vars

\* main, the goroutines of the binds and the signal handler go on while they
\* can; nobody owes a signal or a failure of Serve.
Fairness ==
  /\ WF_vars(LoadFiles \/ Decide)
  /\ WF_vars(Serving(\E b \in DOMAIN binds : Listen(b)))
  /\ WF_vars(Serving(Finish))
  /\ WF_vars(Serving(Handle))

FairSpec == Spec /\ Fairness

-----------------------------------------------------------------------------

\* The types of both parts, and of the limits.
TypeOK ==
  /\ LoadTypeOK /\ StartTypeOK
  /\ \A m \in DOMAIN table :
       table[m].streamed \in BOOLEAN /\ table[m].size \in Nat /\ table[m].timeout \in Nat

\* Without a cycle of includes a start is decided: the binds are started or the
\* program ends.  (With one the files are loaded for ever: there is no limit on
\* the depth.)
StartDecided == Acyclic => <>(main # "config")

LimitPath(m) == <<"methods", m, "limits", "max-response">>
SectionPath == <<"limits", "max-response">>

\* A method has a limit of its own.
Limited(m) ==
  LET p == LimitPath(m)
  IN  p \in DOMAIN root /\ ~root[p].list /\ root[p] # NoValue /\ root[p].items[1] >= 0

\* The loaded files with a value at a key path, and these values.
Giving(p) ==
  {i \in DOMAIN loaded :
     /\ p \in DOMAIN Document(loaded[i])
     /\ ~Document(loaded[i])[p].list /\ Document(loaded[i])[p] # NoValue}

Given(p) == {Document(loaded[i])[p].items[1] : i \in Giving(p)}

\* A method that the processor serves has a limit that some loaded file gives it, and
\* no other method's: without one of its own it has a limit of its kind.  Which file's
\* word and which of the defaults it is, see DocumentedLimits.
OwnLimit ==
  \A m \in DOMAIN table :
    table[m].size \in (IF Limited(m) THEN Given(LimitPath(m))
                       ELSE IF table[m].streamed THEN {0}
                       ELSE Given(SectionPath) \cup {DefaultSize})

-----------------------------------------------------------------------------
(* What the documentation says and the code does not do.                   *)

\* What the first of them says.
FirstGiven(p, default) ==
  IF Giving(p) = {} THEN default ELSE Document(loaded[Min(Giving(p))])[p].items[1]

\* "First ever appearance of method or any other definition is used", and the limits
\* section sets the "default limits for methods", whose limits are by default "from
\* global": so it is for the methods that are not streamed.
DocumentedLimits ==
  \A m \in DOMAIN table : ~table[m].streamed =>
    table[m].size = FirstGiven(LimitPath(m), FirstGiven(SectionPath, DefaultSize))

=============================================================================
