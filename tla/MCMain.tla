-------------------------------- MODULE MCMain --------------------------------
(* Main with small configurations: four files and a directory, and what is *)
(* in them.                                                                *)
EXTENDS Main

FileNames == {"main", "a", "b", "dir", "gone"}

\* Leaves of configuration files.
Http == [type |-> "http", address |-> "p1"]
Https == [type |-> "https", address |-> "p2"]
Unix1 == [type |-> "unix", address |-> "s1", mode |-> 660]
Unix2 == [type |-> "unix", address |-> "s2", mode |-> 600]
Odd == [type |-> "tcp", address |-> "p1", mode |-> 680]
Hidden == [type |-> "unix", address |-> "@s"]

BindList(list) == <<"protocol", "bind">> :> Leaf(list, TRUE)
Method(m, x) == <<"methods", m, "invoke", "exec">> :> Scalar(x)
Streamed(m) == <<"methods", m, "streamed">> :> Scalar(TRUE)
Limit(m, n) == <<"methods", m, "limits", "max-response">> :> Scalar(n)
Args(m, list) == <<"methods", m, "invoke", "args">> :> Leaf(list, TRUE)
Param(m, p) == <<"methods", m, "params", p, "type">> :> Scalar("int")
Setting(section, key, x) == <<section, key>> :> Scalar(x)

File(kind) == [kind |-> kind, entries |-> <<>>, include |-> <<>>, leaves |-> Empty]
Mapping(include, leaves) ==
  [kind |-> "mapping", entries |-> <<>>, include |-> include, leaves |-> leaves]
Directory(entries) ==
  [kind |-> "directory", entries |-> entries, include |-> <<>>, leaves |-> Empty]

Disk(m, a, b, dir) ==
  [p \in FileNames |-> CASE p = "main" -> m [] p = "a" -> a [] p = "b" -> b
                     [] p = "dir" -> dir [] p = "gone" -> File("missing")]

Opt(p) == [path |-> p, required |-> FALSE]
Req(p) == [path |-> p, required |-> TRUE]

Base == BindList(<<Unix1>>) @@ Method("m", "x") @@ Limit("m", 3)

\* Every way to include, with simple files.
Including ==
  {<<{Opt("a")}, {Opt("b")}>>, <<{Req("dir")}>>, <<{Opt("gone")}, {Req("b")}>>, <<{Req("gone")}>>,
   <<{Req("a"), Opt("gone")}>>, <<{Opt("a")}, {Opt("a")}>>}

A == Mapping(<<>>, BindList(<<Http>>) @@ Streamed("n"))
B == Mapping(<<>>, BindList(<<Unix2>>) @@ Limit("m", 5)
                   @@ Setting("log", "backend", "stdout"))
AIncludes(p) == [A EXCEPT !.include = <<{Req(p)}>>]
Dir == Directory(<<"a", "b", "dir", "main">>)

IncludeDisks == {Disk(Mapping(i, Base), A, B, Dir) : i \in Including}

\* Files and directories that are no good, included by a; cycles and diamonds.
BadDisks ==
  {Disk(Mapping(<<{Opt("a")}>>, Base), AIncludes("b"), File(k), Dir) : k \in Kinds \ {"mapping"}}
  \cup {Disk(File(k), A, B, Dir) : k \in {"directory", "missing"}}
  \cup {Disk(Mapping(<<{Opt("a")}>>, Base), AIncludes("main"), B, Dir),
        Disk(Mapping(<<{Opt("a")}, {Opt("b")}>>, Base), AIncludes("b"), B, Dir)}

\* Settings of one file that decide whether and how the server starts, or that
\* take the place of the main file's.
Leaves ==
  {<<"methods">> :> NoValue,
   Setting("log", "backend", "pigeon"), Setting("log", "backend", "syslog"),
   Setting("protocol", "uri", "x"),
   (<<"protocol", "uri", "rpc">> :> Scalar("/streaming")),
   Setting("log", "level", "loud"),
   Args("m", <<"p">>), Args("m", <<"p">>) @@ Param("m", "p"),
   <<"protocol", "bind">> :> NoValue,
   BindList(<<Https>>), BindList(<<Unix1, Odd>>), BindList(<<Hidden, Http>>), BindList(<<Unix2, Https>>)}

SettingDisks == {Disk(Mapping(<<{Opt("b")}>>, Base), A, Mapping(<<>>, l), Dir) : l \in Leaves}

\* Limits of the main file, of its limits section and of an included file, and a method
\* without a limit.
LimitDisk ==
  {Disk(Mapping(<<{Opt("b")}>>, Base @@ Method("n", "y") @@ Setting("limits", "max-response", 7)),
        A, B, Dir)}

AllDisks == LimitDisk \cup IncludeDisks \cup BadDisks \cup SettingDisks

Calm == [umask |-> {1, 4}, leftovers |-> {}, taken |-> {}, faults |-> {}]

Leftovers == [Calm EXCEPT !.leftovers = {"s1", "s2"}]

HardWorlds ==
  {Leftovers, [Calm EXCEPT !.faults = {"signal"}],
   [Calm EXCEPT !.faults = {"serve", "signal", "syslog"}], [Calm EXCEPT !.faults = {"chown", "cert"}],
   [Calm EXCEPT !.taken = {"s1", "p1"}]}

AllWorlds == {Calm} \cup HardWorlds

\* Disks whose binds meet everything: of two kinds, of one, twice the same address.
Binding == {Disk(Mapping(<<{Opt("b")}>>, Base), A, Mapping(<<>>, BindList(l)), Dir) :
              l \in {<<Http>>, <<Https>>, <<Unix2>>, <<Unix1>>, <<Hidden>>, <<Http, Unix2>>}}

HardDisks == Binding \cup {Disk(Mapping(<<>>, Base), A, B, Dir)}
             \cup {Disk(Mapping(<<{Opt("b")}>>, Base), A, Mapping(<<>>, l), Dir) :
                     l \in {Setting("log", "backend", "syslog")}}

UsedDisks == AllDisks \cup HardDisks

\* Every disk in a world without surprises, and a few disks in every world.
Scenes == <<disk, world>> \in (AllDisks \X {Calm}) \cup (HardDisks \X HardWorlds)

MCInit == Init /\ Scenes

MCSpec == MCInit /\ [][Next]_vars /\ Fairness

OneDisk == {Disk(Mapping(<<{Opt("b")}>>, Base), A, B, Dir)}
CalmWorld == {Calm}

Permissions == 0..8
SocketAddresses == {"p1", "p2", "s1", "s2", "@s"}

=============================================================================
