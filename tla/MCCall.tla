-------------------------------- MODULE MCCall --------------------------------
(* Call on a few servers, methods and requests: every entry with one method, *)
(* and every set of parameters with an ordinary entry.                       *)
EXTENDS Call, TLC

ParamNames == {"", "self", "a", "b", "c"}

Open == [post |-> TRUE, big |-> FALSE, uri |-> "rpc", login |-> FALSE, proven |-> FALSE,
         loopback |-> FALSE, private |-> FALSE]

Usual == [json |-> "ok", version |-> "2.0", named |-> TRUE, known |-> TRUE]

static   == [tag |-> "static", name |-> "a"]
list     == [tag |-> "list", name |-> ""]
param(n) == [tag |-> "param", name |-> n]
phantom(n) == [tag |-> "phantom", name |-> n]

\* a required string, an optional number with a default, an optional switch.
Declared == "a" :> [type |-> "string", optional |-> FALSE, default |-> "null"]
            @@ "b" :> [type |-> "int", optional |-> TRUE, default |-> "number"]
            @@ "c" :> [type |-> "bool", optional |-> TRUE, default |-> "null"]

Arguments == << <<param("a")>>, <<list, static, param("b")>>, <<list, phantom("c"), static>>,
                <<param("self")>> >>

Bare == [streamed |-> FALSE, private |-> FALSE, params |-> <<>>, args |-> << <<static>> >>]
Full == [Bare EXCEPT !.params = Declared, !.args = Arguments]
Required == [Full EXCEPT !.params["b"].optional = FALSE, !.params["c"].optional = FALSE]

Optional == [Full EXCEPT !.params["a"].optional = TRUE,
                         !.args = Append(Arguments, <<list, param("a"), list, phantom("b")>>)]

Entries == {[entry |-> e, body |-> b, given |-> <<>>,
             method |-> [Bare EXCEPT !.streamed = s, !.private = p]] :
              e \in Entry, s \in BOOLEAN, p \in BOOLEAN,
              b \in {Usual, [Usual EXCEPT !.known = FALSE]}}

Broken == {[entry |-> Open, body |-> b, given |-> <<>>, method |-> Bare] : b \in Body}

\* Every choice of present parameters, of right and of wrong kinds.
Given == UNION {[S -> Kinds] : S \in SUBSET {"a", "b", "c"}}
         \cup {"" :> "string" @@ "a" :> "string"}

Parameters == {[entry |-> Open, body |-> Usual, given |-> g, method |-> m] :
                 g \in Given, m \in {Full, Required, Optional}}

AllCalls == Entries \cup Broken \cup Parameters

=============================================================================
