--------------------------------- MODULE Call ---------------------------------
(***************************************************************************)
(* What decides whether a request's command runs, and with which           *)
(* arguments: ServeHTTP, the parsing of the request, the search for its    *)
(* method, and MethodDef.prepareCommand with CheckParams and               *)
(* evalueateArgs.  CheckParams ranges over a map, so the order in which it *)
(* visits the parameters is any.                                           *)
(*                                                                         *)
(* A value is its kind and where it comes from.  An argument is a tree     *)
(* that evalueateArgs visits in preorder; here it is the sequence of the   *)
(* nodes visited, a "list" node being one with children.                   *)
(***************************************************************************)
EXTENDS Naturals, SequencesExt

CONSTANTS
  Names,  \* of parameters; "" and "self" mean more to evalueateArgs
  Calls   \* the requests, each with the server it meets, to consider

Types == {"string", "int", "bool"}
Kinds == {"string", "number", "bool", "null", "other"}   \* of JSON values

\* defaultVal.Raw(): "null" when there is none, or a map or a list.
Param == [type : Types, optional : BOOLEAN, default : {"string", "number", "bool", "null"}]

Node == [tag : {"static", "param", "phantom", "list"}, name : Names]

\* The parts of the configuration a decision depends on.
IsMethod(m) ==
  /\ DOMAIN m = {"streamed", "private", "params", "args"}
  /\ m.streamed \in BOOLEAN /\ m.private \in BOOLEAN
  /\ DOMAIN m.params \subseteq Names /\ \A n \in DOMAIN m.params : m.params[n] \in Param
  /\ m.args \in Seq(Seq(Node))

\* aggregateArgs and Validate: arguments use declared parameters only.
Validate(m) ==
  \A i \in DOMAIN m.args : \A j \in DOMAIN m.args[i] :
    m.args[i][j].tag \in {"param", "phantom"} =>
      m.args[i][j].name \in DOMAIN m.params \cup {"self"}

\* What ServeHTTP learns from the server and from the transport.
Entry == [post : BOOLEAN,      \* the HTTP method is POST
          big : BOOLEAN,       \* larger than the payload size, if there is one
          uri : {"rpc", "streamed", "other"},
          login : BOOLEAN,     \* AuthBasic is configured
          proven : BOOLEAN,    \* the client sends its login and password
          loopback : BOOLEAN,  \* the client's address
          private : BOOLEAN]   \* Bind.AllowPrivate

\* What ReadFrom makes of the body; "ok" is an object of the right types.
Bodies == {"ok", "syntax", "types", "params", "more"}

Body == [json : Bodies, version : {"2.0", "2.0+s", "other"}, named : BOOLEAN, known : BOOLEAN]

IsCall(c) ==
  /\ DOMAIN c = {"entry", "body", "given", "method"}
  /\ c.entry \in Entry /\ c.body \in Body
  /\ DOMAIN c.given \subseteq Names /\ \A n \in DOMAIN c.given : c.given[n] \in Kinds
  /\ IsMethod(c.method) /\ Validate(c.method)

ASSUME CallAssumption == {"", "self"} \subseteq Names /\ \A c \in Calls : IsCall(c)

VARIABLES
  call,     \* the request; it never changes
  pc,       \* the next decision
  params,   \* the request's parameters, as CheckParams completes them
  todo,     \* the declared parameters that the range has not visited
  outcome,  \* why the request ended, or "run"
  argv      \* the arguments of the command

vars == <<call, pc, params, todo, outcome, argv>>

Entered == call.entry
Method == call.method
Authorized == ~Entered.login \/ Entered.proven          \* isValidAuth
AllowPrivate == Entered.loopback /\ Entered.private

Init ==
  /\ call \in Calls
  /\ pc = "serve"
  /\ params = [n \in DOMAIN call.given |-> [kind |-> call.given[n], from |-> "given"]]
  /\ todo = DOMAIN call.method.params
  /\ outcome = "none"
  /\ argv = <<>>

End(why) ==
  /\ pc' = "end" /\ outcome' = why
  /\ UNCHANGED <<call, params, todo, argv>>

Proceed(step) ==
  /\ pc' = step
  /\ UNCHANGED <<call, params, todo, outcome, argv>>

-----------------------------------------------------------------------------
(* ServeHTTP and what the processor does with the request.                 *)

ServeHTTP ==
  /\ pc = "serve"
  /\ \/ ~Entered.post /\ End("not allowed")
     \/ Entered.post /\ Entered.big /\ End("too big")
     \/ Entered.post /\ ~Entered.big /\ Entered.uri = "other" /\ End("ignored")
     \/ /\ Entered.post /\ ~Entered.big /\ Entered.uri # "other"
        /\ IF Authorized \/ AllowPrivate THEN Proceed("read") ELSE End("unauthorized")

\* ReadFrom
ReadFrom ==
  /\ pc = "read"
  /\ \/ call.body.json = "syntax" /\ End("parse error")
     \/ call.body.json \in {"types", "params"} /\ End("invalid request")
     \/ call.body.json = "more" /\ End("batch")
     \/ call.body.json = "ok" /\ Proceed("find")

\* isValid and jsonRpcProcessor.method: a method answers on the path of its
\* kind only, whatever version the request says.
FindMethod ==
  /\ pc = "find"
  /\ \/ ~(call.body.version # "other" /\ call.body.named) /\ End("invalid request")
     \/ /\ call.body.version # "other" /\ call.body.named
        /\ IF call.body.known /\ (Method.streamed <=> Entered.uri = "streamed")
             THEN Proceed("authorize") ELSE End("not found")

-----------------------------------------------------------------------------
(* prepareCommand.                                                         *)

\* Broken: on the loopback every method runs.
AuthorizeAnyPrivate ==
  /\ pc = "authorize"
  /\ IF ~Authorized /\ ~AllowPrivate THEN End("unauthorized") ELSE Proceed("check")

Authorize ==
  /\ pc = "authorize"
  /\ IF ~Authorized /\ (~AllowPrivate \/ ~Method.private)
       THEN End("unauthorized") ELSE Proceed("check")

\* Broken: a parameter without a default gets null.
DefaultValueRaw(p) == [kind |-> p.default, from |-> "default"]

\* MethodParam.defaultVal, else MethodParamType.defaultValue.
DefaultValue(p) ==
  [kind |-> IF p.default # "null" THEN p.default
            ELSE IF p.type = "int" THEN "number" ELSE p.type,
   from |-> "default"]

\* Broken: a value is taken for one of any declared type.
FitsAny(kind, type) == kind \in {"string", "number", "bool"}

Fits(kind, type) == kind = (IF type = "int" THEN "number" ELSE type)

\* Broken: a missing parameter is refused, be it optional or not.
CheckParamRequiresAll ==
  /\ pc = "check"
  /\ \E n \in todo :
       LET p == Method.params[n] IN
       \/ /\ n \in DOMAIN params /\ Fits(params[n].kind, p.type)
          /\ todo' = todo \ {n}
          /\ UNCHANGED <<call, pc, params, outcome, argv>>
       \/ /\ n \in DOMAIN params => ~Fits(params[n].kind, p.type)
          /\ End("invalid params")

\* Broken: the default takes the place of a value that is there.
CheckParamPrefersDefault ==
  /\ pc = "check"
  /\ \E n \in todo :
       LET p == Method.params[n] IN
       \/ /\ n \notin DOMAIN params /\ ~p.optional
          /\ End("invalid params")
       \/ /\ p.optional
          /\ params' = [m \in DOMAIN params \cup {n} |->
                          IF m = n THEN DefaultValue(p) ELSE params[m]]
          /\ pc' = "args"
          /\ UNCHANGED <<call, todo, outcome, argv>>
       \/ /\ n \in DOMAIN params /\ ~p.optional /\ Fits(params[n].kind, p.type)
          /\ todo' = todo \ {n}
          /\ UNCHANGED <<call, pc, params, outcome, argv>>

\* One turn of CheckParams' loop.  A missing optional parameter gets its
\* default, and ends the loop with success.  A null has no reflect.Type: the
\* panic makes Invoke return nil, which is a success without a result.
CheckParam ==
  /\ pc = "check"
  /\ \E n \in todo :
       LET p == Method.params[n] IN
       \/ /\ n \notin DOMAIN params /\ ~p.optional
          /\ End("invalid params")
       \/ /\ n \notin DOMAIN params /\ p.optional
          /\ params' = [m \in DOMAIN params \cup {n} |->
                          IF m = n THEN DefaultValue(p) ELSE params[m]]
          /\ pc' = "args"
          /\ UNCHANGED <<call, todo, outcome, argv>>
       \/ /\ n \in DOMAIN params /\ params[n].kind = "null"
          /\ End("panic")
       \/ /\ n \in DOMAIN params /\ params[n].kind # "null"
          /\ ~Fits(params[n].kind, p.type)
          /\ End("invalid params")
       \/ /\ n \in DOMAIN params /\ Fits(params[n].kind, p.type)
          /\ todo' = todo \ {n}
          /\ UNCHANGED <<call, pc, params, outcome, argv>>

CheckEnd == pc = "check" /\ todo = {} /\ Proceed("args")

Token(from, n) == <<[from |-> from, name |-> n]>>

\* What evalueateArgs writes for one node.  A list asks for the parameter
\* whose name is empty, as a list has none.
Word(node, ps) ==
  CASE node.tag = "static"                                        -> Token("static", node.name)
    [] node.tag = "phantom"                                       -> <<>>
    [] node.tag \in {"param", "list"} /\ node.name = "self"       -> Token("self", "self")
    [] node.tag \in {"param", "list"} /\ node.name # "self"       ->
         IF node.name \in DOMAIN ps /\ ps[node.name].kind # "null"
           THEN Token(ps[node.name].from, node.name) ELSE <<>>

\* A phantom whose parameter is missing takes its whole argument with it.
Skips(node, ps) == node.tag = "phantom" /\ node.name \notin DOMAIN ps \cup {"self"}

Kept(arg, ps) == \A i \in DOMAIN arg : ~Skips(arg[i], ps)

Argument(arg, ps) == FlattenSeq([i \in DOMAIN arg |-> Word(arg[i], ps)])

\* The loop over InvokeInfo.Args appends what is not skipped, and the command is
\* ready.
EvalueateArgs ==
  /\ pc = "args"
  /\ argv' = FlattenSeq([i \in DOMAIN Method.args |->
                 IF Kept(Method.args[i], params) THEN <<Argument(Method.args[i], params)>> ELSE <<>>])
  /\ pc' = "end" /\ outcome' = "run"
  /\ UNCHANGED <<call, params, todo>>

Next ==
  ServeHTTP \/ ReadFrom \/ FindMethod \/ Authorize \/ CheckParam \/ CheckEnd \/ EvalueateArgs

Spec == Init /\ [][Next]_vars

-----------------------------------------------------------------------------

Outcomes == {"none", "not allowed", "too big", "ignored", "unauthorized", "parse error",
             "invalid request", "batch", "not found", "invalid params", "panic", "run"}

\* Every variable has a value of its type; a default is never null.
TypeOK ==
  /\ IsCall(call)
  /\ pc \in {"serve", "read", "find", "authorize", "check", "args", "end"}
  /\ DOMAIN params \subseteq Names
  /\ \A n \in DOMAIN params : \/ params[n] \in [kind : Kinds, from : {"given"}]
                              \/ params[n] \in [kind : Kinds \ {"null", "other"}, from : {"default"}]
  /\ todo \subseteq DOMAIN call.method.params
  /\ outcome \in Outcomes
  /\ argv \in Seq(Seq([from : {"static", "self", "given", "default"}, name : Names]))

\* A command runs only for a client that has proven itself, or is local at a
\* bind point for local clients and asks for a private method; and only on
\* the path of the method's kind.  This is the rule of prepareCommand, where
\* `private` lets local clients in without a login and keeps nobody out; the
\* README has both that ("only exception ...") and "to force only local access".
OnlyEntitledRun ==
  outcome = "run" =>
    /\ \/ ~Entered.login \/ Entered.proven
       \/ Entered.loopback /\ Entered.private /\ Method.private
    /\ Entered.uri = IF Method.streamed THEN "streamed" ELSE "rpc"

Good(n) == /\ n \in DOMAIN call.given
           /\ call.given[n] \in {"string", "number", "bool"}
           /\ Method.params[n].type = (IF call.given[n] = "number" THEN "int" ELSE call.given[n])

\* When no optional parameter is missing, a command runs with parameters that
\* are all there and of their types, in whatever order they are checked.
CheckedWhenComplete ==
  outcome = "run" /\ (\A n \in DOMAIN Method.params : n \in DOMAIN call.given \/ ~Method.params[n].optional)
    => \A n \in DOMAIN Method.params : Good(n)

\* A request is refused for its parameters, or lost in a panic, only if one of
\* them is wrong, or is required and missing.
RefusedForAReason ==
  /\ outcome = "invalid params" =>
       \E n \in DOMAIN Method.params :
         ~Good(n) /\ (n \in DOMAIN call.given \/ ~Method.params[n].optional)
  /\ outcome = "panic" => \E n \in DOMAIN call.given : call.given[n] = "null"

\* What the client gave for a parameter is what its arguments have for it, and
\* defaults stand in for missing parameters only.
GivenValuesReachCommand ==
  outcome = "run" =>
    /\ \A i \in DOMAIN argv : \A j \in DOMAIN argv[i] :
         /\ argv[i][j].from = "given" => argv[i][j].name \in DOMAIN call.given
         /\ argv[i][j].from = "default" => argv[i][j].name \notin DOMAIN call.given
    /\ \A i \in DOMAIN Method.args : \A j \in DOMAIN Method.args[i] :
         LET node == Method.args[i][j] IN
         /\ node.tag = "param" /\ node.name \in DOMAIN call.given \ {"self"}
         /\ \A k \in DOMAIN Method.args[i] :
              Method.args[i][k].tag = "phantom" => Method.args[i][k].name \in DOMAIN call.given
         /\ call.given[node.name] # "null"
         => \E l \in DOMAIN argv : [from |-> "given", name |-> node.name] \in Range(argv[l])

-----------------------------------------------------------------------------
(* What the comment of CheckParams says and the code does not do.          *)

\* "CheckParams ensures that all required paramters are present and have valid
\* type": before a command runs.
RequiredChecked ==
  outcome = "run" => \A n \in DOMAIN Method.params : Method.params[n].optional \/ Good(n)

=============================================================================
