------------------------------ MODULE CallProofs ------------------------------
(***************************************************************************)
(* Theorems about Call, for any server, any request and any order in which *)
(* the parameters are checked.                                             *)
(***************************************************************************)
EXTENDS Call, SequenceLemmas

\* The decisions that come before the one at hand, and the outcome.
Beyond(steps) == pc \in steps \/ outcome = "run"

Admitted == Authorized \/ AllowPrivate

Entitled == Authorized \/ (AllowPrivate /\ Method.private)

\* Whoever gets past a decision has the right to.
Gates ==
  /\ Beyond({"read", "find", "authorize", "check", "args"}) => Entered.uri \in {"rpc", "streamed"}
  /\ Beyond({"authorize", "check", "args"}) => (Method.streamed <=> Entered.uri = "streamed")
  /\ Beyond({"check", "args"}) => Entitled

GivenParams == [n \in DOMAIN call.given |-> [kind |-> call.given[n], from |-> "given"]]

Complete == \A n \in DOMAIN Method.params : n \in DOMAIN call.given \/ ~Method.params[n].optional

\* Until the loop has ended the parameters are the given ones, and those it
\* has visited are good.
Visited ==
  /\ pc \in {"serve", "read", "find", "authorize", "check"} =>
       /\ params = GivenParams
       /\ \A n \in DOMAIN Method.params \ todo : Good(n)
  /\ Beyond({"args"}) => (Complete => \A n \in DOMAIN Method.params : Good(n))

IInv ==
  /\ call \in Calls
  /\ pc # "end" => outcome = "none"
  /\ todo \subseteq DOMAIN Method.params
  /\ Gates
  /\ Visited
  /\ RefusedForAReason

-----------------------------------------------------------------------------

\* A value that fits its declared type is good, and no other value is: what
\* the switch of CheckParams accepts.
LEMMA FitsIsGood ==
  ASSUME IsCall(call), NEW n \in DOMAIN Method.params, n \in DOMAIN call.given
  PROVE  Good(n) <=> Fits(call.given[n], Method.params[n].type)
<1>1. Method.params[n].type \in {"string", "int", "bool"}
  BY DEF IsCall, IsMethod, Method, Param, Types
<1> QED BY <1>1 DEF Good, Fits

\* The invariant holds at first.
LEMMA InitIInv == Init => IInv
BY DEF Init, IInv, Gates, Visited, GivenParams, Method, Beyond, RefusedForAReason

\* Every decision preserves the invariant.
LEMMA NextIInv == IInv /\ [Next]_vars => IInv'
<1> SUFFICES ASSUME IInv, [Next]_vars PROVE IInv'
  OBVIOUS
<1> USE DEF Beyond
<1>0. IsCall(call)
  BY CallAssumption DEF IInv
<1>1. CASE ServeHTTP
  <2>1. call' = call /\ params' = params /\ todo' = todo
    BY <1>1 DEF ServeHTTP, End, Proceed
  <2>2. \/ pc' = "read" /\ outcome' = outcome
        \/ pc' = "end" /\ outcome' \in {"not allowed", "too big", "ignored", "unauthorized"}
    BY <1>1 DEF ServeHTTP, End, Proceed
  <2>3. pc = "serve" /\ outcome = "none"
    BY <1>1 DEF ServeHTTP, IInv
  <2>4. pc' = "read" => Entered.uri \in {"rpc", "streamed"}
    <3>1. Entered.uri \in {"rpc", "streamed", "other"}
      BY <1>0 DEF IsCall, Entry, Entered
    <3> QED BY <1>1, <3>1 DEF ServeHTTP, End, Proceed
  <2>5. Gates'
    BY <2>1, <2>2, <2>3, <2>4 DEF Gates, Entered, Method
  <2>6. Visited'
    BY <2>1, <2>2, <2>3 DEF IInv, Visited, GivenParams, Complete, Good, Method
  <2>7. RefusedForAReason'
    BY <2>1, <2>2, <2>3 DEF RefusedForAReason
  <2> QED BY <2>1, <2>2, <2>3, <2>5, <2>6, <2>7 DEF IInv, Method
<1>2. CASE ReadFrom
  <2>1. call' = call /\ params' = params /\ todo' = todo
    BY <1>2 DEF ReadFrom, End, Proceed
  <2>2. \/ pc' = "find" /\ outcome' = outcome
        \/ pc' = "end" /\ outcome' \in {"parse error", "invalid request", "batch"}
    BY <1>2 DEF ReadFrom, End, Proceed
  <2>3. pc = "read" /\ outcome = "none"
    BY <1>2 DEF ReadFrom, IInv
  <2>5. Gates'
    BY <2>1, <2>2, <2>3 DEF IInv, Gates, Entered, Method
  <2>6. Visited'
    BY <2>1, <2>2, <2>3 DEF IInv, Visited, GivenParams, Complete, Good, Method
  <2>7. RefusedForAReason'
    BY <2>1, <2>2, <2>3 DEF RefusedForAReason
  <2> QED BY <2>1, <2>2, <2>3, <2>5, <2>6, <2>7 DEF IInv, Method
<1>3. CASE FindMethod
  <2>1. call' = call /\ params' = params /\ todo' = todo
    BY <1>3 DEF FindMethod, End, Proceed
  <2>2. \/ /\ pc' = "authorize" /\ outcome' = outcome
           /\ Method.streamed <=> Entered.uri = "streamed"
        \/ pc' = "end" /\ outcome' \in {"invalid request", "not found"}
    BY <1>3 DEF FindMethod, End, Proceed
  <2>3. pc = "find" /\ outcome = "none"
    BY <1>3 DEF FindMethod, IInv
  <2>5. Gates'
    BY <2>1, <2>2, <2>3 DEF IInv, Gates, Entered, Method
  <2>6. Visited'
    BY <2>1, <2>2, <2>3 DEF IInv, Visited, GivenParams, Complete, Good, Method
  <2>7. RefusedForAReason'
    BY <2>1, <2>2, <2>3 DEF RefusedForAReason
  <2> QED BY <2>1, <2>2, <2>3, <2>5, <2>6, <2>7 DEF IInv, Method
<1>4. CASE Authorize
  <2>1. call' = call /\ params' = params /\ todo' = todo
    BY <1>4 DEF Authorize, End, Proceed
  <2>2. \/ pc' = "check" /\ outcome' = outcome /\ Entitled
        \/ pc' = "end" /\ outcome' = "unauthorized"
    BY <1>4 DEF Authorize, End, Proceed, Entitled
  <2>3. pc = "authorize" /\ outcome = "none"
    BY <1>4 DEF Authorize, IInv
  <2>5. Gates'
    BY <2>1, <2>2, <2>3 DEF IInv, Gates, Entered, Method, Entitled, Authorized, AllowPrivate
  <2>6. Visited'
    BY <2>1, <2>2, <2>3 DEF IInv, Visited, GivenParams, Complete, Good, Method
  <2>7. RefusedForAReason'
    BY <2>1, <2>2, <2>3 DEF RefusedForAReason
  <2> QED BY <2>1, <2>2, <2>3, <2>5, <2>6, <2>7 DEF IInv, Method
<1>5. CASE CheckParam
  <2>0. pc = "check" /\ outcome = "none" /\ params = GivenParams
    BY <1>5 DEF CheckParam, IInv, Visited
  <2>1. PICK n \in todo :
          LET p == Method.params[n] IN
          \/ n \notin DOMAIN params /\ ~p.optional /\ End("invalid params")
          \/ /\ n \notin DOMAIN params /\ p.optional
             /\ pc' = "args"
             /\ UNCHANGED <<call, todo, outcome, argv>>
          \/ n \in DOMAIN params /\ params[n].kind = "null" /\ End("panic")
          \/ /\ n \in DOMAIN params /\ ~Fits(params[n].kind, p.type)
             /\ End("invalid params")
          \/ /\ n \in DOMAIN params /\ Fits(params[n].kind, p.type)
             /\ todo' = todo \ {n}
             /\ UNCHANGED <<call, pc, params, outcome, argv>>
    BY <1>5 DEF CheckParam
  <2>2. n \in DOMAIN Method.params
    BY DEF IInv
  <2>3. /\ DOMAIN params = DOMAIN call.given
        /\ n \in DOMAIN call.given =>
             /\ params[n].kind = call.given[n]
             /\ Good(n) <=> Fits(params[n].kind, Method.params[n].type)
    BY <1>0, <2>0, <2>2, FitsIsGood DEF GivenParams
  <2>4. call' = call
    BY <2>1 DEF End
  <2>5. CASE pc' = "end" /\ outcome' \in {"invalid params", "panic"}
    <3>1. RefusedForAReason'
      BY <2>0, <2>1, <2>2, <2>3, <2>4, <2>5 DEF RefusedForAReason, Method, Good, End
    <3>2. todo' = todo
      BY <2>0, <2>1, <2>5 DEF End
    <3> QED BY <2>4, <2>5, <3>1, <3>2 DEF IInv, Gates, Visited, Method
  <2>6. CASE pc' = "args" /\ outcome' = "none" /\ todo' = todo /\ n \notin DOMAIN call.given
                          /\ Method.params[n].optional
    <3>1. ~Complete
      BY <2>2, <2>6 DEF Complete
    <3>2. Gates'
      BY <2>0, <2>4, <2>6 DEF IInv, Gates, Entered, Method, Entitled, Authorized, AllowPrivate
    <3>3. Visited'
      BY <2>4, <2>6, <3>1 DEF Visited, Complete, Method
    <3> QED BY <2>4, <2>6, <3>2, <3>3 DEF IInv, Method, RefusedForAReason
  <2>7. CASE /\ pc' = "check" /\ outcome' = "none" /\ params' = params
             /\ todo' = todo \ {n} /\ Good(n)
    <3>1. Gates'
      BY <2>0, <2>4, <2>7 DEF IInv, Gates, Entered, Method, Entitled, Authorized, AllowPrivate
    <3>2. Visited'
      BY <2>0, <2>4, <2>7 DEF IInv, Visited, GivenParams, Good, Method
    <3> QED BY <2>4, <2>7, <3>1, <3>2 DEF IInv, Method, RefusedForAReason
  <2> QED
    BY <2>0, <2>1, <2>3, <2>5, <2>6, <2>7 DEF End
<1>6. CASE CheckEnd
  <2>1. /\ call' = call /\ todo' = todo /\ todo = {}
        /\ pc = "check" /\ pc' = "args" /\ outcome = "none" /\ outcome' = "none"
    BY <1>6 DEF CheckEnd, Proceed, IInv
  <2>2. Gates'
    BY <2>1 DEF IInv, Gates, Entered, Method, Entitled, Authorized, AllowPrivate
  <2>3. Visited'
    BY <2>1 DEF IInv, Visited, Complete, Good, Method
  <2> QED BY <2>1, <2>2, <2>3 DEF IInv, Method, RefusedForAReason
<1>7. CASE EvalueateArgs
  <2>1. /\ call' = call /\ todo' = todo
        /\ pc = "args" /\ pc' = "end" /\ outcome' = "run"
    BY <1>7 DEF EvalueateArgs
  <2>2. Gates'
    BY <2>1 DEF IInv, Gates, Entered, Method, Entitled, Authorized, AllowPrivate
  <2>3. Visited'
    BY <2>1 DEF IInv, Visited, Complete, Good, Method
  <2> QED BY <2>1, <2>2, <2>3 DEF IInv, Method, RefusedForAReason
<1>8. CASE UNCHANGED vars
  BY <1>8 DEF vars, IInv, Gates, Visited, RefusedForAReason, GivenParams, Complete, Good,
              Entered, Method, Entitled, Authorized, AllowPrivate
<1> QED BY <1>1, <1>2, <1>3, <1>4, <1>5, <1>6, <1>7, <1>8 DEF Next

LEMMA Invariance == Spec => []IInv
BY InitIInv, NextIInv, PTL DEF Spec

-----------------------------------------------------------------------------

\* prepareCommand and ServeHTTP together let no one run what they may not.
THEOREM EntitledOnly == Spec => []OnlyEntitledRun
<1>1. IInv => OnlyEntitledRun
  <2> SUFFICES ASSUME IInv, outcome = "run" PROVE OnlyEntitledRun
    BY DEF OnlyEntitledRun
  <2> QED BY DEF IInv, Gates, Beyond, OnlyEntitledRun, Entitled, Authorized, AllowPrivate
<1> QED BY <1>1, Invariance, PTL

\* CheckParams keeps its word in every order of its map when no optional
\* parameter is missing.
THEOREM CompleteIsChecked == Spec => []CheckedWhenComplete
<1>1. IInv => CheckedWhenComplete
  BY DEF IInv, Visited, Beyond, Complete, CheckedWhenComplete
<1> QED BY <1>1, Invariance, PTL

\* CheckParams refuses nothing without a reason.
THEOREM RefusalHasReason == Spec => []RefusedForAReason
<1>1. IInv => RefusedForAReason
  BY DEF IInv
<1> QED BY <1>1, Invariance, PTL

-----------------------------------------------------------------------------
(* The values: parameters and arguments.                                    *)

CommandArgs ==
  FlattenSeq([i \in DOMAIN Method.args |->
                IF Kept(Method.args[i], params) THEN <<Argument(Method.args[i], params)>> ELSE <<>>])

\* CheckParams adds defaults and leaves alone what is there.
Values ==
  /\ pc \in {"serve", "read", "find", "authorize", "check", "args", "end"}
  /\ outcome \in Outcomes
  /\ DOMAIN call.given \subseteq DOMAIN params /\ DOMAIN params \subseteq Names
  /\ \A n \in DOMAIN params :
       IF n \in DOMAIN call.given
         THEN params[n] = [kind |-> call.given[n], from |-> "given"]
         ELSE params[n] \in [kind : {"string", "number", "bool"}, from : {"default"}]
  /\ argv = IF outcome = "run" THEN CommandArgs ELSE <<>>

LEMMA InitValues == Init => Values
<1> SUFFICES ASSUME Init PROVE Values
  OBVIOUS
<1>1. IsCall(call)
  BY CallAssumption DEF Init
<1> QED BY <1>1 DEF Init, Values, IsCall, Outcomes

LEMMA NextValues == IInv /\ Values /\ [Next]_vars => Values'
<1> SUFFICES ASSUME IInv, Values, [Next]_vars PROVE Values'
  OBVIOUS
<1>0. IsCall(call)
  BY CallAssumption DEF IInv
<1>1. ASSUME NEW why \in Outcomes \ {"none", "run"}, End(why), outcome = "none" PROVE Values'
  BY <1>1 DEF End, Values, Outcomes
<1>2. ASSUME NEW step \in {"read", "find", "authorize", "check", "args"}, Proceed(step)
      PROVE  Values'
  BY <1>2 DEF Proceed, Values, CommandArgs, Method
<1>3. CASE ServeHTTP \/ ReadFrom \/ FindMethod \/ Authorize \/ CheckEnd
  <2>1. outcome = "none"
    BY <1>3 DEF IInv, ServeHTTP, ReadFrom, FindMethod, Authorize, CheckEnd
  <2>2. \/ \E why \in Outcomes \ {"none", "run"} : End(why)
        \/ \E step \in {"read", "find", "authorize", "check", "args"} : Proceed(step)
    BY <1>3 DEF ServeHTTP, ReadFrom, FindMethod, Authorize, CheckEnd, Outcomes
  <2> QED BY <1>1, <1>2, <2>1, <2>2
<1>4. CASE CheckParam
  <2>1. outcome = "none"
    BY <1>4 DEF IInv, CheckParam
  <2>2. PICK n \in todo :
          \/ End("invalid params") \/ End("panic")
          \/ /\ n \notin DOMAIN params
             /\ params' = [m \in DOMAIN params \cup {n} |->
                             IF m = n THEN DefaultValue(Method.params[n]) ELSE params[m]]
             /\ pc' = "args"
             /\ UNCHANGED <<call, todo, outcome, argv>>
          \/ UNCHANGED <<call, pc, params, outcome, argv>>
    BY <1>4 DEF CheckParam
  <2>3. n \in Names /\ Method.params[n] \in Param
    BY <1>0 DEF IInv, IsCall, IsMethod, Method
  <2>4. DefaultValue(Method.params[n]) \in [kind : {"string", "number", "bool"}, from : {"default"}]
    BY <2>3 DEF DefaultValue, Param, Types
  <2>5. CASE End("invalid params") \/ End("panic")
    BY <1>1, <2>1, <2>5 DEF Outcomes
  <2>6. CASE /\ n \notin DOMAIN params
             /\ params' = [m \in DOMAIN params \cup {n} |->
                             IF m = n THEN DefaultValue(Method.params[n]) ELSE params[m]]
             /\ pc' = "args"
             /\ UNCHANGED <<call, todo, outcome, argv>>
    <3>1. DOMAIN call.given \subseteq DOMAIN params /\ n \notin DOMAIN call.given
      BY <2>6 DEF Values
    <3>2. \A m \in DOMAIN params' :
            IF m \in DOMAIN call.given
              THEN params'[m] = [kind |-> call.given[m], from |-> "given"]
              ELSE params'[m] \in [kind : {"string", "number", "bool"}, from : {"default"}]
      <4> HIDE DEF DefaultValue
      <4> QED BY <2>4, <2>6, <3>1 DEF Values
    <3> QED BY <2>1, <2>3, <2>6, <3>1, <3>2 DEF Values
  <2>7. CASE UNCHANGED <<call, pc, params, outcome, argv>>
    BY <2>7 DEF Values, CommandArgs, Method
  <2> QED BY <2>2, <2>5, <2>6, <2>7
<1>5. CASE EvalueateArgs
  <2>1. /\ UNCHANGED <<call, params, todo>> /\ pc' = "end" /\ outcome' = "run"
        /\ argv' = CommandArgs
    BY <1>5 DEF EvalueateArgs, CommandArgs
  <2>2. CommandArgs' = CommandArgs
    BY <2>1 DEF CommandArgs, Method
  <2> QED BY <2>1, <2>2 DEF Values, Outcomes
<1>6. CASE UNCHANGED vars
  BY <1>6 DEF vars, Values, CommandArgs, Method
<1> QED BY <1>3, <1>4, <1>5, <1>6 DEF Next

LEMMA ValuesInvariance == Spec => [](IInv /\ Values)
BY InitIInv, NextIInv, InitValues, NextValues, PTL DEF Spec

\* What a node of an argument gives, and what its whole argument is made of.
ArgumentToken == [from : {"static", "self", "given", "default"}, name : Names]

LEMMA WordType ==
  ASSUME IsCall(call), Values, NEW node \in Node
  PROVE  Word(node, params) \in Seq(ArgumentToken)
<1>1. {"", "self"} \subseteq Names
  BY CallAssumption
<1>2. CASE node.tag = "phantom"
  BY <1>2 DEF Word
<1>3. CASE node.tag = "static"
  <2>1. [from |-> "static", name |-> node.name] \in ArgumentToken
    BY DEF Node, ArgumentToken
  <2> QED BY <1>3, <2>1 DEF Word, Token
<1>4. CASE node.tag \in {"param", "list"} /\ node.name = "self"
  <2>1. [from |-> "self", name |-> "self"] \in ArgumentToken
    BY <1>1 DEF ArgumentToken
  <2> QED BY <1>4, <2>1 DEF Word, Token
<1>5. CASE node.tag \in {"param", "list"} /\ node.name # "self"
  <2>1. Word(node, params) = IF node.name \in DOMAIN params /\ params[node.name].kind # "null"
                             THEN Token(params[node.name].from, node.name) ELSE <<>>
    BY <1>5 DEF Word
  <2>2. node.name \in DOMAIN params =>
          [from |-> params[node.name].from, name |-> node.name] \in ArgumentToken
    BY DEF Values, Node, ArgumentToken
  <2> QED BY <2>1, <2>2 DEF Token
<1> QED BY <1>2, <1>3, <1>4, <1>5 DEF Node

LEMMA ArgumentParts ==
  ASSUME IsCall(call), Values, NEW arg \in Seq(Node)
  PROVE  /\ Argument(arg, params) \in Seq(ArgumentToken)
         /\ \A t : t \in Range(Argument(arg, params))
                     <=> \E i \in DOMAIN arg : t \in Range(Word(arg[i], params))
<1> DEFINE words == [i \in DOMAIN arg |-> Word(arg[i], params)]
<1>1. Len(arg) \in Nat /\ DOMAIN arg = 1..Len(arg) /\ \A i \in DOMAIN arg : arg[i] \in Node
  BY LenProperties, ElementOfSeq
<1>2. words \in [1..Len(arg) -> Seq(ArgumentToken)]
  BY <1>1, WordType
<1>3. words \in Seq(Seq(ArgumentToken)) /\ DOMAIN words = DOMAIN arg
  <2> HIDE DEF words
  <2> QED BY <1>1, <1>2, FunctionIsSeq
<1>4. Argument(arg, params) = FlattenSeq(words)
  BY DEF Argument
<1>5. \A i \in DOMAIN arg : words[i] = Word(arg[i], params)
  OBVIOUS
<1> HIDE DEF words
<1>6. FlattenSeq(words) \in Seq(ArgumentToken)
  BY <1>3, FlattenType
<1>7. ASSUME NEW t
      PROVE  t \in Range(FlattenSeq(words)) <=> \E i \in DOMAIN arg : t \in Range(Word(arg[i], params))
  <2>1. t \in Range(FlattenSeq(words)) <=> \E i \in DOMAIN words : t \in Range(words[i])
    BY <1>3, FlattenRange
  <2> QED BY <1>3, <1>5, <2>1
<1> QED BY <1>4, <1>6, <1>7

\* The arguments of the command are those of the method that are kept.
LEMMA CommandParts ==
  ASSUME IsCall(call), Values
  PROVE  /\ CommandArgs \in Seq(Seq(ArgumentToken))
         /\ \A a : a \in Range(CommandArgs)
                     <=> \E i \in DOMAIN Method.args :
                           Kept(Method.args[i], params) /\ a = Argument(Method.args[i], params)
<1> DEFINE args == Method.args
           Part(i) == IF Kept(args[i], params) THEN <<Argument(args[i], params)>> ELSE <<>>
           parts == [i \in DOMAIN args |-> Part(i)]
<1>0. args \in Seq(Seq(Node))
  BY DEF IsCall, IsMethod, Method
<1>1. Len(args) \in Nat /\ DOMAIN args = 1..Len(args) /\ \A i \in DOMAIN args : args[i] \in Seq(Node)
  <2> HIDE DEF args
  <2> QED BY <1>0, LenProperties, ElementOfSeq
<1>2. ASSUME NEW i \in DOMAIN args
      PROVE  /\ Part(i) \in Seq(Seq(ArgumentToken))
             /\ \A a : a \in Range(Part(i)) <=> Kept(args[i], params) /\ a = Argument(args[i], params)
  <2>1. Argument(args[i], params) \in Seq(ArgumentToken)
    <3> HIDE DEF args
    <3> QED BY <1>1, ArgumentParts
  <2> HIDE DEF args
  <2> QED BY <2>1 DEF Range
<1>3. parts \in [1..Len(args) -> Seq(Seq(ArgumentToken))]
  <2> HIDE DEF args, Part
  <2> QED BY <1>1, <1>2
<1>4. parts \in Seq(Seq(Seq(ArgumentToken))) /\ DOMAIN parts = DOMAIN args
  <2> HIDE DEF parts, args
  <2> QED BY <1>1, <1>3, FunctionIsSeq
<1>5. CommandArgs = FlattenSeq(parts)
  BY DEF CommandArgs
<1>6. \A i \in DOMAIN args : parts[i] = Part(i)
  OBVIOUS
<1> HIDE DEF parts, Part, args
<1>7. CommandArgs \in Seq(Seq(ArgumentToken))
  BY <1>4, <1>5, FlattenType
<1>8. ASSUME NEW a
      PROVE  a \in Range(CommandArgs)
               <=> \E i \in DOMAIN args : Kept(args[i], params) /\ a = Argument(args[i], params)
  <2>1. a \in Range(FlattenSeq(parts)) <=> \E i \in DOMAIN parts : a \in Range(parts[i])
    BY <1>4, FlattenRange
  <2> QED BY <1>2, <1>4, <1>5, <1>6, <2>1
<1> QED BY <1>7, <1>8 DEF args

\* The variables of a call have values of their types, however many parameters and
\* arguments there are: a default is never null.
THEOREM CallTypes == Spec => []TypeOK
<1>1. IInv /\ Values => TypeOK
  <2> SUFFICES ASSUME IInv, Values PROVE TypeOK
    OBVIOUS
  <2>1. IsCall(call)
    BY CallAssumption DEF IInv
  <2>2. \A n \in DOMAIN params : \/ params[n] \in [kind : Kinds, from : {"given"}]
                                 \/ params[n] \in [kind : Kinds \ {"null", "other"}, from : {"default"}]
    BY <2>1 DEF Values, IsCall, Kinds
  <2>3. argv \in Seq(Seq(ArgumentToken))
    <3>1. <<>> \in Seq(Seq(ArgumentToken))
      OBVIOUS
    <3> QED BY <2>1, <3>1, CommandParts DEF Values
  <2> QED BY <2>1, <2>2, <2>3 DEF IInv, Values, TypeOK, ArgumentToken, Method
<1> QED BY <1>1, ValuesInvariance, PTL

\* What prepareCommand puts on the command line is what the client gave, wherever the
\* client gave something, and no argument of the client's gets lost.
THEOREM GivenReach == Spec => []GivenValuesReachCommand
<1>1. IInv /\ Values => GivenValuesReachCommand
  <2> SUFFICES ASSUME IInv, Values, outcome = "run" PROVE GivenValuesReachCommand
    BY DEF GivenValuesReachCommand
  <2>1. IsCall(call)
    BY CallAssumption DEF IInv
  <2>2. argv = CommandArgs /\ argv \in Seq(Seq(ArgumentToken))
    BY <2>1, CommandParts DEF Values
  <2>3. Method.args \in Seq(Seq(Node)) /\ \A i \in DOMAIN Method.args : Method.args[i] \in Seq(Node)
    <3>1. Method.args \in Seq(Seq(Node))
      BY <2>1 DEF IsCall, IsMethod, Method
    <3> QED BY <3>1, LenProperties, ElementOfSeq
  <2>4. ASSUME NEW l \in DOMAIN argv, NEW j \in DOMAIN argv[l]
        PROVE  /\ argv[l][j].from = "given" => argv[l][j].name \in DOMAIN call.given
               /\ argv[l][j].from = "default" => argv[l][j].name \notin DOMAIN call.given
    <3>1. PICK i \in DOMAIN Method.args : argv[l] = Argument(Method.args[i], params)
      BY <2>1, <2>2, CommandParts DEF Range
    <3>2. argv[l][j] \in Range(Argument(Method.args[i], params))
      BY <3>1 DEF Range
    <3>3. PICK k \in DOMAIN Method.args[i] : argv[l][j] \in Range(Word(Method.args[i][k], params))
      BY <2>1, <2>3, <3>2, ArgumentParts
    <3> DEFINE node == Method.args[i][k]
               token == argv[l][j]
    <3>4. node \in Node
      BY <2>3, LenProperties, ElementOfSeq
    <3>5. \/ token.from \in {"static", "self"}
          \/ /\ node.name \in DOMAIN params
             /\ token = [from |-> params[node.name].from, name |-> node.name]
      <4> HIDE DEF node, token
      <4>1. token \in Range(Word(node, params))
        BY <3>3 DEF node, token
      <4>2. CASE node.tag = "phantom"
        BY <4>1, <4>2 DEF Word, Range
      <4>3. CASE node.tag = "static"
        BY <4>1, <4>3 DEF Word, Token, Range
      <4>4. CASE node.tag \in {"param", "list"}
        BY <4>1, <4>4 DEF Word, Token, Range
      <4> QED BY <3>4, <4>2, <4>3, <4>4 DEF Node
    <3> QED BY <3>5 DEF Values
  <2>5. ASSUME NEW i \in DOMAIN Method.args, NEW j \in DOMAIN Method.args[i],
               Method.args[i][j].tag = "param",
               Method.args[i][j].name \in DOMAIN call.given \ {"self"},
               \A k \in DOMAIN Method.args[i] :
                 Method.args[i][k].tag = "phantom" => Method.args[i][k].name \in DOMAIN call.given,
               call.given[Method.args[i][j].name] # "null"
        PROVE  \E l \in DOMAIN argv :
                 [from |-> "given", name |-> Method.args[i][j].name] \in Range(argv[l])
    <3> DEFINE name == Method.args[i][j].name
               arg == Method.args[i]
    <3>1. Kept(arg, params)
      BY <2>5 DEF Kept, Skips, Values
    <3>2. Word(arg[j], params) = <<[from |-> "given", name |-> name]>>
      BY <2>5 DEF Word, Token, Values
    <3>3. [from |-> "given", name |-> name] \in Range(Argument(arg, params))
      <4>1. [from |-> "given", name |-> name] \in Range(Word(arg[j], params))
        BY <3>2 DEF Range
      <4> QED BY <2>1, <2>3, <4>1, ArgumentParts
    <3>4. Argument(arg, params) \in Range(argv)
      BY <2>1, <2>2, <3>1, CommandParts
    <3> QED BY <3>3, <3>4 DEF Range
  <2> QED BY <2>4, <2>5 DEF GivenValuesReachCommand
<1> QED BY <1>1, ValuesInvariance, PTL

=============================================================================
