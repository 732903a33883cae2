-------------------------------- MODULE Answer --------------------------------
(* What a request's answer promises its client, without responsers, pipes and *)
(* goroutines: it is the method's output, in order and from its beginning,    *)
(* and it ends once; it ends in success only when all of the output has been  *)
(* sent and the method has done well, or when time or the client has cut it   *)
(* short.                                                                     *)
EXTENDS Naturals, Sequences

VARIABLES
  written,   \* how many bytes of output the method has for its answer
  done,      \* it has done well, and has no more
  cut,       \* the time is up or the client has gone
  got,       \* the output that has reached the client
  end,       \* "open", or how the answer has ended: "success" or "failure"
  forsaken   \* the handler has left while the method still writes

answer == <<written, done, cut, got, end, forsaken>>

Output(n) == [i \in 1..n |-> i]

Init ==
  /\ written = 0 /\ done = FALSE /\ cut = FALSE
  /\ got = <<>> /\ end = "open" /\ forsaken = FALSE

\* More of the output, from where the client is.
More ==
  /\ \E n \in Len(got)..written : got' = Output(n)
  /\ UNCHANGED <<written, done, cut, forsaken>>

Write ==
  /\ ~done /\ written' \in Nat /\ written' > written
  /\ UNCHANGED <<done, cut, got, end, forsaken>>

Finish == done' = TRUE /\ UNCHANGED <<written, cut, got, end, forsaken>>

Cut == cut' = TRUE /\ UNCHANGED <<written, done, got, end, forsaken>>

Send == end = "open" /\ More /\ UNCHANGED end

\* The last of the output may come with the end.
Succeed ==
  /\ end = "open" /\ More /\ end' = "success"
  /\ cut \/ (done /\ got' = Output(written))

Fail == end = "open" /\ More /\ end' = "failure"

\* Nothing is promised after the grace period.
Forsake == forsaken'

Next == Write \/ Finish \/ Cut \/ Send \/ Succeed \/ Fail \/ Forsake

Spec == Init /\ [][Next]_answer

=============================================================================
