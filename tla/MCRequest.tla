------------------------------ MODULE MCRequest ------------------------------
(* Request on small instances: which requests are considered, and how long  *)
(* an output is.                                                            *)
EXTENDS Request

\* A plain request that succeeds if nothing happens.
Plain == [uri |-> "rpc", plus |-> FALSE, id |-> "given", fault |-> "none",
          timeout |-> FALSE, limit |-> 0, delay |-> FALSE, base64 |-> FALSE,
          forks |-> FALSE]

\* The three responsers, by how a request asks for them.
Outputs == {Plain, [Plain EXCEPT !.uri = "streamed"],
            [Plain EXCEPT !.uri = "streamed", !.plus = TRUE]}

\* Limits that a raw output of four bytes passes, meets and exceeds; and one that a
\* stream exceeds only with its last frame.
Limits == {0, 2, 4, 7}

Ordinary == {[o EXCEPT !.timeout = t, !.limit = n] : o \in Outputs, t \in BOOLEAN, n \in Limits}

Notifications == {[o EXCEPT !.id = "absent", !.timeout = t] : o \in Outputs, t \in BOOLEAN}
                 \cup {[Plain EXCEPT !.id = "absent", !.timeout = TRUE, !.limit = 2]}

Failing == {[o EXCEPT !.fault = f, !.id = id, !.timeout = TRUE] :
              o \in Outputs, f \in Faults, id \in {"given", "absent"}}

Delayed == {[o EXCEPT !.delay = TRUE, !.timeout = t] : o \in Outputs, t \in BOOLEAN}

InBase64 == {[o EXCEPT !.base64 = TRUE, !.timeout = t, !.limit = n] :
              o \in Outputs, t \in BOOLEAN, n \in {0, 3, 4}}

Forking == {[o EXCEPT !.forks = TRUE, !.timeout = t] : o \in Outputs, t \in BOOLEAN}

AllSetups == Ordinary \cup Notifications \cup Failing \cup Delayed \cup InBase64 \cup Forking

\* For liveness, the setups that differ in who may block whom.
FewSetups == {[o EXCEPT !.timeout = t, !.limit = n] :
                o \in {Plain, [Plain EXCEPT !.uri = "streamed", !.plus = TRUE]},
                t \in BOOLEAN, n \in {0, 2}}
             \cup {[Plain EXCEPT !.delay = TRUE], [Plain EXCEPT !.base64 = TRUE, !.timeout = TRUE]}
             \cup {[Plain EXCEPT !.forks = TRUE, !.timeout = t] : t \in BOOLEAN}

\* For the runs that show one disagreement each.
Limited == {[Plain EXCEPT !.limit = n] : n \in {0, 2}}
Streams == {[Plain EXCEPT !.uri = "streamed", !.plus = TRUE, !.limit = n] : n \in {0, 7}}

Lines == {2, 3}

=============================================================================
