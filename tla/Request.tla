------------------------------- MODULE Request -------------------------------
(***************************************************************************)
(* One request, from the HTTP handler that receives it to the child        *)
(* process that answers it: rupicolarpc.ProcessContext with                *)
(* MethodDef.Invoke as the method.                                         *)
(*                                                                         *)
(* The goroutines of the code are the parts of Next:                       *)
(*   Handler  jsonRpcProcessor.ProcessContext, in the goroutine of         *)
(*            net/http: it starts the invoker and waits for it             *)
(*   Invoker  the goroutine process() starts: MethodDef.Invoke, then       *)
(*            SetResponseError or SetResponseResult on the request         *)
(*   Copier   the goroutine Invoke starts: it copies the child's stdout    *)
(*            into an io.Pipe and waits for the child                      *)
(*   Flusher  the goroutine that flushes a stalled plain RPC answer        *)
(* beside the child process, its descendants, the client and the clock.    *)
(* The handler and the invoker share f.err and the responser without a     *)
(* lock: each action below is one access of one of them.                   *)
(***************************************************************************)
EXTENDS Responser, SequencesExt

CONSTANTS
  Setups,     \* the requests (with the method each one names) to consider
  MaxOutput,  \* bound: bytes a child and its descendants write
  LineEnds    \* positions of the output that hold a newline

(***************************************************************************)
(* A setup is a request and the configuration of the method it invokes.    *)
(* Its fault says where the request fails before the child runs: in the    *)
(* transport (reading or parsing it, an unauthorized client), in process() *)
(* (invalid, no such method), in prepareCommand (parameters), by a panic   *)
(* there, or because the child cannot be started.  The name of the fault   *)
(* is the error the client is told.                                        *)
(***************************************************************************)
Faults == {"none", "transport", "process", "prepare", "panic", "start"}

Setup == [uri     : {"rpc", "streamed"},
          plus    : BOOLEAN,            \* it says version "2.0+s"
          id      : {"given", "absent"},
          fault   : Faults,
          timeout : BOOLEAN,            \* the method or the server bounds its time
          limit   : Nat,                \* methodDef.MaxResponse, 0 = unlimited
          delay   : BOOLEAN,            \* InvokeInfo.Delay # 0
          base64  : BOOLEAN,            \* MethodDef.Encoding = Base64
          forks   : BOOLEAN]            \* descendants of the child keep its stdout

ASSUME RequestAssumption ==
  /\ Setups \subseteq Setup
  /\ MaxOutput \in Nat
  /\ LineEnds \subseteq Nat

\* No output has 2^63 bytes, not even encoded (base64 makes it no longer than twice
\* its length) and with each byte sent in a frame of its own.
ASSUME OutputFits == (Envelope + 1) * (2 * MaxOutput) + Envelope + Len(OK.body) <= MaxInt64

VARIABLES
  rq,     \* the request's setup; it never changes
  h,      \* where the handler is
  left,   \* how the handler left process()
  inv,    \* where the invoker is
  val,    \* what Invoke returned: a reader, a text, nil or an error
  hand,   \* what the invoker has read and not yet written, encoded if it has to be
  err,    \* jsonRPCrequestPriv.err
  rsp,    \* the responser
  ctx,    \* the request's context: live, or why it is done
  conn,   \* the client's connection
  cp,     \* where the copier is
  chunk,  \* the bytes the copier is writing into the pipe
  enc,    \* base64.encoder.buf: bytes that do not fill a group of three
  pw,     \* the pipe: none, open, or what reading its end returns
  child,  \* the child process and its standard output
  timer   \* the flusher

vars == <<rq, h, left, inv, val, hand, err, rsp, ctx, conn, cp, chunk, enc, pw,
          child, timer>>

Over == {"returned", "panicked"}   \* ServeHTTP has ended
InProcess == {"select", "check", "grace"}
Closing == {"close", "closeerr", "closeend"}

Child == [st : {"none", "running", "exited", "reaped"},
          status : {"none", "ok", "failed", "killed"},
          open : BOOLEAN,                    \* someone may write to its stdout
          wrote : Nat, read : Nat]           \* bytes, by the child and by the copier
NoChild == [st |-> "none", status |-> "none", open |-> FALSE, wrote |-> 0, read |-> 0]

Init ==
  /\ rq \in Setups
  /\ h = "read" /\ left = "-"
  /\ inv = "none" /\ val = "-" /\ hand = <<>>
  /\ err = "nil"
  /\ rsp = New(IF rq.uri = "rpc" THEN "rpc" ELSE "legacy")
  /\ ctx = "live" /\ conn = "open"
  /\ cp = "none" /\ chunk = <<>> /\ enc = <<>> /\ pw = "none"
  /\ child = NoChild
  /\ timer = "off"

-----------------------------------------------------------------------------
(* What the goroutines share.                                              *)

\* The http.ResponseWriter takes every write until the client disconnects;
\* then, and after ServeHTTP has returned, a write may fail or not.
Transport == IF conn # "gone" /\ h \notin Over THEN {TRUE} ELSE BOOLEAN

\* A step that would write to a client who has stopped reading has no outcome yet.
Unblocked == conn = "stalled" => rsp'.wire = rsp.wire

invoker == <<inv, val, hand>>
output  == <<cp, chunk, enc, pw, child>>

\* The child's end: SIGKILL leaves stdout to the descendants that hold it.
Ended(c, how) == [c EXCEPT !.st = "exited", !.status = how, !.open = @ /\ rq.forks]

-----------------------------------------------------------------------------
(* The handler: ProcessContext.                                            *)

\* readFromTransport.  A client that goes away leaves the body incomplete.
ReadFromTransport ==
  /\ h = "read"
  /\ err' \in (IF rq.fault = "transport" THEN {"transport"}
               ELSE IF conn = "gone" THEN {"transport", "nil"} ELSE {"nil"})
  /\ h' = "process"
  /\ UNCHANGED <<rq, left, invoker, rsp, ctx, conn, output, timer>>

\* Broken: the limit is set before the request may get another responser.
ProcessLimitsFirst ==
  /\ h = "process" /\ err = "nil" /\ rq.fault # "process"
  /\ rsp' = SetID(Upgrade(MaxResponse(rsp, rq.limit), rq.plus), rq.id)
  /\ inv' = "invoke"
  /\ h' = "select"
  /\ UNCHANGED <<rq, err, left, val, hand, ctx, conn, output, timer>>

\* process() up to the first select.
Process ==
  /\ h = "process"
  /\ LET answered == SetID(Upgrade(rsp, rq.plus), rq.id) IN
     \/ /\ err # "nil"
        /\ h' = "close" /\ left' = "early"
        /\ UNCHANGED <<err, rsp, inv>>
     \/ /\ err = "nil" /\ rq.fault = "process"
        /\ err' = "process" /\ rsp' = answered
        /\ h' = "close" /\ left' = "early"
        /\ UNCHANGED inv
     \/ /\ err = "nil" /\ rq.fault # "process"
        /\ rsp' = MaxResponse(answered, rq.limit)
        /\ inv' = "invoke"
        /\ h' = "select"
        /\ UNCHANGED <<err, left>>
  /\ UNCHANGED <<rq, val, hand, ctx, conn, output, timer>>

\* Broken: the handler does not wait for the invoker after a timeout.
SelectTimeoutReturns ==
  /\ h = "select" /\ ctx # "live"
  /\ err' = "ErrTimeout"
  /\ h' = "close" /\ left' = "done"
  /\ UNCHANGED <<rq, invoker, rsp, ctx, conn, output, timer>>

\* The first select, with both cases ready: either one.
SelectTimeout ==
  /\ h = "select" /\ ctx # "live"
  /\ err' = "ErrTimeout"
  /\ h' = "check"
  /\ UNCHANGED <<rq, left, invoker, rsp, ctx, conn, output, timer>>

SelectDone ==
  /\ h = "select" /\ inv = "exited"
  /\ h' = "check"
  /\ UNCHANGED <<rq, left, invoker, err, rsp, ctx, conn, output, timer>>

\* process() returns; its deferred cancel ends a context with a deadline.
LeaveProcess(how) ==
  /\ h' = "close"
  /\ left' = how
  /\ ctx' = IF rq.timeout /\ ctx = "live" THEN "canceled" ELSE ctx
  /\ UNCHANGED <<rq, invoker, err, rsp, conn, output, timer>>

\* Broken: the handler leaves whatever f.err says.
CheckErrNoGrace ==
  /\ h = "check"
  /\ LeaveProcess("done")

\* f.err is read again: the invoker may have overwritten ErrTimeout.
CheckErr ==
  /\ h = "check"
  /\ \/ /\ err = "nil"
        /\ LeaveProcess("done")
     \/ /\ err # "nil"
        /\ h' = "grace"
        /\ UNCHANGED <<rq, left, invoker, err, rsp, ctx, conn, output, timer>>

GraceDone ==
  /\ h = "grace" /\ inv = "exited"
  /\ LeaveProcess("done")

\* Broken: there is no timer, only the wait for the invoker.
GraceTimerAwaitsExit ==
  /\ h = "grace" /\ inv = "exited"
  /\ LeaveProcess("forced")

\* 500ms are over: "procedure didn't exit gracefuly, forcing exit".
GraceTimer ==
  /\ h = "grace"
  /\ LeaveProcess("forced")

\* jsonRPCrequestPriv.Close: the test of f.err ...
CloseBranch ==
  /\ h = "close"
  /\ LET upgraded == Upgrade(rsp, rq.plus) IN
     \/ /\ err = "nil"
        /\ rsp' = upgraded /\ h' = "closeend"
     \/ /\ err # "nil"
        /\ rsp' = MaxResponse(upgraded, 0) /\ h' = "closeerr"
  /\ UNCHANGED <<rq, left, invoker, err, ctx, conn, output, timer>>

\* ... SetResponseError(f.err), which reads it again (NewErrorEx panics on nil) ...
ErrorIsBuilt(r) == IF r.kind = "rpc" THEN ~r.dataSent /\ r.id # "absent"
                   ELSE r.kind = "streaming" /\ ~r.closed

CloseError ==
  /\ h = "closeerr"
  /\ \/ /\ err = "nil" /\ ErrorIsBuilt(rsp)
        /\ h' = "panicked"
        /\ UNCHANGED rsp
     \/ /\ ~(err = "nil" /\ ErrorIsBuilt(rsp))
        /\ \E up \in Transport : rsp' = SetError(rsp, err, up).r
        /\ Unblocked
        /\ h' = "closeend"
  /\ UNCHANGED <<rq, left, invoker, err, ctx, conn, output, timer>>

\* ... and the responser's Close.
CloseEnd ==
  /\ h = "closeend"
  /\ \E up \in Transport : rsp' = Close(rsp, up).r
  /\ Unblocked
  /\ h' = "returned"
  /\ UNCHANGED <<rq, left, invoker, err, ctx, conn, output, timer>>

Handler ==
  \/ ReadFromTransport \/ Process \/ SelectTimeout \/ SelectDone \/ CheckErr
  \/ GraceDone \/ GraceTimer \/ CloseBranch \/ CloseError \/ CloseEnd

-----------------------------------------------------------------------------
(* The invoker: oldToNewAdapter.Invoke around MethodDef.Invoke.            *)

\* prepareCommand and Start.  A context that is done already fails Start.
\* With a delay the pipe is closed at once and the answer is "OK".
Invoke ==
  /\ inv = "invoke"
  /\ \/ /\ rq.fault = "prepare"
        /\ val' = "prepare" /\ inv' = "deliver"
        /\ UNCHANGED <<cp, pw, child>>
     \/ /\ rq.fault = "panic"
        /\ val' = "nil" /\ inv' = "deliver"
        /\ UNCHANGED <<cp, pw, child>>
     \/ /\ rq.fault = "start" \/ (rq.fault = "none" /\ ctx # "live")
        /\ val' = "start" /\ inv' = "deliver"
        /\ UNCHANGED <<cp, pw, child>>
     \/ /\ rq.fault = "none" /\ ctx = "live"
        /\ child' = [NoChild EXCEPT !.st = "running", !.open = TRUE]
        /\ cp' = "sleep"
        /\ pw' = IF rq.delay THEN "eof" ELSE "open"
        /\ val' = IF rq.delay THEN "ok" ELSE "reader"
        /\ inv' = IF rq.base64 THEN "flush" ELSE "deliver"
  /\ UNCHANGED <<rq, h, left, hand, err, rsp, ctx, conn, chunk, enc, timer>>

\* Invoke returns: the deferred writerEncoder.Close writes what the encoder
\* holds into the pipe, that nobody reads yet, and drops it once the write
\* has failed.
DeferFlush ==
  /\ inv = "flush"
  /\ enc = <<>> \/ pw # "open"
  /\ enc' = <<>>
  /\ inv' = "deliver"
  /\ UNCHANGED <<rq, h, left, val, hand, err, rsp, ctx, conn, cp, chunk, pw, child, timer>>

\* The test of f.ctx.Err() that SetResponseError and SetResponseResult begin
\* with; a plain RPC answer that is a reader gets a flusher.
Deliver ==
  /\ inv = "deliver"
  /\ \/ /\ ctx # "live"
        /\ inv' = "exit"
        /\ UNCHANGED timer
     \/ /\ ctx = "live" /\ val = "reader"
        /\ inv' = "copy"
        /\ timer' = IF rq.uri = "rpc" THEN "armed" ELSE timer
     \/ /\ ctx = "live" /\ val # "reader"
        /\ inv' = "set"
        /\ UNCHANGED timer
  /\ UNCHANGED <<rq, h, left, val, hand, err, rsp, ctx, conn, output>>

\* SetResponseError after its test.
SetResponseError ==
  /\ inv = "set" /\ val \in Faults
  /\ err' = val
  /\ \E up \in Transport : rsp' = SetError(rsp, val, up).r
  /\ Unblocked
  /\ inv' = "exit"
  /\ UNCHANGED <<rq, h, left, val, hand, ctx, conn, output, timer>>

\* SetResponseResult after its test, when the answer is no reader.
SetResponseResult ==
  /\ inv = "set" /\ val \in {"ok", "nil"}
  /\ \E up \in Transport :
       LET s == SetResult(rsp, IF val = "ok" THEN OK ELSE Null, up)
       IN  /\ rsp' = s.r
           /\ err' = s.err
  /\ Unblocked
  /\ inv' = "exit"
  /\ UNCHANGED <<rq, h, left, val, hand, ctx, conn, output, timer>>

\* Base64 makes four characters of each group of three bytes.  A character is its
\* position in the encoded output, as its group's first byte says.
Rest(bytes) == SubSeq(bytes, 3 * (Len(bytes) \div 3) + 1, Len(bytes))
Encoded(bytes) ==
  [i \in 1..(4 * (Len(bytes) \div 3)) |->
     4 * (bytes[3 * ((i - 1) \div 4) + 1] \div 3) + ((i - 1) % 4) + 1]

\* What the copier's blocked write puts into the pipe.
Piped == IF rq.base64 THEN Encoded(enc \o chunk) ELSE chunk

\* io.Copy(f.rpcResponserPriv, reader): its read meets the copier's write ...
ReadPipe ==
  /\ inv = "copy" /\ cp = "write" /\ pw = "open"
  /\ hand' = Piped
  /\ inv' = "check"
  /\ cp' = "copy"
  /\ enc' = (IF rq.base64 THEN Rest(enc \o chunk) ELSE enc)
  /\ chunk' = <<>>
  /\ UNCHANGED <<rq, h, left, val, err, rsp, ctx, conn, pw, child, timer>>

\* Broken: what ended the pipe is not looked at.
ReadEndIsSuccess ==
  /\ inv = "copy" /\ pw \in {"eof", "ExitError"}
  /\ err' = "nil"
  /\ inv' = "exit"
  /\ UNCHANGED <<rq, h, left, val, hand, rsp, ctx, conn, output, timer>>

\* ... or the pipe's end, and io.Copy's error becomes f.err.
ReadEnd ==
  /\ inv = "copy" /\ pw \in {"eof", "ExitError"}
  /\ err' = IF pw = "eof" THEN "nil" ELSE pw
  /\ inv' = "exit"
  /\ UNCHANGED <<rq, h, left, val, hand, rsp, ctx, conn, output, timer>>

\* The responser's Write: may it still be written to?
CheckWrite ==
  /\ inv = "check"
  /\ \/ /\ Refusal(rsp) = "nil"
        /\ inv' = "put"
        /\ UNCHANGED <<err, hand>>
     \/ /\ Refusal(rsp) # "nil"
        /\ err' = Refusal(rsp) /\ hand' = <<>> /\ inv' = "exit"
  /\ UNCHANGED <<rq, h, left, val, rsp, ctx, conn, output, timer>>

\* How much of what it was given a Write handles at once: a stream one line, which
\* base64 does not have, and others everything.
Portion(n) ==
  IF rsp.kind = "streaming" /\ ~rq.base64
    THEN /\ \A k \in 1..(n - 1) : hand[k] \notin LineEnds
         /\ n < Len(hand) => hand[n] \in LineEnds
    ELSE n = Len(hand)

First(n) == [body |-> SubSeq(hand, 1, n), nl |-> ~rq.base64 /\ hand[n] \in LineEnds]

\* Broken: io.Copy's error is not stored in f.err.
PutPieceForgetsError ==
  /\ inv = "put"
  /\ \E n \in {k \in DOMAIN hand : Portion(k)}, up \in Transport :
       LET w == Put(rsp, First(n), up)
       IN  /\ rsp' = w.r
           /\ IF w.err = "nil"
                THEN /\ hand' = SubSeq(hand, n + 1, Len(hand))
                     /\ inv' = IF n < Len(hand) THEN "put" ELSE "copy"
                ELSE hand' = <<>> /\ inv' = "exit"
  /\ Unblocked
  /\ UNCHANGED <<rq, h, left, val, err, ctx, conn, output, timer>>

\* The write.  After a failed one nobody reads the pipe, and it stays open.
PutPiece ==
  /\ inv = "put"
  /\ \E n \in {k \in DOMAIN hand : Portion(k)}, up \in Transport :
       LET w == Put(rsp, First(n), up)
       IN  /\ rsp' = w.r
           /\ IF w.err = "nil"
                THEN /\ hand' = SubSeq(hand, n + 1, Len(hand))
                     /\ inv' = IF n < Len(hand) THEN "put" ELSE "copy"
                     /\ UNCHANGED err
                ELSE hand' = <<>> /\ inv' = "exit" /\ err' = w.err
  /\ Unblocked
  /\ UNCHANGED <<rq, h, left, val, ctx, conn, output, timer>>

\* close(f.done)
CloseDone ==
  /\ inv = "exit"
  /\ inv' = "exited"
  /\ UNCHANGED <<rq, h, left, val, hand, err, rsp, ctx, conn, output, timer>>

Invoker ==
  \/ Invoke \/ DeferFlush \/ Deliver \/ SetResponseError \/ SetResponseResult
  \/ ReadPipe \/ ReadEnd \/ CheckWrite \/ PutPiece \/ CloseDone

\* Broken: the flush sends what the responser holds back.
FlushSendsBuffer ==
  /\ timer = "armed"
  /\ timer' = "off"
  /\ rsp' = [rsp EXCEPT !.wire = @ \o rsp.buf, !.buf = <<>>]
  /\ UNCHANGED <<rq, h, left, invoker, err, ctx, conn, output>>

\* After ten seconds a stalled answer is flushed; select takes any ready case.
Flush ==
  /\ timer = "armed"
  /\ timer' = "off"
  /\ UNCHANGED <<rq, h, left, invoker, err, rsp, ctx, conn, output>>

-----------------------------------------------------------------------------
(* The copier: the goroutine of Invoke.                                    *)

handled == <<rq, h, left, invoker, err, rsp, ctx, conn, timer>>

\* time.Sleep(m.InvokeInfo.Delay)
WakeUp ==
  /\ cp = "sleep"
  /\ cp' = "copy"
  /\ UNCHANGED <<handled, chunk, enc, pw, child>>

\* io.Copy(writer, stdout): it reads any part of what is there.  The encoder keeps
\* what does not fill a group.
CopyChunk ==
  /\ cp = "copy"
  /\ \E n \in (child.read + 1)..child.wrote :
       LET bytes == [i \in 1..(n - child.read) |-> child.read + i] IN
       /\ child' = [child EXCEPT !.read = n]
       /\ IF rq.base64 /\ Len(enc \o bytes) < 3
            THEN /\ enc' = enc \o bytes
                 /\ UNCHANGED <<cp, chunk>>
            ELSE /\ chunk' = bytes
                 /\ cp' = "write"
                 /\ UNCHANGED enc
  /\ UNCHANGED <<handled, pw>>

\* Broken: the end of the output is taken for the end of the child.
StdoutEndSkipsWait ==
  /\ cp = "copy" /\ child.read = child.wrote /\ ~child.open
  /\ cp' = "done"
  /\ UNCHANGED <<handled, chunk, enc, pw, child>>

\* Nobody holds the child's stdout any more.
StdoutEnd ==
  /\ cp = "copy" /\ child.read = child.wrote /\ ~child.open
  /\ cp' = "wait"
  /\ UNCHANGED <<handled, chunk, enc, pw, child>>

\* The pipe was closed for a delayed answer: the child is killed.
WriteRejected ==
  /\ cp = "write" /\ pw # "open"
  /\ child' = IF child.st = "running" THEN Ended(child, "killed") ELSE child
  /\ cp' = "wait"
  /\ chunk' = <<>>
  /\ UNCHANGED <<handled, enc, pw>>

\* Broken: the pipe ends well however the child ended.
WaitLosesStatus ==
  /\ cp = "wait" /\ child.st = "exited"
  /\ child' = [child EXCEPT !.st = "reaped"]
  /\ pw' = IF pw = "open" THEN "eof" ELSE pw
  /\ cp' = "done"
  /\ UNCHANGED <<handled, chunk, enc>>

\* Broken: the pipe is closed after a failure only.
WaitKeepsPipe ==
  /\ cp = "wait" /\ child.st = "exited"
  /\ child' = [child EXCEPT !.st = "reaped"]
  /\ pw' = IF pw = "open" /\ child.status # "ok" THEN "ExitError" ELSE pw
  /\ cp' = "done"
  /\ UNCHANGED <<handled, chunk, enc>>

\* process.Wait() reaps the child; its failure becomes the pipe's error.
Wait ==
  /\ cp = "wait" /\ child.st = "exited"
  /\ child' = [child EXCEPT !.st = "reaped"]
  /\ pw' = IF pw # "open" THEN pw
           ELSE IF child.status = "ok" THEN "eof" ELSE "ExitError"
  /\ cp' = "done"
  /\ UNCHANGED <<handled, chunk, enc>>

Copier == WakeUp \/ CopyChunk \/ StdoutEnd \/ WriteRejected \/ Wait

-----------------------------------------------------------------------------
(* The child, the client and the clock.                                    *)

apart == <<rq, h, left, invoker, err, rsp, cp, chunk, enc, pw, timer>>

\* The child or a descendant writes; after Wait its write would fail.
Emit ==
  /\ child.open /\ cp # "done" /\ child.wrote < MaxOutput
  /\ child' = [child EXCEPT !.wrote = @ + 1]
  /\ UNCHANGED <<apart, ctx, conn>>

Exit ==
  /\ child.st = "running"
  /\ \E how \in {"ok", "failed"} : child' = Ended(child, how)
  /\ UNCHANGED <<apart, ctx, conn>>

\* The last holder of stdout closes it: the child itself, running on, or its
\* last descendant.
CloseStdout ==
  /\ child.open
  /\ child.st = "running" => ~rq.forks
  /\ child' = [child EXCEPT !.open = FALSE]
  /\ UNCHANGED <<apart, ctx, conn>>

\* exec.CommandContext: the child is killed when the context is done.
Kill ==
  /\ ctx # "live" /\ child.st = "running"
  /\ child' = Ended(child, "killed")
  /\ UNCHANGED <<apart, ctx, conn>>

\* The time limit expires (process() has created the context and not left).
Deadline ==
  /\ rq.timeout /\ ctx = "live" /\ h \in InProcess
  /\ ctx' = "deadline"
  /\ UNCHANGED <<apart, conn, child>>

\* The client stays connected and does not read any more.  One that only pauses is
\* slow, as any step may be.
Stall ==
  /\ conn = "open" /\ h \notin Over
  /\ conn' = "stalled"
  /\ UNCHANGED <<apart, ctx, child>>

Disconnect ==
  /\ conn \in {"open", "stalled"} /\ h \notin Over
  /\ conn' = "gone"
  /\ UNCHANGED <<apart, ctx, child>>

\* net/http cancels the request's context when it notices that the client is
\* gone, and when ServeHTTP has ended.
Cancel ==
  /\ ctx = "live" /\ (conn = "gone" \/ h \in Over)
  /\ ctx' = "canceled"
  /\ UNCHANGED <<apart, conn, child>>

Environment == Emit \/ Exit \/ CloseStdout \/ Deadline \/ Stall \/ Disconnect

Next == Handler \/ Invoker \/ Flush \/ Copier \/ Kill \/ Cancel \/ Environment

Spec == Init /\ [][Next]_vars

\* Go runs every goroutine that can run; timers expire, signals and contexts
\* are delivered.  The child owes nothing: it may run, or be silent, for ever.
Fairness ==
  /\ WF_vars(Handler) /\ WF_vars(Invoker) /\ WF_vars(Copier) /\ WF_vars(Flush)
  /\ WF_vars(Kill) /\ WF_vars(Cancel) /\ WF_vars(Deadline)

FairSpec == Spec /\ Fairness

-----------------------------------------------------------------------------
(* Invariants.                                                             *)

\* Every variable has a value of its type.
TypeOK ==
  /\ rq \in Setup
  /\ h \in {"read", "process"} \cup InProcess \cup Closing \cup Over
  /\ left \in {"-", "early", "done", "forced"}
  /\ inv \in {"none", "invoke", "flush", "deliver", "set", "copy", "check", "put",
              "exit", "exited"}
  /\ val \in {"-", "reader", "ok", "nil", "prepare", "start"}
  /\ hand \in Seq(Nat)
  /\ err \in Errors
  /\ rsp \in Record
  /\ ctx \in {"live", "deadline", "canceled"}
  /\ conn \in {"open", "stalled", "gone"}
  /\ cp \in {"none", "sleep", "copy", "write", "wait", "done"}
  /\ chunk \in Seq(Nat) /\ enc \in Seq(Nat)
  /\ pw \in {"none", "open", "eof", "ExitError"}
  /\ child \in Child
  /\ timer \in {"off", "armed"}

\* Unless the grace period ran out, the handler closes the responser only when
\* the invoker is through with it, although both use it without a lock.
CloseRunsAlone ==
  h \in Closing \cup Over /\ left # "forced" => inv \in {"none", "exit", "exited"}

\* The method output that a responser has taken, whatever became of it since.
Delivered ==
  IF rsp.kind = "streaming"
    THEN FlattenSeq([i \in DOMAIN rsp.wire |->
                       IF rsp.wire[i].tag = "data" THEN rsp.wire[i].body ELSE <<>>])
         \o Text(rsp.buf)
    ELSE Text(IF rsp.kind = "rpc" /\ rsp.wire = <<>> THEN rsp.buf ELSE rsp.wire)

Written(n) == [i \in 1..n |-> i]

\* How many bytes the first n bytes or, encoded, characters of an answer stand for.
Decoded(n) == IF rq.base64 THEN 3 * (n \div 4) ELSE n

\* While an answer is copied, each byte read from the child is in exactly one
\* place, in order: with the responser, in the invoker's hand, in the encoder
\* or in the copier's blocked write.
NothingLostInTransit ==
  inv \in {"copy", "check", "put"} /\ pw = "open" /\ left # "forced" /\ h \notin Closing =>
    LET taken == Delivered \o hand IN
    /\ taken = Written(Len(taken))
    /\ Written(Decoded(Len(taken))) \o enc \o chunk = Written(child.read)

\* The length of the answer that is made of n bytes.
Encodes(n) == IF rq.base64 THEN 4 * (n \div 3) ELSE n

\* An answer the handler considers a success (no error, in time, the client
\* still there) holds all output of a child that ended well and was reaped;
\* only base64 may lose a last incomplete group.  A limited stream is left
\* out: its last line may be refused at Close, see StreamTerminated.
SuccessIsComplete ==
  /\ h = "returned" /\ err = "nil" /\ val = "reader"
  /\ conn = "open" /\ ctx # "deadline"
  /\ rsp.kind = "rpc" => rsp.id = "given"
  /\ rsp.kind = "streaming" => rq.limit = 0
  => /\ child.st = "reaped" /\ child.status = "ok"
     /\ Delivered = Written(Encodes(child.wrote))

\* A connected RPC client gets exactly one frame, with the request's id (null
\* when the request could not be read), an error exactly when the handler
\* ended with one; a notification gets nothing.
OneRpcAnswer ==
  h = "returned" /\ rsp.kind = "rpc" /\ conn = "open" /\ left # "forced" =>
    IF rsp.id = "absent"
      THEN rsp.wire = <<>>
      ELSE /\ Len(rsp.wire) = 1
           /\ rsp.wire[1].id = (IF rq.fault = "transport" THEN "null" ELSE "given")
           /\ rsp.wire[1].tag = "error" <=> err # "nil"
           /\ rsp.wire[1].tag # "raw"

Terminal(f) == f.tag = "error" \/ (f.tag = "result" /\ f.body = Done.body)

\* A stream's header comes before its data and nothing follows its footer or
\* its error, whoever of the handler and the invoker writes them.
StreamOrder ==
  rsp.kind = "streaming" /\ left # "forced" =>
    \A i \in DOMAIN rsp.wire :
      /\ Terminal(rsp.wire[i]) => i = Len(rsp.wire)
      /\ rsp.wire[i].tag = "data" => rsp.wire[1] = ResultFrame(rsp.id, OK)

\* A stream's data frames are the lines of the output, empty ones too, however the
\* copier cut it, before a newline or behind several: only the last one may lack its
\* newline.
StreamLines ==
  rsp.kind = "streaming" /\ ~rq.base64 /\ left # "forced" =>
    \A i \in DOMAIN rsp.wire : rsp.wire[i].tag = "data" =>
      LET line == rsp.wire[i].body
          from == IF i > 1 /\ rsp.wire[i - 1].tag = "data" THEN Last(rsp.wire[i - 1].body) + 1 ELSE 1
      IN  /\ line # <<>> /\ line = [k \in 1..Len(line) |-> from + k - 1]
          /\ \A k \in 1..(Len(line) - 1) : line[k] \notin LineEnds
          /\ rsp.wire[i].nl <=> Last(line) \in LineEnds
          /\ i < Len(rsp.wire) /\ rsp.wire[i + 1].tag = "data" => rsp.wire[i].nl

\* An unfinished line that an error follows.  Base64 has no lines to finish.
CutOff(n) ==
  /\ n + 1 \in DOMAIN rsp.wire /\ rsp.wire[n + 1].tag = "error"
  /\ rsp.wire[n].tag = "data" /\ ~rsp.wire[n].nl

\* What a limit counts: the frames of a stream with their wrapping, the output, in
\* its encoding, in another answer.
Counted == {n \in DOMAIN rsp.wire : rsp.wire[n].tag # "error" /\ ~CutOff(n)}

Spent ==
  LET bytes == FlattenSeq([n \in DOMAIN rsp.wire |-> IF n \in Counted THEN Content(rsp.wire[n]) ELSE <<>>])
  IN  IF rsp.kind = "streaming" THEN Envelope * Cardinality(Counted) + Len(bytes)
      ELSE Cardinality({k \in DOMAIN bytes : bytes[k] > 0})

\* The limit of the method holds for what is sent, although one goroutine counts
\* it down and another one lifts it: only the error that ends an answer goes beyond
\* it, and the unfinished line before the error, which is held back without a limit
\* and sent after the limit has been lifted.
WithinLimit == rq.limit > 0 /\ left # "forced" => Spent <= rq.limit

\* The copier is left alone with a write that nobody will read only after the
\* invoker met an error or a context that was done.
StrandedNeedsFailure ==
  cp = "write" /\ pw = "open" /\ inv \in {"exit", "exited"} => err # "nil" \/ ctx # "live"

-----------------------------------------------------------------------------
(* Action properties.                                                      *)

\* A plain RPC answer reaches the client at Close only, in one write, although
\* a stalled one is flushed before; so an error can still replace the output.
RpcWireAtClose ==
  [][rsp.kind = "rpc" /\ rsp'.wire # rsp.wire => h = "closeend" /\ rsp.wire = <<>>]_vars

\* Unless the grace period ran out, nobody touches the responser, and with it
\* the http.ResponseWriter, after ServeHTTP has returned.
ResponserSettles == [][left # "forced" /\ h \in Over => rsp' = rsp]_vars

\* The output in some frames: the library's own texts are none.
OutputIn(frames) ==
  FlattenSeq([n \in DOMAIN frames |-> IF 0 \in Range(frames[n].body) THEN <<>> ELSE frames[n].body])

\* How the client has been told that it has received it all.
Told ==
  IF rsp.kind = "legacy"
    THEN IF h \notin Over THEN "open" ELSE IF err = "nil" THEN "success" ELSE "failure"
  ELSE IF rsp.wire = <<>> \/ (rsp.kind = "streaming" /\ ~Terminal(Last(rsp.wire))) THEN "open"
  ELSE IF Last(rsp.wire).tag = "error" THEN "failure" ELSE "success"

\* The output that a method has for its answer: what is not the child's is a text,
\* and base64 is left with whole groups.
Available == IF val = "reader" THEN Encodes(child.wrote) ELSE 0

DoneWell == val \in {"ok", "nil"} \/ (child.st = "reaped" /\ child.status = "ok")

\* A client that has been told of success and holds some output holds all output of
\* a child that ended well, also when the deadline passed meanwhile: the deadline's
\* ErrTimeout may be replaced by the invoker's own error, never by a success.  Only a
\* deadline that passes before the answer begins can give a success without output.
PartIsNoSuccess ==
  h = "returned" /\ left # "forced" /\ conn = "open" /\ val = "reader"
  /\ Told = "success" /\ OutputIn(rsp.wire) # <<>>
  => /\ child.st = "reaped" /\ child.status = "ok"
     /\ OutputIn(rsp.wire) = Written(Available)

Promise ==
  INSTANCE Answer WITH
    written <- Available,
    done <- DoneWell,
    cut <- ctx = "deadline" \/ conn = "gone",
    got <- OutputIn(rsp.wire),
    end <- Told,
    forsaken <- left = "forced"

\* Every answer, by whatever goroutines, buffers and pipes it comes, is the output
\* in order; it ends once, and in success only when the output was complete and its
\* child has done well, or when somebody has cut it short.
AnswerAsPromised == Promise!Spec

-----------------------------------------------------------------------------
(* Liveness.                                                               *)

\* A request with a time limit, or whose client is gone, ends, whatever the
\* child and its descendants do; only a client that stays and does not read its
\* answer keeps the handler.
BoundedRequestEnds ==
  (h \in InProcess \cup Closing /\ (rq.timeout \/ conn = "gone")) ~> (h \in Over \/ conn = "stalled")

\* Without base64 the request of a client that reads ends once its child and the
\* child's output have.
EndOfOutputEndsRequest ==
  (h = "select" /\ val = "reader" /\ ~rq.base64 /\ child.st # "running" /\ ~child.open)
    ~> (h \in Over \/ conn = "stalled")

\* The child of a request that nothing cuts short (a limit, the client, the
\* deadline) is reaped after it exits.
ReapedUnlessCut ==
  (child.st = "exited" /\ ~child.open /\ ~rq.base64 /\ rq.limit = 0)
    ~> (child.st = "reaped" \/ conn # "open" \/ ctx = "deadline")

-----------------------------------------------------------------------------
(* What the documentation and the comments say and the code does not do.   *)

\* "Waiting for clean exit": every child whose output has ended is waited for, if
\* its client takes the answer.
EveryChildReaped == (child.st = "exited" /\ ~child.open) ~> (child.st = "reaped" \/ conn # "open")

\* "encode raw byte output from invoked application as Base64": all of it.
Base64Complete ==
  h = "returned" /\ err = "nil" /\ val = "reader" /\ conn = "open" /\ ctx # "deadline"
  /\ rq.base64 /\ rsp.kind = "rpc" /\ rsp.id = "given"
  => Delivered = Written(4 * ((child.wrote + 2) \div 3))

\* "Line JSON encoding with header and footer", "errors should always be written",
\* and the maximum size "excludes JSON wrapping": a connected client of a stream whose
\* output is not larger than the maximum sees how it ended.
StreamTerminated ==
  h = "returned" /\ rsp.kind = "streaming" /\ conn = "open" /\ left # "forced"
  /\ (rq.limit = 0 \/ Available <= rq.limit)
  => rsp.wire # <<>> /\ Terminal(rsp.wire[Len(rsp.wire)])

=============================================================================
