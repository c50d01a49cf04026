--------------------------- MODULE HelperExchange ---------------------------
(***************************************************************************)
(* One request and its answer between the command and the helper, byte by  *)
(* byte: helperproto's frames over the helper's standard streams or over   *)
(* its socket.  A stream is the number of bytes written to it and whether  *)
(* its writer has closed it; what the bytes say is fixed by the request.   *)
(* The decoder wants the end of the stream after the frame, so that each   *)
(* side may wait for the other: that, and frames that are cut off at any   *)
(* byte, is what this module is about.                                     *)
(***************************************************************************)
EXTENDS Naturals

CONSTANTS
    Sizes,            \* lengths of marshalled requests
    LengthBytes,      \* the length prefix: 4 bytes in the code
    MaxRequestBytes,  \* the limit on requests: 64 KiB in the code
    SecretFrameBytes, \* the secret frame of a connect: 68 bytes in the code
    ResponseBytes     \* the length of a marshalled answer

ASSUME SizeAssumption ==
    /\ Sizes \subseteq Nat \ {0}
    /\ LengthBytes \in Nat \ {0}
    /\ MaxRequestBytes \in Nat \ {0}
    /\ SecretFrameBytes \in Nat \ {0}
    /\ ResponseBytes \in 1..MaxRequestBytes

VARIABLES
    request,  \* the operation, its marshalled size and the transport it goes over
    client,   \* the command: control point and the outcome it reports
    daemon,   \* the helper: control point and what it did
    up,       \* bytes written from command to helper
    upEnd,    \* the command has closed its writing side
    down,     \* bytes written from helper to command
    downEnd   \* the helper has closed its writing side

vars == <<request, client, daemon, up, upEnd, down, downEnd>>
upward == <<up, upEnd>>
downward == <<down, downEnd>>

Requests == [op : {"connect", "disconnect"}, size : Sizes, via : {"pipe", "socket"}]

\* Connect only ever goes to a helper that is being started; a disconnect
\* stands for recover too, and for status on the socket.
Legal(r) == r.op = "connect" => r.via = "pipe"

ClientStates ==
    [pc : {"start", "length", "body", "secrets", "close", "answerLength", "answer",
           "kill", "cancelled", "wait", "done", "dead"},
     outcome : {"none", "ok", "fail", "error"}]

DaemonStates ==
    [pc : {"length", "body", "secrets", "eof", "handle", "answerLength", "answer", "serve",
           "done", "refused", "dead"},
     handled : {"none", "ok", "fail"}]

Init ==
    /\ request \in {r \in Requests : Legal(r)}
    /\ client = [pc |-> "start", outcome |-> "none"]
    /\ daemon = [pc |-> "length", handled |-> "none"]
    /\ up = 0 /\ upEnd = FALSE
    /\ down = 0 /\ downEnd = FALSE

\* Where the parts of the request's frame end.
BodyEnd == LengthBytes + request.size
FrameEnd == BodyEnd + (IF request.op = "connect" THEN SecretFrameBytes ELSE 0)
AnswerEnd == LengthBytes + ResponseBytes

\* The shape of the state; neither side ever writes past the end of a frame,
\* which is why requireEOF's complaint about trailing data is never heard.
TypeOK ==
    /\ request \in Requests
    /\ client \in ClientStates
    /\ daemon \in DaemonStates
    /\ up \in 0..FrameEnd /\ down \in 0..AnswerEnd
    /\ upEnd \in BOOLEAN /\ downEnd \in BOOLEAN

ClientAt(point) == client.pc = point
DaemonAt(point) == daemon.pc = point
ClientGoes(point) == client' = [client EXCEPT !.pc = point]
DaemonGoes(point) == daemon' = [daemon EXCEPT !.pc = point]

\* Nobody reads the stream any more, so that a write to it fails.
ClientGone == client.pc \in {"done", "dead"}
DaemonGone == daemon.pc \in {"done", "refused", "dead"}

-----------------------------------------------------------------------------
(* The command: EncodeFrame, the half close, DecodeResponse.               *)

\* The command returns; its descriptors are closed.
ClientReturns(outcome) ==
    /\ client' = [pc |-> "done", outcome |-> outcome]
    /\ upEnd' = TRUE

\* An error of EncodeFrame or DecodeResponse.  On the pipe sudo is killed and
\* waited for before the command returns.
ClientFails ==
    \/ /\ request.via = "socket"
       /\ ClientReturns("error")
    \/ /\ request.via = "pipe"
       /\ ClientGoes("kill")
       /\ upEnd' = TRUE

\* EncodeFrame checks the size before it writes anything.
StartFrame ==
    /\ ClientAt("start")
    /\ \/ /\ request.size <= MaxRequestBytes
          /\ ClientGoes("length")
          /\ UNCHANGED upEnd
       \/ /\ request.size > MaxRequestBytes
          /\ ClientFails
    /\ UNCHANGED <<request, daemon, up, downward>>

\* One Write call that brings the stream to end, or fails for want of a reader.
WriteTo(point, end, next) ==
    /\ ClientAt(point)
    /\ \/ /\ up' = end
          /\ ClientGoes(next)
          /\ UNCHANGED upEnd
       \/ /\ DaemonGone
          /\ ClientFails
          /\ UNCHANGED up
    /\ UNCHANGED <<request, daemon, downward>>

WriteLength == WriteTo("length", LengthBytes, "body")
WriteBody == WriteTo("body", BodyEnd, IF request.op = "connect" THEN "secrets" ELSE "close")

WriteSecrets == WriteTo("secrets", FrameEnd, "close")

\* Mutant of HalfClose: the writing side stays open.
HalfCloseForgotten ==
    /\ ClientAt("close")
    /\ ClientGoes("answerLength")
    /\ UNCHANGED <<request, daemon, up, upEnd, downward>>

\* stdin.Close on the pipe, CloseWrite on the socket.
HalfClose ==
    /\ ClientAt("close")
    /\ upEnd' = TRUE
    /\ ClientGoes("answerLength")
    /\ UNCHANGED <<request, daemon, up, downward>>

\* ReadFull for an answer of which the first end bytes are needed.
AnswerArrives(end) == down >= end
AnswerCut(end) == downEnd /\ down < end

\* Mutant of ReadAnswerLength: a helper that hung up has succeeded.
ReadAnswerLengthOrHangup ==
    /\ ClientAt("answerLength")
    /\ \/ /\ AnswerArrives(LengthBytes)
          /\ ClientGoes("answer")
          /\ UNCHANGED upEnd
       \/ /\ AnswerCut(LengthBytes)
          /\ ClientReturns("ok")
    /\ UNCHANGED <<request, daemon, up, downward>>

ReadAnswerLength ==
    /\ ClientAt("answerLength")
    /\ \/ /\ AnswerArrives(LengthBytes)
          /\ ClientGoes("answer")
          /\ UNCHANGED upEnd
       \/ /\ AnswerCut(LengthBytes)
          /\ ClientFails
    /\ UNCHANGED <<request, daemon, up, downward>>

\* A helper that connected keeps its output open and lives on: the process is
\* released.  Every other helper on the pipe is waited for.
Released == request.via = "socket" \/ (request.op = "connect" /\ daemon.handled = "ok")

ReadAnswer ==
    /\ ClientAt("answer")
    /\ \/ /\ AnswerArrives(AnswerEnd) /\ Released
          /\ ClientReturns(daemon.handled)
       \/ /\ AnswerArrives(AnswerEnd) /\ ~Released
          /\ ClientGoes("wait")
          /\ UNCHANGED upEnd
       \/ /\ AnswerCut(AnswerEnd)
          /\ ClientFails
    /\ UNCHANGED <<request, daemon, up, downward>>

\* command.Wait returns once the helper has ended.  Its exit only counts
\* after a success: a failure is reported as such.
WaitEnds ==
    /\ client.pc \in {"kill", "cancelled", "wait"}
    /\ DaemonGone
    /\ ClientReturns(IF ClientAt("wait") /\ ~(daemon.handled = "ok" /\ DaemonAt("dead"))
                     THEN daemon.handled ELSE "error")
    /\ UNCHANGED <<request, daemon, up, downward>>

\* The kill ended sudo, and with it the wait; the helper may live on.  The
\* system refuses it when sudo runs as root, which the code ignores.
Killed ==
    /\ client.pc \in {"kill", "cancelled"}
    /\ ClientReturns("error")
    /\ UNCHANGED <<request, daemon, up, downward>>

\* Of a write that is interrupted, any part may be in the stream.
PartOfWrite ==
    CASE ClientAt("length") -> 0..LengthBytes
      [] ClientAt("body") -> LengthBytes..BodyEnd
      [] ClientAt("secrets") -> BodyEnd..FrameEnd
      [] OTHER -> {up}

\* The context ends.  On the socket its deadline covers every read and write;
\* bootstrap looks at it only while it waits for the answer, and then kills
\* sudo and waits.
ClientGivesUp ==
    /\ \/ /\ request.via = "socket"
          /\ client.pc \in {"length", "body", "answerLength", "answer"}
          /\ ClientReturns("error")
       \/ /\ request.via = "pipe"
          /\ client.pc \in {"answerLength", "answer"}
          /\ ClientGoes("cancelled")
          /\ UNCHANGED upEnd
    /\ up' \in PartOfWrite
    /\ UNCHANGED <<request, daemon, downward>>

\* The command is killed.
ClientDies ==
    /\ ~ClientGone
    /\ client' = [pc |-> "dead", outcome |-> "none"]
    /\ up' \in PartOfWrite
    /\ upEnd' = TRUE
    /\ UNCHANGED <<request, daemon, downward>>

-----------------------------------------------------------------------------
(* The helper: DecodeFrame, the operation, EncodeResponse.                 *)

\* DecodeFrame fails: the connection, or the process, ends without an answer.
Refuse == DaemonGoes("refused") /\ downEnd' = TRUE

\* Mutant of Arrives: one Read, which returns what there is.
ArrivesInPart(end) == up > 0 /\ (up >= end \/ upEnd)

\* ReadFull: all bytes up to end.
Arrives(end) == up >= end

\* ReadFull reports an error when the stream ends before.
Cut(end) == upEnd /\ up < end

\* Mutant of LengthAccepted: off by one at the limit.
LengthAcceptedBelow(n) == n # 0 /\ n < MaxRequestBytes

LengthAccepted(n) == n # 0 /\ n <= MaxRequestBytes

ReadLength ==
    /\ DaemonAt("length")
    /\ \/ /\ Arrives(LengthBytes)
          /\ LengthAccepted(request.size)
          /\ DaemonGoes("body")
          /\ UNCHANGED downEnd
       \/ /\ Cut(LengthBytes) \/ (Arrives(LengthBytes) /\ ~LengthAccepted(request.size))
          /\ Refuse
    /\ UNCHANGED <<request, client, upward, down>>

\* The request is decoded and validated once it is complete.
ReadBody ==
    /\ DaemonAt("body")
    /\ \/ /\ Arrives(BodyEnd)
          /\ DaemonGoes(IF request.op = "connect" THEN "secrets" ELSE "eof")
          /\ UNCHANGED downEnd
       \/ Cut(BodyEnd) /\ Refuse
    /\ UNCHANGED <<request, client, upward, down>>

ReadSecrets ==
    /\ DaemonAt("secrets")
    /\ \/ /\ Arrives(FrameEnd)
          /\ DaemonGoes("eof")
          /\ UNCHANGED downEnd
       \/ Cut(FrameEnd) /\ Refuse
    /\ UNCHANGED <<request, client, upward, down>>

\* requireEOF waits for one more byte or the end of the stream.
RequireEOF ==
    /\ DaemonAt("eof")
    /\ upEnd \/ up > FrameEnd
    /\ DaemonGoes(IF up > FrameEnd THEN "refused" ELSE "handle")
    /\ downEnd' = (up > FrameEnd)
    /\ UNCHANGED <<request, client, upward, down>>

\* The operation, as ConnectionLifecycle and TunnelTransaction have it.  A
\* connect that has no state directory or no listener ends without an answer.
HandleRequest ==
    /\ DaemonAt("handle")
    /\ \/ /\ \E result \in {"ok", "fail"} :
               daemon' = [pc |-> "answerLength", handled |-> result]
          /\ UNCHANGED downEnd
       \/ /\ request.op = "connect"
          /\ daemon' = [pc |-> "done", handled |-> "fail"]
          /\ downEnd' = TRUE
    /\ UNCHANGED <<request, client, upward, down>>

\* One Write call of EncodeResponse.  It fails when the command is gone.
AnswerTo(point, end, next) ==
    /\ DaemonAt(point)
    /\ \/ /\ down' = end
          /\ DaemonGoes(next)
          /\ downEnd' = (next = "done")
       \/ /\ ClientGone
          /\ DaemonGoes("done")
          /\ downEnd' = TRUE
          /\ UNCHANGED down
    /\ UNCHANGED <<request, client, upward>>

\* A helper that connected goes on to serve and keeps its output open.
AfterAnswer == IF request.op = "connect" /\ daemon.handled = "ok" THEN "serve" ELSE "done"

WriteAnswerLength == AnswerTo("answerLength", LengthBytes, "answer")
WriteAnswer == AnswerTo("answer", AnswerEnd, AfterAnswer)

\* The socket has a deadline; a helper on a pipe has none.
DaemonGivesUp ==
    /\ request.via = "socket"
    /\ daemon.pc \in {"length", "body", "eof"}
    /\ Refuse
    /\ UNCHANGED <<request, client, upward, down>>

DaemonDies ==
    /\ ~DaemonGone
    /\ daemon' = [daemon EXCEPT !.pc = "dead"]
    /\ down' \in CASE DaemonAt("answerLength") -> 0..LengthBytes
                   [] DaemonAt("answer") -> LengthBytes..AnswerEnd
                   [] OTHER -> {down}
    /\ downEnd' = TRUE
    /\ UNCHANGED <<request, client, upward>>

ClientStep ==
    \/ StartFrame \/ WriteLength \/ WriteBody \/ WriteSecrets \/ HalfClose
    \/ ReadAnswerLength \/ ReadAnswer \/ WaitEnds

DaemonStep ==
    \/ ReadLength \/ ReadBody \/ ReadSecrets \/ RequireEOF
    \/ HandleRequest \/ WriteAnswerLength \/ WriteAnswer

Next ==
    \/ ClientStep \/ Killed \/ ClientGivesUp \/ ClientDies
    \/ DaemonStep \/ DaemonGivesUp \/ DaemonDies

Spec == Init /\ [][Next]_vars

\* Both sides run; that a deadline passes, a user gives up, or a kill is
\* allowed, is not assumed.
FairSpec == Spec /\ WF_vars(ClientStep) /\ WF_vars(DaemonStep)

-----------------------------------------------------------------------------
(* Properties.                                                             *)

\* The helper acts only on a request, with the keys of a connect, that the
\* command wrote to its last byte, wherever the writer may have died.
OnlyWholeRequests ==
    daemon.pc \in {"handle", "answerLength", "answer", "serve"} \/ daemon.handled # "none"
        => up = FrameEnd

\* The limits of the two sides agree: the helper refuses a request only if
\* the command gave up, died or did not write it completely, or the helper's
\* own deadline passed.
WholeRequestsAccepted ==
    DaemonAt("refused") /\ request.via = "pipe" => client.pc \in {"kill", "done", "dead"} /\ up < FrameEnd

\* The command reports what the helper did: an outcome other than an error
\* is the result of the operation.
AnswersAreReal == client.outcome \in {"ok", "fail"} => client.outcome = daemon.handled

\* Neither side waits for the other for ever although no deadline and no kill is
\* relied on: every exchange ends, also with a helper that stays alive
\* afterwards, but for a connect that is cancelled.  Of that one the kill may
\* be refused, and the command then waits as long as the connection is served.
ExchangeEnds == <>(ClientGone \/ (ClientAt("cancelled") /\ DaemonAt("serve")))

-----------------------------------------------------------------------------
(* The inductive invariant behind the safety properties.                   *)

\* How far the command is in its frame.  It writes nothing of a request over
\* the limit, and its writing side is open until the frame is complete.
CommandWrote ==
    /\ client.pc \in {"start", "length"} => up = 0
    /\ ClientAt("body") => up = LengthBytes
    /\ ClientAt("secrets") => up = BodyEnd /\ request.op = "connect"
    /\ client.pc \in {"close", "answerLength", "answer", "cancelled", "wait"} => up = FrameEnd
    /\ ClientAt("wait") => daemon.handled # "none"
    /\ up > 0 \/ ClientAt("length") => request.size <= MaxRequestBytes
    /\ upEnd <=> client.pc \in {"answerLength", "answer", "kill", "cancelled", "wait", "done", "dead"}
    /\ client.outcome # "none" => ClientAt("done")

\* How much of the frame the helper has seen, and what it has answered.
HelperRead ==
    /\ DaemonAt("body") => up >= LengthBytes
    /\ DaemonAt("secrets") => up >= BodyEnd
    /\ DaemonAt("eof") => up = FrameEnd
    /\ daemon.pc \in {"length", "body", "secrets", "eof", "handle", "refused"} => daemon.handled = "none"
    /\ daemon.pc \in {"answerLength", "answer", "serve"} => daemon.handled # "none"
    /\ DaemonAt("answerLength") => down = 0
    /\ DaemonAt("answer") => down = LengthBytes
    /\ down > 0 => daemon.handled # "none"

ExchangeInv ==
    /\ TypeOK
    /\ CommandWrote
    /\ HelperRead
    /\ OnlyWholeRequests
    /\ WholeRequestsAccepted
    /\ AnswersAreReal

=============================================================================
