------------------------ MODULE HelperExchangeProofs ------------------------
(* Proofs about HelperExchange: the helper acts on whole requests only, it  *)
(* refuses no whole one, and the command reports what the helper did, for   *)
(* every size of request, prefix, secrets and answer.                       *)
EXTENDS HelperExchange, TLAPS

\* The parts of a frame follow one another.
LEMMA FrameFacts ==
    ASSUME request \in Requests
    PROVE  /\ LengthBytes \in Nat /\ BodyEnd \in Nat /\ FrameEnd \in Nat /\ AnswerEnd \in Nat
           /\ request.size \in Nat /\ request.size # 0 /\ MaxRequestBytes \in Nat
           /\ 0 < LengthBytes /\ LengthBytes < BodyEnd /\ BodyEnd <= FrameEnd /\ LengthBytes < AnswerEnd
           /\ request.op # "connect" => FrameEnd = BodyEnd
<1>1. /\ request.size \in Sizes
      /\ LengthBytes \in Nat /\ LengthBytes # 0 /\ SecretFrameBytes \in Nat
      /\ ResponseBytes \in Nat /\ ResponseBytes # 0 /\ MaxRequestBytes \in Nat
  BY SizeAssumption DEF Requests
<1>2. request.size \in Nat /\ request.size # 0
  BY <1>1, SizeAssumption
<1> QED
  BY <1>1, <1>2 DEF BodyEnd, FrameEnd, AnswerEnd

\* Nothing has been written before the exchange.
THEOREM ExchangeInitial == Init => ExchangeInv
<1> SUFFICES ASSUME Init PROVE ExchangeInv
  OBVIOUS
<1>1. request \in Requests
  BY DEF Init
<1>2. /\ LengthBytes \in Nat /\ FrameEnd \in Nat /\ AnswerEnd \in Nat
  BY <1>1, FrameFacts
<1>3. /\ client \in ClientStates /\ daemon \in DaemonStates
      /\ client.pc = "start" /\ client.outcome = "none" /\ daemon.pc = "length" /\ daemon.handled = "none"
  BY DEF Init, ClientStates, DaemonStates
<1>4. upEnd \in BOOLEAN /\ ~upEnd /\ downEnd \in BOOLEAN
  BY DEF Init
<1>5. up = 0 /\ down = 0
  BY DEF Init
<1>6. TypeOK
  BY <1>1, <1>2, <1>3, <1>4, <1>5 DEF TypeOK
<1>7. CommandWrote /\ HelperRead
  BY <1>3, <1>4, <1>5 DEF CommandWrote, HelperRead, ClientAt, DaemonAt
<1> QED
  BY <1>3, <1>6, <1>7 DEF ExchangeInv, OnlyWholeRequests, WholeRequestsAccepted, AnswersAreReal, DaemonAt

\* Of a write that is interrupted no more is in the stream than the frame has,
\* and what was there stays.
LEMMA PartFacts ==
    ASSUME TypeOK, CommandWrote, NEW n \in PartOfWrite
    PROVE  n \in 0..FrameEnd /\ up <= n /\ (n > 0 => request.size <= MaxRequestBytes)
<1>1. request \in Requests /\ up \in 0..FrameEnd
  BY DEF TypeOK
<1>2. /\ LengthBytes \in Nat /\ BodyEnd \in Nat /\ FrameEnd \in Nat
      /\ 0 < LengthBytes /\ LengthBytes < BodyEnd /\ BodyEnd <= FrameEnd
  BY <1>1, FrameFacts
<1>3. CASE ClientAt("length")
  BY <1>1, <1>2, <1>3 DEF PartOfWrite, CommandWrote, ClientAt
<1>4. CASE ClientAt("body")
  BY <1>1, <1>2, <1>4 DEF PartOfWrite, CommandWrote, ClientAt
<1>5. CASE ClientAt("secrets")
  BY <1>1, <1>2, <1>5 DEF PartOfWrite, CommandWrote, ClientAt
<1>6. CASE client.pc \notin {"length", "body", "secrets"}
  <2>1. n = up
    BY <1>6 DEF PartOfWrite, ClientAt
  <2> QED
    BY <1>1, <1>2, <2>1 DEF CommandWrote
<1> QED
  BY <1>3, <1>4, <1>5, <1>6 DEF ClientAt

\* The command moves on, having written up to n: what it owes the invariant.
LEMMA CommandKeeps ==
    ASSUME ExchangeInv, CommandWrote', client' \in ClientStates, up' \in 0..FrameEnd, up <= up',
           upEnd' \in BOOLEAN, UNCHANGED <<request, daemon, downward>>,
           client.pc \in {"kill", "done", "dead"} => client'.pc \in {"kill", "done", "dead"} /\ up' = up,
           client'.outcome \in {"ok", "fail"} => client'.outcome = daemon.handled
    PROVE  ExchangeInv'
<1>1. /\ request' = request /\ daemon' = daemon /\ down' = down /\ downEnd' = downEnd
      /\ FrameEnd' = FrameEnd /\ BodyEnd' = BodyEnd
  BY DEF downward, FrameEnd, BodyEnd
<1>2. /\ request \in Requests /\ up \in 0..FrameEnd /\ LengthBytes \in Nat /\ BodyEnd \in Nat /\ FrameEnd \in Nat
  BY FrameFacts DEF ExchangeInv, TypeOK
<1>3. TypeOK'
  BY <1>1 DEF ExchangeInv, TypeOK
<1>4. HelperRead'
  BY <1>1, <1>2 DEF ExchangeInv, HelperRead, DaemonAt
<1>5. OnlyWholeRequests'
  BY <1>1, <1>2 DEF ExchangeInv, OnlyWholeRequests
<1>6. WholeRequestsAccepted'
  BY <1>1, <1>2 DEF ExchangeInv, WholeRequestsAccepted, DaemonAt
<1>7. AnswersAreReal'
  BY <1>1 DEF AnswersAreReal
<1> QED
  BY <1>3, <1>4, <1>5, <1>6, <1>7 DEF ExchangeInv

\* What a step of the command does, and that it keeps the invariant.
LEMMA CommandStep ==
    ASSUME ExchangeInv, ClientStep \/ Killed \/ ClientGivesUp \/ ClientDies
    PROVE  ExchangeInv'
<1>1. /\ request \in Requests /\ client \in ClientStates /\ up \in 0..FrameEnd /\ upEnd \in BOOLEAN
      /\ TypeOK /\ CommandWrote /\ HelperRead /\ AnswersAreReal
  BY DEF ExchangeInv, TypeOK
<1>2. /\ LengthBytes \in Nat /\ BodyEnd \in Nat /\ FrameEnd \in Nat
      /\ 0 < LengthBytes /\ LengthBytes < BodyEnd /\ BodyEnd <= FrameEnd
      /\ request.op # "connect" => FrameEnd = BodyEnd
  BY <1>1, FrameFacts
<1>3. request' = request => BodyEnd' = BodyEnd /\ FrameEnd' = FrameEnd
  BY DEF BodyEnd, FrameEnd
<1>4. ASSUME NEW point, client.pc \notin {"done", "dead"}, client.outcome = "none", ClientGoes(point),
             point \in {"length", "body", "secrets", "close", "answerLength", "answer", "kill", "cancelled", "wait"}
      PROVE  client' \in ClientStates /\ client'.pc = point /\ client'.outcome = "none"
  BY <1>1, <1>4 DEF ClientGoes, ClientStates
<1>5. ASSUME client.pc \notin {"done", "dead"} PROVE client.outcome = "none"
  BY <1>1, <1>5 DEF CommandWrote, ClientAt
<1>6. ASSUME NEW o \in {"none", "ok", "fail", "error"}, NEW point \in {"done", "dead"},
             point = "dead" => o = "none", o \in {"ok", "fail"} => o = daemon.handled,
             ~ClientGone, client' = [pc |-> point, outcome |-> o], upEnd' = TRUE, up' \in PartOfWrite,
             UNCHANGED <<request, daemon, downward>>
      PROVE  ExchangeInv'
  <2>1. client' \in ClientStates /\ client'.pc = point /\ client'.outcome = o
    BY <1>6 DEF ClientStates
  <2>2. up' \in 0..FrameEnd /\ up <= up' /\ (up' > 0 => request.size <= MaxRequestBytes)
    BY <1>1, <1>6, PartFacts
  <2>3. CommandWrote'
    BY <1>3, <1>6, <2>1, <2>2 DEF CommandWrote, ClientAt
  <2>4. client.pc \in {"kill", "done", "dead"} => up' = up
    BY <1>6 DEF PartOfWrite, ClientAt, ClientGone
  <2> QED
    BY <1>6, <2>1, <2>2, <2>3, <2>4, CommandKeeps
<1>7. up \in PartOfWrite
  BY <1>1, <1>2 DEF PartOfWrite, CommandWrote, ClientAt
<1>8. ASSUME ~ClientGone, ClientFails, UNCHANGED <<request, daemon, up, downward>>
      PROVE  ExchangeInv'
  <2>1. CASE ClientReturns("error")
    BY <1>6, <1>7, <1>8, <2>1 DEF ClientReturns
  <2>2. CASE ClientGoes("kill") /\ upEnd' = TRUE
    <3>1. client.pc \notin {"done", "dead"} /\ up' = up /\ UNCHANGED <<request, daemon, downward>>
      BY <1>8 DEF ClientGone
    <3>2. client' \in ClientStates /\ client'.pc = "kill" /\ client'.outcome = "none"
      BY <1>4, <1>5, <2>2, <3>1
    <3>3. CommandWrote'
      BY <1>1, <1>3, <2>2, <3>1, <3>2 DEF CommandWrote, ClientAt
    <3> QED
      BY <1>1, <1>2, <1>8, <2>2, <3>1, <3>2, <3>3, CommandKeeps
  <2> QED
    BY <1>8, <2>1, <2>2 DEF ClientFails
<1>9. CASE StartFrame
  <2>1. CASE request.size <= MaxRequestBytes /\ ClientGoes("length") /\ UNCHANGED upEnd
    <3>1. client.pc = "start" /\ up' = up /\ UNCHANGED <<request, daemon, downward>>
      BY <1>9 DEF StartFrame, ClientAt
    <3>2. client' \in ClientStates /\ client'.pc = "length" /\ client'.outcome = "none"
      BY <1>4, <1>5, <2>1, <3>1
    <3>3. CommandWrote'
      BY <1>1, <1>3, <2>1, <3>1, <3>2 DEF CommandWrote, ClientAt
    <3> QED
      BY <1>1, <1>2, <2>1, <3>1, <3>2, <3>3, CommandKeeps DEF ClientGone
  <2>2. CASE ClientFails
    BY <1>8, <1>9, <2>2 DEF StartFrame, ClientAt, ClientGone
  <2> QED
    BY <1>9, <2>1, <2>2 DEF StartFrame
<1>10. ASSUME NEW point \in {"length", "body", "secrets"}, NEW end \in {LengthBytes, BodyEnd, FrameEnd},
             NEW next \in {"body", "secrets", "close"}, WriteTo(point, end, next),
             point = "length" => end = LengthBytes /\ next = "body",
             point = "body" => end = BodyEnd /\ (IF request.op = "connect" THEN next = "secrets" ELSE next = "close"),
             point = "secrets" => end = FrameEnd /\ next = "close"
      PROVE  ExchangeInv'
  <2>1. client.pc = point /\ UNCHANGED <<request, daemon, downward>>
    BY <1>10 DEF WriteTo, ClientAt
  <2>2. CASE up' = end /\ ClientGoes(next) /\ UNCHANGED upEnd
    <3>1. client' \in ClientStates /\ client'.pc = next /\ client'.outcome = "none"
      BY <1>4, <1>5, <2>1, <2>2
    <3>2. up' \in 0..FrameEnd /\ up <= up'
      BY <1>1, <1>2, <1>10, <2>1, <2>2 DEF CommandWrote, ClientAt
    <3>3. request.size <= MaxRequestBytes
      BY <1>1, <1>2, <1>10, <2>1 DEF CommandWrote, ClientAt
    <3>4. CommandWrote'
      BY <1>1, <1>2, <1>3, <1>10, <2>1, <2>2, <3>1, <3>3 DEF CommandWrote, ClientAt
    <3> QED
      BY <1>1, <2>1, <2>2, <3>1, <3>2, <3>4, CommandKeeps DEF ClientGone
  <2>3. CASE ClientFails /\ UNCHANGED up
    BY <1>8, <2>1, <2>3 DEF ClientGone
  <2> QED
    BY <1>10, <2>2, <2>3 DEF WriteTo
<1>11. CASE WriteLength \/ WriteBody \/ WriteSecrets
  BY <1>10, <1>11 DEF WriteLength, WriteBody, WriteSecrets
<1>12. ASSUME NEW from \in {"close", "answerLength", "answer"}, ClientAt(from),
              NEW point \in {"answerLength", "answer", "cancelled", "wait"}, ClientGoes(point),
              point = "wait" => daemon.handled # "none",
              up' = up, upEnd', UNCHANGED <<request, daemon, downward>>
       PROVE  ExchangeInv'
  <2>1. client' \in ClientStates /\ client'.pc = point /\ client'.outcome = "none" /\ client.pc = from
    BY <1>4, <1>5, <1>12 DEF ClientAt
  <2>2. CommandWrote'
    BY <1>1, <1>2, <1>3, <1>12, <2>1 DEF CommandWrote, ClientAt
  <2> QED
    BY <1>1, <1>2, <1>12, <2>1, <2>2, CommandKeeps DEF ClientGone
<1>13. CASE HalfClose
  BY <1>12, <1>13 DEF HalfClose
<1>14. client.pc \in {"answerLength", "answer"} => upEnd
  BY <1>1 DEF CommandWrote
<1>15. CASE ReadAnswerLength
  <2>1. ClientAt("answerLength") /\ upEnd /\ up' = up /\ UNCHANGED <<request, daemon, downward>>
    BY <1>14, <1>15 DEF ReadAnswerLength, ClientAt
  <2>2. CASE ClientGoes("answer") /\ UNCHANGED upEnd
    BY <1>12, <2>1, <2>2
  <2>3. CASE ClientFails
    BY <1>8, <2>1, <2>3 DEF ClientGone, ClientAt
  <2> QED
    BY <1>15, <2>2, <2>3 DEF ReadAnswerLength
<1>16. CASE ReadAnswer
  <2>1. ClientAt("answer") /\ upEnd /\ up' = up /\ UNCHANGED <<request, daemon, downward>>
    BY <1>14, <1>16 DEF ReadAnswer, ClientAt
  <2>2. ASSUME AnswerArrives(AnswerEnd)
        PROVE  daemon.handled \in {"ok", "fail"}
    <3>1. down > 0
      BY <1>1, <2>2, FrameFacts DEF AnswerArrives, TypeOK
    <3> QED
      BY <1>1, <3>1 DEF HelperRead, TypeOK, DaemonStates
  <2>3. CASE AnswerArrives(AnswerEnd) /\ ClientReturns(daemon.handled)
    BY <1>6, <1>7, <2>1, <2>2, <2>3 DEF ClientReturns, ClientGone, ClientAt
  <2>4. CASE AnswerArrives(AnswerEnd) /\ ClientGoes("wait") /\ UNCHANGED upEnd
    BY <1>12, <2>1, <2>2, <2>4
  <2>5. CASE ClientFails
    BY <1>8, <2>1, <2>5 DEF ClientGone, ClientAt
  <2> QED
    BY <1>16, <2>3, <2>4, <2>5 DEF ReadAnswer
<1>17. CASE WaitEnds
  <2>1. client.pc \in {"kill", "cancelled", "wait"} /\ UNCHANGED <<request, daemon, up, downward>>
    BY <1>17 DEF WaitEnds
  <2>2. daemon.handled \in {"none", "ok", "fail"}
    BY <1>1 DEF TypeOK, DaemonStates
  <2>3. PICK o \in {"none", "ok", "fail", "error"} : ClientReturns(o) /\ (o = "error" \/ o = daemon.handled)
    BY <1>17, <2>2 DEF WaitEnds
  <2> QED
    BY <1>6, <1>7, <2>1, <2>3 DEF ClientReturns, ClientGone
<1>18. CASE Killed
  BY <1>6, <1>7, <1>18 DEF Killed, ClientReturns, ClientGone
<1>19. CASE ClientGivesUp
  <2>1. CASE request.via = "socket" /\ ClientReturns("error")
    BY <1>6, <1>19, <2>1 DEF ClientGivesUp, ClientReturns, ClientGone
  <2>2. CASE request.via = "pipe" /\ client.pc \in {"answerLength", "answer"} /\ ClientGoes("cancelled") /\ UNCHANGED upEnd
    <3>1. up' = up /\ UNCHANGED <<request, daemon, downward>>
      BY <1>19, <2>2 DEF ClientGivesUp, PartOfWrite, ClientAt
    <3> QED
      BY <1>12, <1>14, <2>2, <3>1 DEF ClientAt
  <2> QED
    BY <1>19, <2>1, <2>2 DEF ClientGivesUp
<1>20. CASE ClientDies
  BY <1>6, <1>20 DEF ClientDies
<1> QED
  BY <1>9, <1>11, <1>13, <1>15, <1>16, <1>17, <1>18, <1>19, <1>20 DEF ClientStep

\* The helper moves on: what it owes the invariant.
LEMMA HelperKeeps ==
    ASSUME ExchangeInv, HelperRead', OnlyWholeRequests', daemon' \in DaemonStates, downEnd' \in BOOLEAN,
           down' \in 0..AnswerEnd, UNCHANGED <<request, client, upward>>,
           daemon'.pc = "refused" /\ request.via = "pipe" => client.pc \in {"kill", "done", "dead"} /\ up < FrameEnd,
           daemon'.handled # daemon.handled => daemon.handled = "none"
    PROVE  ExchangeInv'
<1>1. /\ request' = request /\ client' = client /\ up' = up /\ upEnd' = upEnd
      /\ FrameEnd' = FrameEnd /\ BodyEnd' = BodyEnd /\ AnswerEnd' = AnswerEnd
  BY DEF upward, FrameEnd, BodyEnd, AnswerEnd
<1>2. TypeOK'
  BY <1>1 DEF ExchangeInv, TypeOK
<1>3. CommandWrote'
  BY <1>1 DEF ExchangeInv, CommandWrote, ClientAt
<1>4. WholeRequestsAccepted'
  BY <1>1 DEF WholeRequestsAccepted, DaemonAt
<1>5. AnswersAreReal'
  BY <1>1 DEF ExchangeInv, AnswersAreReal
<1> QED
  BY <1>2, <1>3, <1>4, <1>5 DEF ExchangeInv

\* The helper moves on without having done the operation or said anything.
LEMMA HelperReads ==
    ASSUME ExchangeInv, daemon.handled = "none", NEW point, DaemonGoes(point), downEnd' \in BOOLEAN,
           UNCHANGED <<request, client, upward, down>>,
           point \in {"body", "secrets", "eof", "handle", "refused"},
           point = "body" => up >= LengthBytes,
           point = "secrets" => up >= BodyEnd,
           point \in {"eof", "handle"} => up = FrameEnd,
           point = "refused" /\ request.via = "pipe" => client.pc \in {"kill", "done", "dead"} /\ up < FrameEnd
    PROVE  ExchangeInv'
<1>1. daemon' \in DaemonStates /\ daemon'.pc = point /\ daemon'.handled = "none"
  BY DEF ExchangeInv, TypeOK, DaemonStates, DaemonGoes
<1>2. /\ request' = request /\ client' = client /\ up' = up /\ upEnd' = upEnd /\ down' = down
      /\ FrameEnd' = FrameEnd /\ BodyEnd' = BodyEnd
  BY DEF upward, FrameEnd, BodyEnd
<1>3. HelperRead'
  BY <1>1, <1>2 DEF ExchangeInv, HelperRead, DaemonAt
<1>4. OnlyWholeRequests'
  BY <1>1, <1>2 DEF OnlyWholeRequests
<1>5. down' \in 0..AnswerEnd
  BY <1>2 DEF ExchangeInv, TypeOK
<1> QED
  BY <1>1, <1>3, <1>4, <1>5, HelperKeeps

\* The steps with which the helper reads the request.
LEMMA ReadingStep ==
    ASSUME ExchangeInv, ReadLength \/ ReadBody \/ ReadSecrets \/ RequireEOF \/ DaemonGivesUp
    PROVE  ExchangeInv'
<1>1. /\ request \in Requests /\ up \in 0..FrameEnd /\ upEnd \in BOOLEAN /\ downEnd \in BOOLEAN
      /\ CommandWrote /\ HelperRead /\ client \in ClientStates
  BY DEF ExchangeInv, TypeOK
<1>2. /\ LengthBytes \in Nat /\ BodyEnd \in Nat /\ FrameEnd \in Nat
      /\ 0 < LengthBytes /\ LengthBytes < BodyEnd /\ BodyEnd <= FrameEnd
      /\ request.op # "connect" => FrameEnd = BodyEnd
      /\ request.size \in Nat /\ request.size # 0
  BY <1>1, FrameFacts
<1>3. daemon.handled = "none" /\ UNCHANGED <<request, client, upward, down>>
  BY <1>1 DEF ReadLength, ReadBody, ReadSecrets, RequireEOF, DaemonGivesUp, HelperRead, DaemonAt
<1>4. ASSUME NEW end \in {LengthBytes, BodyEnd, FrameEnd}, Cut(end)
      PROVE  client.pc \in {"kill", "done", "dead"} /\ up < FrameEnd
  BY <1>1, <1>2, <1>4 DEF Cut, CommandWrote, ClientAt
<1>5. ASSUME NEW end \in {LengthBytes, BodyEnd, FrameEnd}, Cut(end), Refuse PROVE ExchangeInv'
  BY <1>3, <1>4, <1>5, HelperReads DEF Refuse
<1>6. CASE ReadLength
  <2>1. CASE Arrives(LengthBytes) /\ DaemonGoes("body") /\ UNCHANGED downEnd
    BY <1>1, <1>3, <2>1, HelperReads DEF Arrives
  <2>2. Arrives(LengthBytes) => LengthAccepted(request.size)
    BY <1>1, <1>2 DEF Arrives, LengthAccepted, CommandWrote
  <2> QED
    BY <1>5, <1>6, <2>1, <2>2 DEF ReadLength
<1>7. CASE ReadBody
  <2>1. CASE Arrives(BodyEnd) /\ request.op = "connect" /\ DaemonGoes("secrets") /\ UNCHANGED downEnd
    BY <1>1, <1>3, <2>1, HelperReads DEF Arrives
  <2>2. CASE Arrives(BodyEnd) /\ request.op # "connect" /\ DaemonGoes("eof") /\ UNCHANGED downEnd
    <3>1. up = FrameEnd
      BY <1>1, <1>2, <2>2 DEF Arrives
    <3> QED
      BY <1>1, <1>3, <2>2, <3>1, HelperReads
  <2> QED
    BY <1>5, <1>7, <2>1, <2>2 DEF ReadBody
<1>8. CASE ReadSecrets
  <2>1. CASE Arrives(FrameEnd) /\ DaemonGoes("eof") /\ UNCHANGED downEnd
    <3>1. up = FrameEnd
      BY <1>1, <1>2, <2>1 DEF Arrives
    <3> QED
      BY <1>1, <1>3, <2>1, <3>1, HelperReads
  <2> QED
    BY <1>5, <1>8, <2>1 DEF ReadSecrets
<1>9. CASE RequireEOF
  <2>1. up = FrameEnd /\ ~(up > FrameEnd)
    BY <1>1, <1>2, <1>9 DEF RequireEOF, HelperRead, DaemonAt
  <2>2. DaemonGoes("handle")
    BY <1>9, <2>1 DEF RequireEOF
  <2>3. downEnd' \in BOOLEAN
    BY <1>9 DEF RequireEOF
  <2> QED
    BY <1>3, <2>1, <2>2, <2>3, HelperReads
<1>10. CASE DaemonGivesUp
  <2>1. request.via = "socket" /\ DaemonGoes("refused") /\ downEnd' = TRUE
    BY <1>10 DEF DaemonGivesUp, Refuse
  <2> QED
    BY <1>3, <2>1, HelperReads
<1> QED
  BY <1>6, <1>7, <1>8, <1>9, <1>10

\* The operation, the answer, and the death of the helper.
LEMMA AnsweringStep ==
    ASSUME ExchangeInv, HandleRequest \/ WriteAnswerLength \/ WriteAnswer \/ DaemonDies
    PROVE  ExchangeInv'
<1>1. /\ request \in Requests /\ daemon \in DaemonStates /\ down \in 0..AnswerEnd
      /\ downEnd \in BOOLEAN /\ HelperRead /\ OnlyWholeRequests
  BY DEF ExchangeInv, TypeOK
<1>2. LengthBytes \in Nat /\ AnswerEnd \in Nat /\ 0 < LengthBytes /\ LengthBytes < AnswerEnd
  BY <1>1, FrameFacts
<1>3. UNCHANGED <<request, client, upward>>
  BY DEF HandleRequest, WriteAnswerLength, WriteAnswer, AnswerTo, DaemonDies
<1>4. request' = request /\ up' = up /\ FrameEnd' = FrameEnd /\ BodyEnd' = BodyEnd
  BY <1>3 DEF upward, FrameEnd, BodyEnd
<1>5. ASSUME HandleRequest PROVE ExchangeInv'
  <2>1. daemon.pc = "handle" /\ down' = down /\ daemon.handled = "none"
    BY <1>1, <1>5 DEF HandleRequest, DaemonAt, HelperRead
  <2>2. PICK result \in {"ok", "fail"}, point \in {"answerLength", "done"} :
           daemon' = [pc |-> point, handled |-> result]
    BY <1>5 DEF HandleRequest
  <2>3. downEnd' \in BOOLEAN
    BY <1>1, <1>5 DEF HandleRequest
  <2>4. daemon' \in DaemonStates /\ daemon'.pc = point /\ daemon'.handled = result
    BY <2>2 DEF DaemonStates
  <2>5. up = FrameEnd /\ down = 0
    BY <1>1, <2>1 DEF OnlyWholeRequests, HelperRead
  <2>6. HelperRead' /\ OnlyWholeRequests'
    BY <1>4, <2>1, <2>4, <2>5 DEF HelperRead, OnlyWholeRequests, DaemonAt
  <2> QED
    BY <1>1, <1>3, <2>1, <2>3, <2>4, <2>6, HelperKeeps
<1>6. ASSUME daemon.pc \in {"answerLength", "answer"}, NEW point \in {"answer", "serve", "done"}, DaemonGoes(point),
             down' \in 0..AnswerEnd, point = "answer" => down' = LengthBytes, downEnd' \in BOOLEAN
      PROVE  ExchangeInv'
  <2>1. daemon' \in DaemonStates /\ daemon'.pc = point /\ daemon'.handled = daemon.handled
    BY <1>1, <1>6 DEF DaemonGoes, DaemonStates
  <2>2. up = FrameEnd /\ daemon.handled # "none"
    BY <1>1, <1>6 DEF OnlyWholeRequests, HelperRead
  <2>3. HelperRead' /\ OnlyWholeRequests'
    BY <1>4, <1>6, <2>1, <2>2 DEF HelperRead, OnlyWholeRequests, DaemonAt
  <2> QED
    BY <1>3, <1>6, <2>1, <2>3, HelperKeeps
<1>7. CASE WriteAnswerLength
  <2>1. daemon.pc = "answerLength"
    BY <1>7 DEF WriteAnswerLength, AnswerTo, DaemonAt
  <2>2. CASE down' = LengthBytes /\ DaemonGoes("answer") /\ downEnd' = ("answer" = "done")
    BY <1>2, <1>6, <2>1, <2>2
  <2>3. CASE DaemonGoes("done") /\ downEnd' = TRUE /\ UNCHANGED down
    BY <1>1, <1>6, <2>1, <2>3
  <2> QED
    BY <1>7, <2>2, <2>3 DEF WriteAnswerLength, AnswerTo
<1>8. CASE WriteAnswer
  <2>1. daemon.pc = "answer" /\ AfterAnswer \in {"serve", "done"}
    BY <1>8 DEF WriteAnswer, AnswerTo, DaemonAt, AfterAnswer
  <2>2. CASE down' = AnswerEnd /\ DaemonGoes(AfterAnswer) /\ downEnd' = (AfterAnswer = "done")
    BY <1>2, <1>6, <2>1, <2>2
  <2>3. CASE DaemonGoes("done") /\ downEnd' = TRUE /\ UNCHANGED down
    BY <1>1, <1>6, <2>1, <2>3
  <2> QED
    BY <1>8, <2>2, <2>3 DEF WriteAnswer, AnswerTo
<1>9. CASE DaemonDies
  <2>1. daemon' \in DaemonStates /\ daemon'.pc = "dead" /\ daemon'.handled = daemon.handled
    BY <1>1, <1>9 DEF DaemonDies, DaemonStates
  <2>2. downEnd' \in BOOLEAN
    BY <1>9 DEF DaemonDies
  <2>3. CASE daemon.pc = "answerLength"
    <3>1. down' \in 0..LengthBytes
      BY <1>9, <2>3 DEF DaemonDies, DaemonAt
    <3>2. daemon.handled # "none" /\ up = FrameEnd
      BY <1>1, <2>3 DEF HelperRead, OnlyWholeRequests
    <3>3. HelperRead' /\ OnlyWholeRequests'
      BY <1>4, <2>1, <3>2 DEF HelperRead, OnlyWholeRequests, DaemonAt
    <3>4. down' \in 0..AnswerEnd
      BY <1>2, <3>1
    <3> QED
      BY <1>3, <2>1, <2>2, <3>3, <3>4, HelperKeeps
  <2>4. CASE daemon.pc = "answer"
    <3>1. down' \in LengthBytes..AnswerEnd
      BY <1>9, <2>4 DEF DaemonDies, DaemonAt
    <3>2. daemon.handled # "none" /\ up = FrameEnd
      BY <1>1, <2>4 DEF HelperRead, OnlyWholeRequests
    <3>3. HelperRead' /\ OnlyWholeRequests'
      BY <1>4, <2>1, <3>2 DEF HelperRead, OnlyWholeRequests, DaemonAt
    <3>4. down' \in 0..AnswerEnd
      BY <1>2, <3>1
    <3> QED
      BY <1>3, <2>1, <2>2, <3>3, <3>4, HelperKeeps
  <2>5. CASE daemon.pc \notin {"answerLength", "answer"}
    <3>1. down' = down
      BY <1>9, <2>5 DEF DaemonDies, DaemonAt
    <3>2. HelperRead' /\ OnlyWholeRequests'
      BY <1>1, <1>4, <2>1, <3>1 DEF HelperRead, OnlyWholeRequests, DaemonAt
    <3> QED
      BY <1>1, <1>3, <2>1, <2>2, <3>1, <3>2, HelperKeeps
  <2> QED
    BY <2>3, <2>4, <2>5
<1> QED
  BY <1>5, <1>7, <1>8, <1>9

\* The invariant holds whatever dies, gives up or is cut off.
THEOREM ExchangeStep == ExchangeInv /\ [Next]_vars => ExchangeInv'
<1> SUFFICES ASSUME ExchangeInv, [Next]_vars PROVE ExchangeInv'
  OBVIOUS
<1>1. CASE UNCHANGED vars
  BY <1>1 DEF vars, ExchangeInv, TypeOK, CommandWrote, HelperRead, OnlyWholeRequests, WholeRequestsAccepted,
     AnswersAreReal, ClientAt, DaemonAt, FrameEnd, BodyEnd, AnswerEnd
<1>2. CASE Next
  BY <1>2, CommandStep, ReadingStep, AnsweringStep DEF Next, DaemonStep
<1> QED
  BY <1>1, <1>2

\* The helper acts only on a request, with the keys of a connect, that the
\* command wrote to its last byte, for every size of frame and every limit.
THEOREM WholeRequestsOnly == Spec => []OnlyWholeRequests
<1>1. ExchangeInv => OnlyWholeRequests
  BY DEF ExchangeInv
<1> QED
  BY <1>1, ExchangeInitial, ExchangeStep, PTL DEF Spec

\* The limits of EncodeFrame and DecodeFrame agree: without a deadline the
\* helper refuses only what the command did not finish.
THEOREM LimitsAgree == Spec => []WholeRequestsAccepted
<1>1. ExchangeInv => WholeRequestsAccepted
  BY DEF ExchangeInv
<1> QED
  BY <1>1, ExchangeInitial, ExchangeStep, PTL DEF Spec

\* A success or a failure that the command reports is the helper's result of
\* this operation, never a guess from an answer that was cut off.
THEOREM ReportsAreReal == Spec => []AnswersAreReal
<1>1. ExchangeInv => AnswersAreReal
  BY DEF ExchangeInv
<1> QED
  BY <1>1, ExchangeInitial, ExchangeStep, PTL DEF Spec

=============================================================================
