--------------------- MODULE ConnectionLifecycleProofs ---------------------
(***************************************************************************)
(* Sessions stay named, and requests reach their session, for any number   *)
(* of sessions and helper processes.                                       *)
(***************************************************************************)
EXTENDS ConnectionLifecycle, TLAPS

\* One helper changes and the others do not.
LEMMA HelperSet ==
    ASSUME TypeOK, NEW h \in Helpers, NEW hs \in HelperStates, HelperGoes(h, hs)
    PROVE  /\ helper' \in [Helpers -> HelperStates]
           /\ helper'[h] = hs
           /\ \A g \in Helpers : g # h => helper'[g] = helper[g]
BY DEF TypeOK, HelperGoes

\* Every command starts from the same record.
LEMMA NoCommandFacts ==
    /\ NoCommand \in CLIStates
    /\ NoCommand.pc = "idle" /\ ~NoCommand.answered
BY DEF NoCommand, CLIStates, CLIPoints

\* connectLocked names the new session before anything else happens.
LEMMA StartConnectKeeps ==
    ASSUME LifecycleInv, NEW s \in Sessions, StartConnect(s)
    PROVE  LifecycleInv'
<1>1. /\ meta' = [sess |-> s, phase |-> "connecting"] /\ meta = NoMeta
      /\ cli' \in CLIStates /\ cli'.pc = "bootstrap" /\ cli'.op = "connect" /\ cli'.sess = s /\ ~cli'.answered
      /\ used' = used \cup {s} /\ s \notin used /\ cli.pc = "idle"
      /\ UNCHANGED <<helper, record, work, socket, abandoned>>
  BY DEF StartConnect, Save, NoCommand, CLIStates, CLIPoints, CLIAt
<1>2. TypeOK'
  BY <1>1 DEF TypeOK, LifecycleInv
<1>3. CommandInv' /\ OwnersInv'
  BY <1>1, IdAssumption DEF LifecycleInv, TypeOK, CommandInv, OwnersInv, CLIAt, Owning,
     Opening, Serving, Recovering, NoMeta
<1>4. ConnectIsAwaited' /\ PipeInv'
  BY <1>1 DEF LifecycleInv, TypeOK, ConnectIsAwaited, PipeInv, CLIAt, Open, At, GoneOrAbandoned
<1>5. SocketInv' /\ WorkInv' /\ ForgetInv'
  BY <1>1, IdAssumption DEF LifecycleInv, TypeOK, OwnersInv, SocketInv, WorkInv, ForgetInv,
     CLIAt, Asked, Open, At, InController, Owning, Serving, NoMeta
<1>6. SessionsAreNamed'
  BY <1>1, IdAssumption DEF LifecycleInv, TypeOK, SessionsAreNamed, journal, NoMeta
<1>7. QED
  BY <1>2, <1>3, <1>4, <1>5, <1>6 DEF LifecycleInv

\* A Disconnect asks for the session of the metadata,
LEMMA StartDisconnectKeeps ==
    ASSUME LifecycleInv, StartDisconnect
    PROVE  LifecycleInv'
<1>1. /\ cli.pc = "idle" /\ meta # NoMeta
      /\ cli' \in CLIStates /\ cli'.pc = "dial" /\ cli'.op = "disconnect" /\ cli'.sess = meta.sess /\ ~cli'.answered
      /\ UNCHANGED <<helper, meta, record, socket, work, used, abandoned>>
  BY DEF StartDisconnect, NoCommand, CLIStates, CLIPoints, CLIAt, LifecycleInv, TypeOK, files,
     histories
<1>2. TypeOK'
  BY <1>1 DEF TypeOK, LifecycleInv
<1>3. CommandInv' /\ OwnersInv'
  BY <1>1, IdAssumption DEF LifecycleInv, TypeOK, CommandInv, OwnersInv, CLIAt, Owning,
     Opening, Serving, Recovering, NoMeta
<1>4. ConnectIsAwaited' /\ PipeInv'
  BY <1>1 DEF LifecycleInv, TypeOK, CommandInv, OwnersInv, ConnectIsAwaited, PipeInv, CLIAt,
     Open, At, GoneOrAbandoned, Owning, Opening, Serving, Recovering
<1>5. SocketInv' /\ WorkInv' /\ ForgetInv'
  BY <1>1, IdAssumption DEF LifecycleInv, TypeOK, CommandInv, OwnersInv, SocketInv, WorkInv,
     ForgetInv, CLIAt, Asked, Open, At, InController, Owning, Serving, NoMeta, GoneOrAbandoned
<1>6. SessionsAreNamed'
  BY <1>1, IdAssumption DEF LifecycleInv, TypeOK, SessionsAreNamed, ForgetInv,
     GoneOrAbandoned, CLIAt, journal, NoMeta
<1>7. QED
  BY <1>2, <1>3, <1>4, <1>5, <1>6 DEF LifecycleInv

\* and so does a Status.
LEMMA StartStatusKeeps ==
    ASSUME LifecycleInv, StartStatus
    PROVE  LifecycleInv'
<1>1. /\ cli.pc = "idle" /\ meta # NoMeta
      /\ cli' \in CLIStates /\ cli'.pc = "dial" /\ cli'.op = "status" /\ cli'.sess = meta.sess /\ ~cli'.answered
      /\ UNCHANGED <<helper, meta, record, socket, work, used, abandoned>>
  BY DEF StartStatus, NoCommand, CLIStates, CLIPoints, CLIAt, LifecycleInv, TypeOK, files, histories
<1>2. TypeOK'
  BY <1>1 DEF TypeOK, LifecycleInv
<1>3. CommandInv' /\ OwnersInv'
  BY <1>1, IdAssumption DEF LifecycleInv, TypeOK, CommandInv, OwnersInv, CLIAt, Owning,
     Opening, Serving, Recovering, NoMeta
<1>4. ConnectIsAwaited' /\ PipeInv'
  BY <1>1 DEF LifecycleInv, TypeOK, CommandInv, OwnersInv, ConnectIsAwaited, PipeInv, CLIAt,
     Open, At, GoneOrAbandoned, Owning, Opening, Serving, Recovering
<1>5. SocketInv' /\ WorkInv' /\ ForgetInv'
  BY <1>1, IdAssumption DEF LifecycleInv, TypeOK, CommandInv, OwnersInv, SocketInv, WorkInv,
     ForgetInv, CLIAt, Asked, Open, At, InController, Owning, Serving, NoMeta, GoneOrAbandoned
<1>6. SessionsAreNamed'
  BY <1>1, IdAssumption DEF LifecycleInv, TypeOK, SessionsAreNamed, ForgetInv,
     GoneOrAbandoned, CLIAt, journal, NoMeta
<1>7. QED
  BY <1>2, <1>3, <1>4, <1>5, <1>6 DEF LifecycleInv

\* A request without a socket ends the command or goes on to a helper of its own.
LEMMA WithoutSocketFacts ==
    ASSUME LifecycleInv
    PROVE  /\ WithoutSocket \in CLIStates
           /\ \/ WithoutSocket.pc = "idle" /\ ~WithoutSocket.answered
              \/ /\ WithoutSocket.pc = "bootstrap" /\ WithoutSocket.op = cli.op
                 /\ WithoutSocket.sess = cli.sess /\ WithoutSocket.answered = cli.answered
BY DEF WithoutSocket, NoCommand, CLIStates, CLIPoints, LifecycleInv, TypeOK

\* Whoever serves at the path serves the session asked for.
LEMMA DialKeeps ==
    ASSUME LifecycleInv, Dial
    PROVE  LifecycleInv'
<1>1. /\ cli.pc = "dial" /\ cli' \in CLIStates
      /\ \/ cli'.pc = "idle" /\ ~cli'.answered
         \/ cli'.pc = "bootstrap" /\ cli'.op = cli.op /\ cli'.sess = cli.sess /\ cli'.answered = cli.answered
         \/ /\ cli'.pc = "await" /\ cli'.op = cli.op /\ cli'.sess = cli.sess /\ cli'.answered = cli.answered
            /\ cli'.peer = socket /\ cli'.via = "socket" /\ socket \in Helpers
      /\ UNCHANGED <<helper, meta, record, socket, work, used, abandoned>>
  <2>1. cli.pc = "dial" /\ UNCHANGED <<helper, meta, record, socket, work, used, abandoned>>
    BY DEF Dial, CLIAt, files, histories
  <2>2. CASE cli' = WithoutSocket
    BY <2>1, <2>2, WithoutSocketFacts
  <2>3. CASE socket # NoHelper /\ cli' = [cli EXCEPT !.pc = "await", !.peer = socket, !.via = "socket"]
    <3>1. socket \in Helpers /\ cli \in CLIStates
      BY <2>3 DEF LifecycleInv, TypeOK
    <3>2. cli' \in CLIStates
      BY <2>3, <3>1 DEF CLIStates, CLIPoints
    <3>3. /\ cli'.pc = "await" /\ cli'.op = cli.op /\ cli'.sess = cli.sess
          /\ cli'.answered = cli.answered /\ cli'.peer = socket /\ cli'.via = "socket"
      BY <2>3, <3>1 DEF CLIStates
    <3> QED
      BY <2>1, <3>1, <3>2, <3>3
  <2> QED
    BY <2>2, <2>3 DEF Dial
<1>2. TypeOK'
  BY <1>1 DEF TypeOK, LifecycleInv
<1>3. CommandInv' /\ OwnersInv'
  BY <1>1, IdAssumption DEF LifecycleInv, TypeOK, CommandInv, OwnersInv, CLIAt, Owning,
     Opening, Serving, Recovering, NoMeta
<1>4. ConnectIsAwaited' /\ PipeInv'
  BY <1>1 DEF LifecycleInv, TypeOK, CommandInv, OwnersInv, ConnectIsAwaited, PipeInv, CLIAt,
     Open, At, GoneOrAbandoned, Owning, Opening, Serving, Recovering
<1>5. SocketInv' /\ WorkInv' /\ ForgetInv'
  BY <1>1, IdAssumption DEF LifecycleInv, TypeOK, CommandInv, OwnersInv, SocketInv, WorkInv,
     ForgetInv, CLIAt, Asked, Open, At, InController, Owning, Serving, NoMeta, GoneOrAbandoned
<1>6. SessionsAreNamed'
  BY <1>1, IdAssumption DEF LifecycleInv, TypeOK, SessionsAreNamed, ForgetInv,
     GoneOrAbandoned, CLIAt, journal, NoMeta
<1>7. QED
  BY <1>2, <1>3, <1>4, <1>5, <1>6 DEF LifecycleInv

\* The helper of a Connect is the only one its session ever has.
LEMMA BootstrapKeeps ==
    ASSUME LifecycleInv, Bootstrap
    PROVE  LifecycleInv'
<1>1. /\ cli.pc = "bootstrap" /\ cli' \in CLIStates /\ helper' \in [Helpers -> HelperStates]
      /\ \/ cli'.pc = "idle" /\ ~cli'.answered /\ helper' = helper
         \/ \E h \in Helpers :
              /\ cli'.pc = "await" /\ cli'.op = cli.op /\ cli'.sess = cli.sess /\ cli'.answered = cli.answered
              /\ cli'.peer = h /\ cli'.via = "pipe"
              /\ helper[h].pc = "dead" /\ helper'[h].sess = cli.sess
              /\ cli.op = "connect" => helper'[h].pc = "start"
              /\ cli.op # "connect" => helper'[h].pc = "recover"
              /\ \A g \in Helpers : g # h => helper'[g] = helper[g]
      /\ UNCHANGED <<meta, record, socket, work, used, abandoned>>
  <2>1. cli.pc = "bootstrap" /\ cli \in CLIStates /\ helper \in [Helpers -> HelperStates]
    BY DEF Bootstrap, CLIAt, LifecycleInv, TypeOK
  <2>2. CASE cli' = NoCommand /\ helper' = helper
    BY <2>1, <2>2, NoCommandFacts DEF Bootstrap, files, histories
  <2>3. ASSUME NEW h \in Helpers, At(h, "dead"),
               HelperGoes(h, [DeadHelper EXCEPT
                  !.pc = IF cli.op = "connect" THEN "start" ELSE "recover", !.sess = cli.sess]),
               cli' = [cli EXCEPT !.pc = "await", !.peer = h, !.via = "pipe"]
        PROVE  /\ helper' \in [Helpers -> HelperStates]
               /\ helper[h].pc = "dead" /\ helper'[h].sess = cli.sess
               /\ cli.op = "connect" => helper'[h].pc = "start"
               /\ cli.op # "connect" => helper'[h].pc = "recover"
               /\ \A g \in Helpers : g # h => helper'[g] = helper[g]
    <3> DEFINE hs == [DeadHelper EXCEPT
                  !.pc = IF cli.op = "connect" THEN "start" ELSE "recover", !.sess = cli.sess]
    <3>1. /\ hs \in HelperStates /\ hs.sess = cli.sess
          /\ cli.op = "connect" => hs.pc = "start"
          /\ cli.op # "connect" => hs.pc = "recover"
      <4>1. 0 \in 0..MaxHealthFailures
        BY HealthAssumption
      <4>2. QED
        BY <2>1, <4>1 DEF DeadHelper, HelperStates, HelperPoints, CLIStates
    <3>2. HelperGoes(h, hs)
      BY <2>3
    <3> HIDE DEF hs
    <3>3. QED
      BY <2>3, <3>1, <3>2, HelperSet DEF LifecycleInv, At
  <2>4. ASSUME NEW h \in Helpers, cli' = [cli EXCEPT !.pc = "await", !.peer = h, !.via = "pipe"]
        PROVE  /\ cli' \in CLIStates
               /\ cli'.pc = "await" /\ cli'.op = cli.op /\ cli'.sess = cli.sess /\ cli'.answered = cli.answered
               /\ cli'.peer = h /\ cli'.via = "pipe"
    BY <2>1, <2>4 DEF CLIStates, CLIPoints
  <2>5. QED
    BY <2>1, <2>2, <2>3, <2>4 DEF Bootstrap, files, histories
<1>2. TypeOK'
  BY <1>1 DEF TypeOK, LifecycleInv
<1>3. CommandInv' /\ OwnersInv'
  BY <1>1, IdAssumption DEF LifecycleInv, TypeOK, CommandInv, OwnersInv, CLIAt, Owning,
     Opening, Serving, Recovering, NoMeta
<1>4. ConnectIsAwaited' /\ PipeInv'
  BY <1>1 DEF LifecycleInv, TypeOK, CommandInv, OwnersInv, ConnectIsAwaited, PipeInv, CLIAt,
     Open, At, GoneOrAbandoned, Owning, Opening, Serving, Recovering
<1>5. SocketInv' /\ WorkInv' /\ ForgetInv'
  BY <1>1, IdAssumption DEF LifecycleInv, TypeOK, CommandInv, OwnersInv, SocketInv, WorkInv,
     ForgetInv, CLIAt, Asked, Open, At, InController, Owning, Serving, NoMeta, GoneOrAbandoned
<1>6. SessionsAreNamed'
  BY <1>1, IdAssumption DEF LifecycleInv, TypeOK, SessionsAreNamed, ForgetInv,
     GoneOrAbandoned, CLIAt, journal, NoMeta
<1>7. QED
  BY <1>2, <1>3, <1>4, <1>5, <1>6 DEF LifecycleInv

\* Hanging up turns the request that is being handled into one without a sender.
LEMMA HangUpFacts ==
    ASSUME LifecycleInv
    PROVE  /\ HangUp \in [Helpers -> HelperStates]
           /\ \A h \in Helpers :
                 /\ HangUp[h].sess = helper[h].sess
                 /\ \/ HangUp[h].pc = helper[h].pc /\ ~At(h, "handling")
                    \/ HangUp[h].pc = "late" /\ At(h, "handling")
<1>1. /\ helper \in [Helpers -> HelperStates]
      /\ \A h \in Helpers : At(h, "handling") => CLIAt("await") /\ cli.via = "socket" /\ cli.peer = h
      /\ CLIAt("await") => cli.peer \in Helpers
  BY DEF LifecycleInv, TypeOK, SocketInv, CommandInv, Asked, Open, CLIAt
<1>2. CASE ~(CLIAt("await") /\ cli.via = "socket")
  <2>1. HangUp = helper
    BY <1>2 DEF HangUp
  <2>2. QED
    BY <1>1, <1>2, <2>1
<1>3. CASE CLIAt("await") /\ cli.via = "socket"
  <2> DEFINE h == cli.peer
  <2>1. h \in Helpers
    BY <1>1, <1>3
  <2>2. CASE At(h, "handling")
    <3>1. HangUp = [helper EXCEPT ![h].pc = "late"]
      BY <1>3, <2>2 DEF HangUp, Listening, At
    <3>2. QED
      BY <1>1, <2>1, <2>2, <3>1 DEF HelperStates, HelperPoints, At
  <2>3. CASE ~At(h, "handling") /\ Listening(h)
    <3>1. HangUp = [helper EXCEPT ![h].orphan = @ \/ (cli.sess = helper[h].sess /\ cli.op # "status")]
      BY <1>3, <2>3 DEF HangUp
    <3>2. (helper[h].orphan \/ (cli.sess = helper[h].sess /\ cli.op # "status")) \in BOOLEAN
      OBVIOUS
    <3>3. QED
      <4> DEFINE b == helper[h].orphan \/ (cli.sess = helper[h].sess /\ cli.op # "status")
      <4>1. b \in BOOLEAN /\ HangUp = [helper EXCEPT ![h].orphan = b]
        BY <1>1, <2>1, <3>1, <3>2 DEF HelperStates
      <4> HIDE DEF b
      <4>2. QED
        BY <1>1, <2>1, <2>3, <4>1 DEF HelperStates, At
  <2>4. CASE ~At(h, "handling") /\ ~Listening(h)
    <3>1. HangUp = helper
      BY <1>3, <2>4 DEF HangUp
    <3>2. QED
      BY <1>1, <2>4, <3>1
  <2>5. QED
    BY <2>2, <2>3, <2>4
<1>4. QED
  BY <1>2, <1>3

\* A lost connection leaves the request behind, not the session.
LEMMA SocketFailsKeeps ==
    ASSUME LifecycleInv, SocketFails
    PROVE  LifecycleInv'
<1>1. /\ cli.pc = "await" /\ cli.via = "socket" /\ cli' \in CLIStates
      /\ \/ cli'.pc = "idle" /\ ~cli'.answered
         \/ cli'.pc = "bootstrap" /\ cli'.op = cli.op /\ cli'.sess = cli.sess /\ cli'.answered = cli.answered
      /\ helper' \in [Helpers -> HelperStates]
      /\ \A h \in Helpers :
            /\ helper'[h].sess = helper[h].sess
            /\ \/ helper'[h].pc = helper[h].pc /\ helper[h].pc # "handling"
               \/ helper'[h].pc = "late" /\ helper[h].pc = "handling"
      /\ UNCHANGED <<meta, record, socket, work, used, abandoned>>
  BY WithoutSocketFacts, HangUpFacts DEF SocketFails, At, NoCommand, CLIStates, CLIPoints,
     CLIAt, LifecycleInv, TypeOK, files, histories
<1>2. TypeOK'
  BY <1>1 DEF TypeOK, LifecycleInv
<1>3. CommandInv' /\ OwnersInv'
  BY <1>1, IdAssumption, SMTT(60) DEF LifecycleInv, TypeOK, CommandInv, OwnersInv, CLIAt, Owning,
     Opening, Serving, Recovering, NoMeta
<1>4. ConnectIsAwaited' /\ PipeInv'
  BY <1>1 DEF LifecycleInv, TypeOK, CommandInv, OwnersInv, ConnectIsAwaited, PipeInv, CLIAt,
     Open, At, GoneOrAbandoned, Owning, Opening, Serving, Recovering
<1>5. SocketInv' /\ WorkInv' /\ ForgetInv'
  BY <1>1, IdAssumption DEF LifecycleInv, TypeOK, CommandInv, OwnersInv, SocketInv, WorkInv,
     ForgetInv, CLIAt, Asked, Open, At, InController, Owning, Serving, NoMeta, GoneOrAbandoned
<1>6. SessionsAreNamed'
  BY <1>1, IdAssumption DEF LifecycleInv, TypeOK, SessionsAreNamed, ForgetInv,
     GoneOrAbandoned, CLIAt, journal, NoMeta
<1>7. QED
  BY <1>2, <1>3, <1>4, <1>5, <1>6 DEF LifecycleInv

\* A command that dies leaves its Connect abandoned.
LEMMA CLIDiesKeeps ==
    ASSUME LifecycleInv, CLIDies
    PROVE  LifecycleInv'
<1>1. /\ cli' \in CLIStates /\ cli'.pc = "idle" /\ ~cli'.answered
      /\ helper' \in [Helpers -> HelperStates]
      /\ \A h \in Helpers :
            /\ helper'[h].sess = helper[h].sess
            /\ \/ helper'[h].pc = helper[h].pc /\ helper[h].pc # "handling"
               \/ helper'[h].pc = "late" /\ helper[h].pc = "handling"
      /\ UNCHANGED <<meta, record, socket, work, used>>
      /\ abandoned \subseteq abandoned' /\ abandoned' \subseteq Sessions
      /\ cli.pc = "await" /\ cli.op = "connect" /\ ~cli.answered => cli.sess \in abandoned'
  BY NoCommandFacts, HangUpFacts DEF CLIDies, LeftBehind, At, CommandInv, CLIAt, LifecycleInv,
     TypeOK, files
<1>2. TypeOK'
  BY <1>1 DEF TypeOK, LifecycleInv
<1>3. CommandInv' /\ OwnersInv'
  BY <1>1, IdAssumption DEF LifecycleInv, TypeOK, CommandInv, OwnersInv, CLIAt, Owning,
     Opening, Serving, Recovering, NoMeta
<1>4. ConnectIsAwaited' /\ PipeInv'
  BY <1>1 DEF LifecycleInv, TypeOK, CommandInv, OwnersInv, ConnectIsAwaited, PipeInv, CLIAt,
     Open, At, GoneOrAbandoned, Owning, Opening, Serving, Recovering
<1>5. SocketInv' /\ WorkInv' /\ ForgetInv'
  BY <1>1, IdAssumption DEF LifecycleInv, TypeOK, CommandInv, OwnersInv, SocketInv, WorkInv,
     ForgetInv, CLIAt, Asked, Open, At, InController, Owning, Serving, NoMeta, GoneOrAbandoned
<1>6. SessionsAreNamed'
  BY <1>1, IdAssumption DEF LifecycleInv, TypeOK, SessionsAreNamed, ForgetInv,
     GoneOrAbandoned, CLIAt, journal, NoMeta
<1>7. QED
  BY <1>2, <1>3, <1>4, <1>5, <1>6 DEF LifecycleInv

\* A command that gives up leaves its Connect abandoned, and may have to wait for it.
LEMMA CancelKeeps ==
    ASSUME LifecycleInv, Cancel
    PROVE  LifecycleInv'
<1>1. /\ cli' \in CLIStates /\ ~cli'.answered /\ cli.pc = "await" /\ cli.via = "pipe"
      /\ cli'.pc = "idle" \/ (cli'.pc = "wait" /\ cli'.peer = cli.peer /\ cli'.via = "pipe")
      /\ UNCHANGED <<helper, meta, record, socket, work, used>>
      /\ abandoned \subseteq abandoned' /\ abandoned' \subseteq Sessions
      /\ cli.op = "connect" /\ ~cli.answered => cli.sess \in abandoned'
  <2>1. /\ cli' \in {NoCommand, [NoCommand EXCEPT !.pc = "wait", !.peer = cli.peer]}
        /\ cli.pc = "await" /\ cli.via = "pipe"
        /\ UNCHANGED <<helper, meta, record, socket, work, used>>
        /\ abandoned' = abandoned \cup LeftBehind
    BY DEF Cancel, CLIAt, files
  <2>2. /\ cli' \in CLIStates /\ ~cli'.answered
        /\ cli'.pc = "idle" \/ (cli'.pc = "wait" /\ cli'.peer = cli.peer /\ cli'.via = "pipe")
    <3>1. CASE cli' = NoCommand
      BY <3>1, NoCommandFacts
    <3>2. CASE cli' = [NoCommand EXCEPT !.pc = "wait", !.peer = cli.peer]
      <4>1. cli.peer \in Helpers \cup {NoHelper}
        BY DEF LifecycleInv, TypeOK, CLIStates
      <4>2. QED
        BY <3>2, <4>1 DEF NoCommand, CLIStates, CLIPoints
    <3>3. QED
      BY <2>1, <3>1, <3>2
  <2>3. LeftBehind \subseteq Sessions /\ (cli.op = "connect" /\ ~cli.answered => cli.sess \in LeftBehind)
    BY <2>1 DEF LeftBehind, CommandInv, CLIAt, LifecycleInv
  <2>4. QED
    BY <2>1, <2>2, <2>3 DEF LifecycleInv, TypeOK
<1>2. TypeOK'
  BY <1>1 DEF TypeOK, LifecycleInv
<1>3. CommandInv' /\ OwnersInv'
  BY <1>1, IdAssumption DEF LifecycleInv, TypeOK, CommandInv, OwnersInv, CLIAt, Owning,
     Opening, Serving, Recovering, NoMeta
<1>4. ConnectIsAwaited' /\ PipeInv'
  BY <1>1 DEF LifecycleInv, TypeOK, CommandInv, OwnersInv, ConnectIsAwaited, PipeInv, CLIAt,
     Open, At, GoneOrAbandoned, Owning, Opening, Serving, Recovering
<1>5. SocketInv' /\ WorkInv' /\ ForgetInv'
  BY <1>1, IdAssumption DEF LifecycleInv, TypeOK, CommandInv, OwnersInv, SocketInv, WorkInv,
     ForgetInv, CLIAt, Asked, Open, At, InController, Owning, Serving, NoMeta, GoneOrAbandoned
<1>6. SessionsAreNamed'
  BY <1>1, IdAssumption DEF LifecycleInv, TypeOK, SessionsAreNamed, ForgetInv,
     GoneOrAbandoned, CLIAt, journal, NoMeta
<1>7. QED
  BY <1>2, <1>3, <1>4, <1>5, <1>6 DEF LifecycleInv

\* A pipe that ends has no helper behind it,
LEMMA PipeEndsKeeps ==
    ASSUME LifecycleInv, PipeEnds
    PROVE  LifecycleInv'
<1>1. /\ cli' \in CLIStates /\ ~cli'.answered /\ cli'.pc = "idle"
      /\ cli.pc = "await" /\ cli.via = "pipe" /\ helper[cli.peer].pc = "dead"
      /\ UNCHANGED <<helper, meta, record, socket, work, used, abandoned>>
  BY NoCommandFacts DEF PipeEnds, At, NoCommand, CLIStates, CLIPoints, CLIAt, LifecycleInv,
     TypeOK, files, histories
<1>2. TypeOK'
  BY <1>1 DEF TypeOK, LifecycleInv
<1>3. CommandInv' /\ OwnersInv'
  BY <1>1, IdAssumption DEF LifecycleInv, TypeOK, CommandInv, OwnersInv, CLIAt, Owning,
     Opening, Serving, Recovering, NoMeta
<1>4. ConnectIsAwaited' /\ PipeInv'
  BY <1>1 DEF LifecycleInv, TypeOK, CommandInv, OwnersInv, ConnectIsAwaited, PipeInv, CLIAt,
     Open, At, GoneOrAbandoned, Owning, Opening, Serving, Recovering
<1>5. SocketInv' /\ WorkInv' /\ ForgetInv'
  BY <1>1, IdAssumption DEF LifecycleInv, TypeOK, CommandInv, OwnersInv, SocketInv, WorkInv,
     ForgetInv, CLIAt, Asked, Open, At, InController, Owning, Serving, NoMeta, GoneOrAbandoned
<1>6. SessionsAreNamed'
  BY <1>1, IdAssumption DEF LifecycleInv, TypeOK, SessionsAreNamed, ForgetInv,
     GoneOrAbandoned, CLIAt, journal, NoMeta
<1>7. QED
  BY <1>2, <1>3, <1>4, <1>5, <1>6 DEF LifecycleInv

\* and neither has a wait that ends.
LEMMA WaitEndsKeeps ==
    ASSUME LifecycleInv, WaitEnds
    PROVE  LifecycleInv'
<1>1. /\ cli' \in CLIStates /\ ~cli'.answered /\ cli'.pc = "idle" /\ cli.pc = "wait"
      /\ UNCHANGED <<helper, meta, record, socket, work, used, abandoned>>
  BY NoCommandFacts DEF WaitEnds, At, NoCommand, CLIStates, CLIPoints, CLIAt, LifecycleInv,
     TypeOK, files, histories
<1>2. TypeOK'
  BY <1>1 DEF TypeOK, LifecycleInv
<1>3. CommandInv' /\ OwnersInv'
  BY <1>1, IdAssumption DEF LifecycleInv, TypeOK, CommandInv, OwnersInv, CLIAt, Owning,
     Opening, Serving, Recovering, NoMeta
<1>4. ConnectIsAwaited' /\ PipeInv'
  BY <1>1 DEF LifecycleInv, TypeOK, CommandInv, OwnersInv, ConnectIsAwaited, PipeInv, CLIAt,
     Open, At, GoneOrAbandoned, Owning, Opening, Serving, Recovering
<1>5. SocketInv' /\ WorkInv' /\ ForgetInv'
  BY <1>1, IdAssumption DEF LifecycleInv, TypeOK, CommandInv, OwnersInv, SocketInv, WorkInv,
     ForgetInv, CLIAt, Asked, Open, At, InController, Owning, Serving, NoMeta, GoneOrAbandoned
<1>6. SessionsAreNamed'
  BY <1>1, IdAssumption DEF LifecycleInv, TypeOK, SessionsAreNamed, ForgetInv,
     GoneOrAbandoned, CLIAt, journal, NoMeta
<1>7. QED
  BY <1>2, <1>3, <1>4, <1>5, <1>6 DEF LifecycleInv

\* The record of the answer names the same session.
LEMMA ConnectAnsweredKeeps ==
    ASSUME LifecycleInv, ConnectAnswered
    PROVE  LifecycleInv'
<1>1. /\ cli' \in CLIStates /\ ~cli'.answered /\ cli.pc = "await" /\ cli.answered
      /\ \/ cli'.pc = "idle" /\ meta' = [sess |-> meta.sess, phase |-> "connected"]
         \/ cli'.pc = "dial" /\ cli'.op = "cleanup" /\ cli'.sess = cli.sess /\ meta' = meta
      /\ UNCHANGED <<helper, record, socket, work, used, abandoned>>
  BY NoCommandFacts, ZenonT(60) DEF ConnectAnswered, Save, NoCommand, CLIStates, CLIPoints, CLIAt,
     LifecycleInv, TypeOK, files, histories
<1>2. TypeOK'
  BY <1>1 DEF TypeOK, LifecycleInv
<1>3. CommandInv' /\ OwnersInv'
  BY <1>1, IdAssumption DEF LifecycleInv, TypeOK, CommandInv, OwnersInv, CLIAt, Owning,
     Opening, Serving, Recovering, NoMeta
<1>4. ConnectIsAwaited' /\ PipeInv'
  BY <1>1 DEF LifecycleInv, TypeOK, CommandInv, OwnersInv, ConnectIsAwaited, PipeInv, CLIAt,
     Open, At, GoneOrAbandoned, Owning, Opening, Serving, Recovering
<1>5. SocketInv' /\ WorkInv' /\ ForgetInv'
  BY <1>1, IdAssumption DEF LifecycleInv, TypeOK, CommandInv, OwnersInv, SocketInv, WorkInv,
     ForgetInv, CLIAt, Asked, Open, At, InController, Owning, Serving, NoMeta, GoneOrAbandoned
<1>6. SessionsAreNamed'
  BY <1>1, IdAssumption DEF LifecycleInv, TypeOK, SessionsAreNamed, ForgetInv,
     GoneOrAbandoned, CLIAt, journal, NoMeta
<1>7. QED
  BY <1>2, <1>3, <1>4, <1>5, <1>6 DEF LifecycleInv

\* The metadata is deleted when nothing is left to name.
LEMMA DisconnectAnsweredKeeps ==
    ASSUME LifecycleInv, DisconnectAnswered
    PROVE  LifecycleInv'
<1>1. /\ cli' \in CLIStates /\ ~cli'.answered /\ cli'.pc = "idle" /\ cli.pc = "forget"
      /\ meta' \in {meta, NoMeta}
      /\ UNCHANGED <<helper, record, socket, work, used, abandoned>>
  BY NoCommandFacts DEF DisconnectAnswered, Delete, NoCommand, CLIStates, CLIPoints, CLIAt,
     LifecycleInv, TypeOK, files, histories
<1>2. TypeOK'
  BY <1>1 DEF TypeOK, LifecycleInv, NoMeta
<1>3. CommandInv' /\ OwnersInv'
  BY <1>1, IdAssumption DEF LifecycleInv, TypeOK, CommandInv, OwnersInv, CLIAt, Owning,
     Opening, Serving, Recovering, NoMeta
<1>4. ConnectIsAwaited' /\ PipeInv'
  BY <1>1 DEF LifecycleInv, TypeOK, CommandInv, OwnersInv, ConnectIsAwaited, PipeInv, CLIAt,
     Open, At, GoneOrAbandoned, Owning, Opening, Serving, Recovering
<1>5. SocketInv' /\ WorkInv' /\ ForgetInv'
  BY <1>1, IdAssumption DEF LifecycleInv, TypeOK, CommandInv, OwnersInv, SocketInv, WorkInv,
     ForgetInv, CLIAt, Asked, Open, At, InController, Owning, Serving, NoMeta, GoneOrAbandoned
<1>6. SessionsAreNamed'
  BY <1>1, IdAssumption DEF LifecycleInv, TypeOK, SessionsAreNamed, ForgetInv,
     GoneOrAbandoned, CLIAt, journal, NoMeta
<1>7. QED
  BY <1>2, <1>3, <1>4, <1>5, <1>6 DEF LifecycleInv

-----------------------------------------------------------------------------
(* The helpers.                                                            *)

\* What the command does with the answer that helper h gives, if any.
LEMMA AnsweredFacts ==
    ASSUME LifecycleInv, NEW h \in Helpers, NEW via \in {"socket", "pipe"}, NEW ok \in BOOLEAN
    PROVE  /\ Answered(h, via, ok) \in CLIStates
           /\ ~(cli.pc = "await" /\ cli.peer = h /\ cli.via = via) => Answered(h, via, ok) = cli
           /\ cli.pc = "await" /\ cli.peer = h /\ cli.via = via =>
                 \/ /\ Answered(h, via, ok).pc = "idle" /\ ~Answered(h, via, ok).answered
                    /\ ~(ok /\ cli.op \in {"connect", "disconnect"})
                 \/ /\ Answered(h, via, ok).pc = "forget" /\ ~Answered(h, via, ok).answered
                    /\ ok /\ cli.op = "disconnect"
                 \/ /\ Answered(h, via, ok) = [cli EXCEPT !.answered = TRUE]
                    /\ ok /\ cli.op = "connect"
<1>1. cli \in CLIStates
  BY DEF LifecycleInv, TypeOK
<1>2. CASE ~(cli.pc = "await" /\ cli.peer = h /\ cli.via = via)
  <2>1. Answered(h, via, ok) = cli
    BY <1>2 DEF Answered, Open, CLIAt
  <2>2. QED
    BY <1>1, <1>2, <2>1
<1>3. CASE cli.pc = "await" /\ cli.peer = h /\ cli.via = via
  <2>1. Answered(h, via, ok) = Takes(ok)
    BY <1>3 DEF Answered, Open, CLIAt
  <2>2. CASE ok /\ cli.op = "connect"
    <3>1. Takes(ok) = [cli EXCEPT !.answered = TRUE]
      BY <2>2 DEF Takes
    <3>2. Takes(ok) \in CLIStates
      BY <1>1, <3>1 DEF CLIStates
    <3>3. QED
      BY <1>3, <2>1, <2>2, <3>1, <3>2
  <2>3. CASE ok /\ cli.op = "disconnect"
    <3>1. Takes(ok) = [NoCommand EXCEPT !.pc = "forget"]
      BY <2>3 DEF Takes
    <3>2. Takes(ok) \in CLIStates /\ Takes(ok).pc = "forget" /\ ~Takes(ok).answered
      BY <3>1 DEF CLIStates, CLIPoints, NoCommand
    <3>3. QED
      BY <1>3, <2>1, <2>3, <3>2
  <2>4. CASE ~(ok /\ cli.op \in {"connect", "disconnect"})
    <3>1. Takes(ok) = NoCommand
      BY <2>4 DEF Takes
    <3>2. QED
      BY <1>3, <2>1, <2>4, <3>1, NoCommandFacts
  <2>5. QED
    BY <2>2, <2>3, <2>4
<1>4. QED
  BY <1>2, <1>3

\* A helper moves to another point of its program, keeping its session,
LEMMA Moves ==
    ASSUME LifecycleInv, NEW h \in Helpers, NEW point \in HelperPoints, HelperAt(h, point)
    PROVE  /\ helper' \in [Helpers -> HelperStates]
           /\ \A g \in Helpers : g # h => helper'[g] = helper[g]
           /\ helper'[h].pc = point /\ helper'[h].sess = helper[h].sess
BY DEF LifecycleInv, TypeOK, HelperAt, HelperGoes, HelperStates

\* also when it leaves serve,
LEMMA Leaves ==
    ASSUME LifecycleInv, NEW h \in Helpers, LeavesServe(h)
    PROVE  /\ helper' \in [Helpers -> HelperStates]
           /\ \A g \in Helpers : g # h => helper'[g] = helper[g]
           /\ helper'[h].pc = "closing" /\ helper'[h].sess = helper[h].sess
<1>1. 0 \in 0..MaxHealthFailures
  BY HealthAssumption
<1> DEFINE hs == [helper[h] EXCEPT !.pc = "closing", !.health = 0, !.orphan = FALSE]
<1>2. hs \in HelperStates /\ hs.pc = "closing" /\ hs.sess = helper[h].sess
  BY <1>1, ZenonT(60) DEF LifecycleInv, TypeOK, HelperStates, HelperPoints
<1>3. HelperGoes(h, hs)
  BY DEF LeavesServe
<1> HIDE DEF hs
<1>4. QED
  BY <1>2, <1>3, HelperSet DEF LifecycleInv

\* or it exits,
LEMMA Exits ==
    ASSUME LifecycleInv, NEW h \in Helpers, HelperGoes(h, DeadHelper)
    PROVE  /\ helper' \in [Helpers -> HelperStates]
           /\ \A g \in Helpers : g # h => helper'[g] = helper[g]
           /\ helper'[h].pc = "dead"
<1>1. 0 \in 0..MaxHealthFailures
  BY HealthAssumption
<1>2. DeadHelper \in HelperStates /\ DeadHelper.pc = "dead"
  BY <1>1 DEF DeadHelper, HelperStates, HelperPoints
<1>3. QED
  BY <1>2, HelperSet DEF LifecycleInv

\* and the lock that it holds is given back.
LEMMA GivesBack ==
    ASSUME NEW h \in Helpers, Controller!Return(h) \/ Controller!Drop(h)
    PROVE  /\ work.by = h /\ work'.by = NoHelper /\ record' = record
           /\ work' \in [by : Helpers \cup {NoHelper}, sess : Sessions \cup {NoSession},
                         stage : Controller!Stages]
BY DEF Controller!Return, Controller!Drop, Controller!Works, Controller!Unlocked, Controller!Stages,
       Controller!Finished

\* A Disconnect inside the lock.
LEMMA Locked ==
    ASSUME LifecycleInv, NEW h \in Helpers, Locks(h)
    PROVE  /\ work.by = NoHelper /\ record' = record
           /\ work'.by = h /\ work'.sess = helper[h].sess /\ work'.stage = "rollback"
           /\ work' \in [by : Helpers \cup {NoHelper}, sess : Sessions \cup {NoSession},
                         stage : Controller!Stages]
BY DEF Locks, Controller!Begin, Controller!Unlocked, Controller!Stages, LifecycleInv, TypeOK,
   HelperStates

\* A utun that is removed without a record leaves the record alone.
LEMMA RemoveUnrecordedKeeps ==
    ASSUME LifecycleInv, NEW h \in Helpers, RemoveUnrecorded(h)
    PROVE  LifecycleInv'
<1>1. /\ helper' \in [Helpers -> HelperStates] /\ helper \in [Helpers -> HelperStates]
      /\ \A g \in Helpers : g # h => helper'[g] = helper[g]
      /\ helper'[h].pc = helper[h].pc
      /\ helper'[h].sess = helper[h].sess
      /\ UNCHANGED <<cli, meta, record, socket, work, used, abandoned>>
  BY ZenonT(60) DEF RemoveUnrecorded, HelperGoes, HelperStates, At, files, histories, LifecycleInv, TypeOK
<1>2. TypeOK'
  BY <1>1 DEF TypeOK, LifecycleInv
<1>3. CommandInv' /\ OwnersInv'
  BY <1>1, IdAssumption DEF LifecycleInv, TypeOK, CommandInv, OwnersInv, CLIAt, Owning,
     Opening, Serving, Recovering, CLIStates
<1>4. ConnectIsAwaited' /\ PipeInv'
  BY <1>1 DEF LifecycleInv, TypeOK, CommandInv, OwnersInv, ConnectIsAwaited, PipeInv, CLIAt,
     Open, At, GoneOrAbandoned, Owning, Opening, Serving, Recovering, CLIStates
<1>5. SocketInv' /\ WorkInv' /\ ForgetInv'
  BY <1>1, IdAssumption DEF LifecycleInv, TypeOK, CommandInv, OwnersInv, PipeInv, SocketInv,
     WorkInv, ForgetInv, CLIAt, Asked, Open, At, InController, Owning, Opening, Serving,
     Recovering, GoneOrAbandoned, CLIStates
<1>6. SessionsAreNamed'
  BY <1>1, IdAssumption DEF LifecycleInv, TypeOK, SessionsAreNamed, journal
<1>7. QED
  BY <1>2, <1>3, <1>4, <1>5, <1>6 DEF LifecycleInv

\* A health check counts, or ends the serving,
LEMMA HealthCheckKeeps ==
    ASSUME LifecycleInv, NEW h \in Helpers, HealthCheck(h)
    PROVE  LifecycleInv'
<1>1. /\ helper' \in [Helpers -> HelperStates] /\ helper \in [Helpers -> HelperStates]
      /\ \A g \in Helpers : g # h => helper'[g] = helper[g]
      /\ helper[h].pc = "serving" /\ helper'[h].sess = helper[h].sess
      /\ helper'[h].pc \in {"serving", "closing"}
      /\ UNCHANGED <<cli, meta, record, socket, work, used, abandoned>>
  <2>1. ASSUME NEW n \in 0..MaxHealthFailures, HelperGoes(h, [helper[h] EXCEPT !.health = n])
        PROVE  /\ helper' \in [Helpers -> HelperStates]
               /\ \A g \in Helpers : g # h => helper'[g] = helper[g]
               /\ helper'[h].pc = helper[h].pc /\ helper'[h].sess = helper[h].sess
    BY <2>1 DEF HelperGoes, HelperStates, LifecycleInv, TypeOK
  <2>2. /\ 0 \in 0..MaxHealthFailures
        /\ ~(helper[h].health + 1 >= MaxHealthFailures) => helper[h].health + 1 \in 0..MaxHealthFailures
    BY HealthAssumption DEF HelperStates, LifecycleInv, TypeOK
  <2>3. QED
    BY <2>1, <2>2, Leaves DEF HealthCheck, At, files, histories, LifecycleInv, TypeOK
<1>2. TypeOK'
  BY <1>1 DEF TypeOK, LifecycleInv
<1>3. CommandInv' /\ OwnersInv'
  BY <1>1, IdAssumption DEF LifecycleInv, TypeOK, CommandInv, OwnersInv, CLIAt, Owning,
     Opening, Serving, Recovering, CLIStates
<1>4. ConnectIsAwaited' /\ PipeInv'
  BY <1>1 DEF LifecycleInv, TypeOK, CommandInv, OwnersInv, ConnectIsAwaited, PipeInv, CLIAt,
     Open, At, GoneOrAbandoned, Owning, Opening, Serving, Recovering, CLIStates
<1>5. SocketInv' /\ WorkInv' /\ ForgetInv'
  BY <1>1, IdAssumption DEF LifecycleInv, TypeOK, CommandInv, OwnersInv, PipeInv, SocketInv,
     WorkInv, ForgetInv, CLIAt, Asked, Open, At, InController, Owning, Opening, Serving,
     Recovering, GoneOrAbandoned, CLIStates
<1>6. SessionsAreNamed'
  BY <1>1, IdAssumption DEF LifecycleInv, TypeOK, SessionsAreNamed, journal
<1>7. QED
  BY <1>2, <1>3, <1>4, <1>5, <1>6 DEF LifecycleInv

\* and so does a signal.
LEMMA StopKeeps ==
    ASSUME LifecycleInv, NEW h \in Helpers, Stop(h)
    PROVE  LifecycleInv'
<1>1. /\ helper' \in [Helpers -> HelperStates] /\ helper \in [Helpers -> HelperStates]
      /\ \A g \in Helpers : g # h => helper'[g] = helper[g]
      /\ helper[h].pc = "serving" /\ helper'[h].sess = helper[h].sess
      /\ helper'[h].pc = "closing"
      /\ UNCHANGED <<cli, meta, record, socket, work, used, abandoned>>
  BY Leaves DEF Stop, At, files, histories, LifecycleInv, TypeOK
<1>2. TypeOK'
  BY <1>1 DEF TypeOK, LifecycleInv
<1>3. CommandInv' /\ OwnersInv'
  BY <1>1, IdAssumption DEF LifecycleInv, TypeOK, CommandInv, OwnersInv, CLIAt, Owning,
     Opening, Serving, Recovering, CLIStates
<1>4. ConnectIsAwaited' /\ PipeInv'
  BY <1>1 DEF LifecycleInv, TypeOK, CommandInv, OwnersInv, ConnectIsAwaited, PipeInv, CLIAt,
     Open, At, GoneOrAbandoned, Owning, Opening, Serving, Recovering, CLIStates
<1>5. SocketInv' /\ WorkInv' /\ ForgetInv'
  BY <1>1, IdAssumption DEF LifecycleInv, TypeOK, CommandInv, OwnersInv, PipeInv, SocketInv,
     WorkInv, ForgetInv, CLIAt, Asked, Open, At, InController, Owning, Opening, Serving,
     Recovering, GoneOrAbandoned, CLIStates
<1>6. SessionsAreNamed'
  BY <1>1, IdAssumption DEF LifecycleInv, TypeOK, SessionsAreNamed, journal
<1>7. QED
  BY <1>2, <1>3, <1>4, <1>5, <1>6 DEF LifecycleInv

\* Whatever is at the socket path goes,
LEMMA CloseListenerKeeps ==
    ASSUME LifecycleInv, NEW h \in Helpers, CloseListener(h)
    PROVE  LifecycleInv'
<1>1. /\ helper' \in [Helpers -> HelperStates] /\ helper \in [Helpers -> HelperStates]
      /\ \A g \in Helpers : g # h => helper'[g] = helper[g]
      /\ helper[h].pc = "closing" /\ helper'[h].sess = helper[h].sess
      /\ helper'[h].pc = "removing" /\ socket' = NoHelper
      /\ UNCHANGED <<cli, meta, record, work, used, abandoned>>
  BY Moves DEF CloseListener, At, files, histories, LifecycleInv, TypeOK, HelperPoints
<1>2. TypeOK'
  BY <1>1 DEF TypeOK, LifecycleInv
<1>3. CommandInv' /\ OwnersInv'
  BY <1>1, IdAssumption DEF LifecycleInv, TypeOK, CommandInv, OwnersInv, CLIAt, Owning,
     Opening, Serving, Recovering, CLIStates
<1>4. ConnectIsAwaited' /\ PipeInv'
  BY <1>1 DEF LifecycleInv, TypeOK, CommandInv, OwnersInv, ConnectIsAwaited, PipeInv, CLIAt,
     Open, At, GoneOrAbandoned, Owning, Opening, Serving, Recovering, CLIStates
<1>5. SocketInv' /\ WorkInv' /\ ForgetInv'
  BY <1>1, IdAssumption DEF LifecycleInv, TypeOK, CommandInv, OwnersInv, PipeInv, SocketInv,
     WorkInv, ForgetInv, CLIAt, Asked, Open, At, InController, Owning, Opening, Serving,
     Recovering, GoneOrAbandoned, CLIStates
<1>6. SessionsAreNamed'
  BY <1>1, IdAssumption DEF LifecycleInv, TypeOK, SessionsAreNamed, journal
<1>7. QED
  BY <1>2, <1>3, <1>4, <1>5, <1>6 DEF LifecycleInv

\* even a second time.
LEMMA RemoveSocketKeeps ==
    ASSUME LifecycleInv, NEW h \in Helpers, RemoveSocket(h)
    PROVE  LifecycleInv'
<1>1. /\ helper' \in [Helpers -> HelperStates] /\ helper \in [Helpers -> HelperStates]
      /\ \A g \in Helpers : g # h => helper'[g] = helper[g]
      /\ helper[h].pc = "removing" /\ helper'[h].sess = helper[h].sess
      /\ helper'[h].pc = "final" /\ socket' = NoHelper
      /\ UNCHANGED <<cli, meta, record, work, used, abandoned>>
  BY Moves DEF RemoveSocket, At, files, histories, LifecycleInv, TypeOK, HelperPoints
<1>2. TypeOK'
  BY <1>1 DEF TypeOK, LifecycleInv
<1>3. CommandInv' /\ OwnersInv'
  BY <1>1, IdAssumption DEF LifecycleInv, TypeOK, CommandInv, OwnersInv, CLIAt, Owning,
     Opening, Serving, Recovering, CLIStates
<1>4. ConnectIsAwaited' /\ PipeInv'
  BY <1>1 DEF LifecycleInv, TypeOK, CommandInv, OwnersInv, ConnectIsAwaited, PipeInv, CLIAt,
     Open, At, GoneOrAbandoned, Owning, Opening, Serving, Recovering, CLIStates
<1>5. SocketInv' /\ WorkInv' /\ ForgetInv'
  BY <1>1, IdAssumption DEF LifecycleInv, TypeOK, CommandInv, OwnersInv, PipeInv, SocketInv,
     WorkInv, ForgetInv, CLIAt, Asked, Open, At, InController, Owning, Opening, Serving,
     Recovering, GoneOrAbandoned, CLIStates
<1>6. SessionsAreNamed'
  BY <1>1, IdAssumption DEF LifecycleInv, TypeOK, SessionsAreNamed, journal
<1>7. QED
  BY <1>2, <1>3, <1>4, <1>5, <1>6 DEF LifecycleInv

\* A helper that connects is awaited by its command, or abandoned.
LEMMA BeginConnectKeeps ==
    ASSUME LifecycleInv, NEW h \in Helpers, BeginConnect(h)
    PROVE  LifecycleInv'
<1>1. /\ helper' \in [Helpers -> HelperStates] /\ helper \in [Helpers -> HelperStates]
      /\ \A g \in Helpers : g # h => helper'[g] = helper[g]
      /\ helper[h].pc = "start" /\ helper'[h].sess = helper[h].sess
      /\ helper'[h].pc = "connecting" /\ work.by = NoHelper
      /\ work' = [by |-> h, sess |-> helper[h].sess, stage |-> "connect"]
      /\ UNCHANGED <<cli, meta, socket, record, used, abandoned>>
  BY Moves DEF BeginConnect, Controller!Begin, Controller!Unlocked, At, files, histories,
     LifecycleInv, TypeOK, HelperPoints
<1>2. TypeOK'
  BY <1>1 DEF TypeOK, LifecycleInv, HelperStates, Controller!Stages
<1>3. CommandInv' /\ OwnersInv'
  BY <1>1, IdAssumption DEF LifecycleInv, TypeOK, CommandInv, OwnersInv, CLIAt, Owning,
     Opening, Serving, Recovering, CLIStates
<1>4. ConnectIsAwaited' /\ PipeInv'
  BY <1>1 DEF LifecycleInv, TypeOK, CommandInv, OwnersInv, ConnectIsAwaited, PipeInv, CLIAt,
     Open, At, GoneOrAbandoned, Owning, Opening, Serving, Recovering, CLIStates
<1>5. SocketInv' /\ WorkInv' /\ ForgetInv'
  BY <1>1, IdAssumption DEF LifecycleInv, TypeOK, CommandInv, OwnersInv, PipeInv, SocketInv,
     WorkInv, ForgetInv, CLIAt, Asked, Open, At, InController, Owning, Opening, Serving,
     Recovering, GoneOrAbandoned, CLIStates
<1>6. SessionsAreNamed'
  BY <1>1, IdAssumption DEF LifecycleInv, TypeOK, SessionsAreNamed, journal
<1>7. QED
  BY <1>2, <1>3, <1>4, <1>5, <1>6 DEF LifecycleInv

\* A Connect that is refused ends its command and its helper,
LEMMA RefuseConnectKeeps ==
    ASSUME LifecycleInv, NEW h \in Helpers, RefuseConnect(h)
    PROVE  LifecycleInv'
<1>1. /\ helper' \in [Helpers -> HelperStates] /\ helper \in [Helpers -> HelperStates]
      /\ \A g \in Helpers : g # h => helper'[g] = helper[g]
      /\ helper[h].pc = "start"
      /\ helper'[h].pc = "dead"
      /\ cli' \in CLIStates
      /\ ~(cli.pc = "await" /\ cli.peer = h /\ cli.via = "pipe") => cli' = cli
      /\ cli.pc = "await" /\ cli.peer = h /\ cli.via = "pipe" => cli'.pc = "idle" /\ ~cli'.answered
      /\ UNCHANGED <<meta, record, socket, work, used, abandoned>>
  BY Exits, AnsweredFacts DEF RefuseConnect, At, files, histories, LifecycleInv, TypeOK
<1>2. TypeOK'
  BY <1>1 DEF TypeOK, LifecycleInv
<1>3. CommandInv' /\ OwnersInv'
  BY <1>1, IdAssumption DEF LifecycleInv, TypeOK, CommandInv, OwnersInv, CLIAt, Owning,
     Opening, Serving, Recovering, CLIStates
<1>4. ConnectIsAwaited' /\ PipeInv'
  BY <1>1 DEF LifecycleInv, TypeOK, CommandInv, OwnersInv, ConnectIsAwaited, PipeInv, CLIAt,
     Open, At, GoneOrAbandoned, Owning, Opening, Serving, Recovering, CLIStates
<1>5. SocketInv' /\ WorkInv' /\ ForgetInv'
  BY <1>1, IdAssumption DEF LifecycleInv, TypeOK, CommandInv, OwnersInv, PipeInv, SocketInv,
     WorkInv, ForgetInv, CLIAt, Asked, Open, At, InController, Owning, Opening, Serving,
     Recovering, GoneOrAbandoned, CLIStates
<1>6. SessionsAreNamed'
  BY <1>1, IdAssumption DEF LifecycleInv, TypeOK, SessionsAreNamed, journal
<1>7. QED
  BY <1>2, <1>3, <1>4, <1>5, <1>6 DEF LifecycleInv

\* and so does one that fails.
LEMMA EndConnectKeeps ==
    ASSUME LifecycleInv, NEW h \in Helpers, EndConnect(h)
    PROVE  LifecycleInv'
<1>1. /\ helper' \in [Helpers -> HelperStates] /\ helper \in [Helpers -> HelperStates]
      /\ \A g \in Helpers : g # h => helper'[g] = helper[g]
      /\ helper[h].pc = "connecting"
      /\ \/ helper'[h].pc = "listen" /\ helper'[h].sess = helper[h].sess /\ cli' = cli
         \/ helper'[h].pc = "dead"
      /\ cli' \in CLIStates
      /\ ~(cli.pc = "await" /\ cli.peer = h /\ cli.via = "pipe") => cli' = cli
      /\ cli.pc = "await" /\ cli.peer = h /\ cli.via = "pipe" => cli' = cli \/ (cli'.pc = "idle" /\ ~cli'.answered)
      /\ work.by = h /\ work'.by = NoHelper
      /\ work' \in [by : Helpers \cup {NoHelper}, sess : Sessions \cup {NoSession}, stage : Controller!Stages]
      /\ cli' # cli => helper'[h].pc = "dead"
      /\ UNCHANGED <<meta, record, socket, used, abandoned>>
  <2>1. /\ helper[h].pc = "connecting" /\ helper \in [Helpers -> HelperStates] /\ cli \in CLIStates
        /\ Controller!Return(h) /\ UNCHANGED <<meta, socket, used, abandoned>>
    BY DEF EndConnect, Returns, At, histories, LifecycleInv, TypeOK
  <2>2. CASE cli' = cli /\ HelperGoes(h, [helper[h] EXCEPT !.pc = "listen", !.device = TRUE])
    <3>1. /\ helper' \in [Helpers -> HelperStates]
          /\ \A g \in Helpers : g # h => helper'[g] = helper[g]
          /\ helper'[h].pc = "listen" /\ helper'[h].sess = helper[h].sess
      BY <2>1, <2>2, ZenonT(60) DEF HelperGoes, HelperStates, HelperPoints
    <3>2. QED
      BY <2>1, <2>2, <3>1, GivesBack
  <2>3. CASE cli' = Answered(h, "pipe", FALSE) /\ HelperGoes(h, DeadHelper)
    BY <2>1, <2>3, Exits, AnsweredFacts, GivesBack
  <2>4. QED
    BY <2>2, <2>3 DEF EndConnect
<1>2. TypeOK'
  BY <1>1 DEF TypeOK, LifecycleInv
<1>3. CommandInv' /\ OwnersInv'
  BY <1>1, IdAssumption DEF LifecycleInv, TypeOK, CommandInv, OwnersInv, CLIAt, Owning,
     Opening, Serving, Recovering, CLIStates
<1>4. ConnectIsAwaited' /\ PipeInv'
  BY <1>1 DEF LifecycleInv, TypeOK, CommandInv, OwnersInv, ConnectIsAwaited, PipeInv, CLIAt,
     Open, At, GoneOrAbandoned, Owning, Opening, Serving, Recovering, CLIStates
<1>5. SocketInv' /\ WorkInv' /\ ForgetInv'
  BY <1>1, IdAssumption DEF LifecycleInv, TypeOK, CommandInv, OwnersInv, PipeInv, SocketInv,
     WorkInv, ForgetInv, CLIAt, Asked, Open, At, InController, Owning, Opening, Serving,
     Recovering, GoneOrAbandoned, CLIStates
<1>6. SessionsAreNamed'
  BY <1>1, IdAssumption DEF LifecycleInv, TypeOK, SessionsAreNamed, journal
<1>7. QED
  BY <1>2, <1>3, <1>4, <1>5, <1>6 DEF LifecycleInv

\* A helper without a listener has only its last Disconnect ahead.
LEMMA ListenKeeps ==
    ASSUME LifecycleInv, NEW h \in Helpers, Listen(h)
    PROVE  LifecycleInv'
<1>1. /\ helper' \in [Helpers -> HelperStates] /\ helper \in [Helpers -> HelperStates]
      /\ \A g \in Helpers : g # h => helper'[g] = helper[g]
      /\ helper[h].pc = "listen" /\ helper'[h].sess = helper[h].sess
      /\ \/ helper'[h].pc = "ack" /\ socket' = h
         \/ helper'[h].pc = "final" /\ socket' = socket
      /\ UNCHANGED <<cli, meta, record, work, used, abandoned>>
  BY Moves DEF Listen, At, files, histories, LifecycleInv, TypeOK, HelperPoints
<1>2. TypeOK'
  BY <1>1 DEF TypeOK, LifecycleInv
<1>3. CommandInv' /\ OwnersInv'
  BY <1>1, IdAssumption DEF LifecycleInv, TypeOK, CommandInv, OwnersInv, CLIAt, Owning,
     Opening, Serving, Recovering, CLIStates
<1>4. ConnectIsAwaited' /\ PipeInv'
  BY <1>1 DEF LifecycleInv, TypeOK, CommandInv, OwnersInv, ConnectIsAwaited, PipeInv, CLIAt,
     Open, At, GoneOrAbandoned, Owning, Opening, Serving, Recovering, CLIStates
<1>5. SocketInv' /\ WorkInv' /\ ForgetInv'
  BY <1>1, IdAssumption DEF LifecycleInv, TypeOK, CommandInv, OwnersInv, PipeInv, SocketInv,
     WorkInv, ForgetInv, CLIAt, Asked, Open, At, InController, Owning, Opening, Serving,
     Recovering, GoneOrAbandoned, CLIStates
<1>6. SessionsAreNamed'
  BY <1>1, IdAssumption DEF LifecycleInv, TypeOK, SessionsAreNamed, journal
<1>7. QED
  BY <1>2, <1>3, <1>4, <1>5, <1>6 DEF LifecycleInv

\* A helper serves only if its command is still there, and the metadata names its session.
LEMMA AckKeeps ==
    ASSUME LifecycleInv, NEW h \in Helpers, Ack(h)
    PROVE  LifecycleInv'
<1>1. /\ helper' \in [Helpers -> HelperStates] /\ helper \in [Helpers -> HelperStates]
      /\ \A g \in Helpers : g # h => helper'[g] = helper[g]
      /\ helper[h].pc = "ack"
      /\ \/ helper'[h].pc = "serving" /\ helper'[h].sess = helper[h].sess /\ Open(h, "pipe")
         \/ helper'[h].pc = "closing" /\ helper'[h].sess = helper[h].sess
         \/ helper'[h].pc = "dead"
      /\ cli' \in CLIStates /\ cli'.pc = cli.pc /\ cli'.op = cli.op /\ cli'.sess = cli.sess /\ cli'.peer = cli.peer
      /\ cli'.via = cli.via
      /\ \/ ~(cli.pc = "await" /\ cli.peer = h /\ cli.via = "pipe") /\ cli'.answered = cli.answered
         \/ cli.pc = "await" /\ cli.peer = h /\ cli.via = "pipe" /\ cli.op = "connect" /\ helper'[h].pc = "serving"
      /\ UNCHANGED <<meta, record, socket, work, used, abandoned>>
  <2>1. helper[h].pc = "ack" /\ helper \in [Helpers -> HelperStates] /\ cli \in CLIStates
    BY DEF Ack, At, LifecycleInv, TypeOK
  <2>2. cli.pc = "await" /\ cli.peer = h /\ cli.via = "pipe" => cli.op = "connect" /\ Open(h, "pipe")
    BY <2>1 DEF LifecycleInv, PipeInv, Open, Opening, CLIAt
  <2>3. /\ cli' \in CLIStates
        /\ cli'.pc = cli.pc /\ cli'.op = cli.op /\ cli'.sess = cli.sess /\ cli'.peer = cli.peer /\ cli'.via = cli.via
        /\ ~(cli.pc = "await" /\ cli.peer = h /\ cli.via = "pipe") => cli'.answered = cli.answered
    <3>1. cli' = Answered(h, "pipe", TRUE)
      BY DEF Ack
    <3>2. CASE cli.pc = "await" /\ cli.peer = h /\ cli.via = "pipe"
      <4>1. cli' = [cli EXCEPT !.answered = TRUE]
        BY <2>2, <3>1, <3>2 DEF Answered, Takes, CLIAt
      <4>2. QED
        BY <2>1, <3>2, <4>1 DEF CLIStates
    <3>3. CASE ~(cli.pc = "await" /\ cli.peer = h /\ cli.via = "pipe")
      BY <2>1, <3>1, <3>3, AnsweredFacts
    <3>4. QED
      BY <3>2, <3>3
  <2>4. CASE Open(h, "pipe")
    <3>1. HelperAt(h, "serving")
      BY <2>4 DEF Ack
    <3>2. QED
      BY <2>1, <2>2, <2>3, <2>4, <3>1, Moves DEF Ack, files, histories, HelperPoints
  <2>5. CASE ~Open(h, "pipe")
    <3>1. LeavesServe(h) \/ HelperGoes(h, DeadHelper)
      BY <2>5 DEF Ack
    <3>2. QED
      BY <2>1, <2>2, <2>3, <2>5, <3>1, Leaves, Exits DEF Ack, files, histories
  <2>6. QED
    BY <2>4, <2>5
<1>2. TypeOK'
  BY <1>1 DEF TypeOK, LifecycleInv
<1>3. CommandInv' /\ OwnersInv'
  BY <1>1, IdAssumption DEF LifecycleInv, TypeOK, CommandInv, OwnersInv, CLIAt, Owning,
     Opening, Serving, Recovering, CLIStates
<1>4. ConnectIsAwaited' /\ PipeInv'
  BY <1>1 DEF LifecycleInv, TypeOK, CommandInv, OwnersInv, ConnectIsAwaited, PipeInv, CLIAt,
     Open, At, GoneOrAbandoned, Owning, Opening, Serving, Recovering, CLIStates
<1>5. SocketInv' /\ WorkInv' /\ ForgetInv'
  BY <1>1, IdAssumption DEF LifecycleInv, TypeOK, CommandInv, OwnersInv, PipeInv, SocketInv,
     WorkInv, ForgetInv, CLIAt, Asked, Open, At, InController, Owning, Opening, Serving,
     Recovering, GoneOrAbandoned, CLIStates
<1>6. SessionsAreNamed'
  BY <1>1, IdAssumption DEF LifecycleInv, TypeOK, SessionsAreNamed, journal
<1>7. QED
  BY <1>2, <1>3, <1>4, <1>5, <1>6 DEF LifecycleInv

\* The answer to a Status ends the command and changes nothing.
LEMMA HandleStatusKeeps ==
    ASSUME LifecycleInv, NEW h \in Helpers, HandleStatus(h)
    PROVE  LifecycleInv'
<1>1. /\ helper' \in [Helpers -> HelperStates] /\ helper \in [Helpers -> HelperStates]
      /\ \A g \in Helpers : g # h => helper'[g] = helper[g]
      /\ helper' = helper
      /\ cli.pc = "await" /\ cli.peer = h /\ cli.via = "socket" /\ helper[h].pc = "serving"
      /\ cli' \in CLIStates /\ cli'.pc = "idle" /\ ~cli'.answered
      /\ UNCHANGED <<meta, record, socket, work, used, abandoned>>
  <2>1. cli.pc = "await" /\ cli.peer = h /\ cli.via = "socket" /\ cli.op = "status" /\ helper[h].pc = "serving"
    BY DEF HandleStatus, Asked, Open, At, CLIAt
  <2>2. cli' \in CLIStates /\ cli'.pc = "idle" /\ ~cli'.answered
    BY <2>1, AnsweredFacts DEF HandleStatus
  <2>3. QED
    BY <2>1, <2>2 DEF HandleStatus, At, files, histories, LifecycleInv, TypeOK
<1>2. TypeOK'
  BY <1>1 DEF TypeOK, LifecycleInv
<1>3. CommandInv' /\ OwnersInv'
  BY <1>1, IdAssumption DEF LifecycleInv, TypeOK, CommandInv, OwnersInv, CLIAt, Owning,
     Opening, Serving, Recovering, CLIStates
<1>4. ConnectIsAwaited' /\ PipeInv'
  BY <1>1 DEF LifecycleInv, TypeOK, CommandInv, OwnersInv, ConnectIsAwaited, PipeInv, CLIAt,
     Open, At, GoneOrAbandoned, Owning, Opening, Serving, Recovering, CLIStates
<1>5. SocketInv' /\ WorkInv' /\ ForgetInv'
  BY <1>1, IdAssumption DEF LifecycleInv, TypeOK, CommandInv, OwnersInv, PipeInv, SocketInv,
     WorkInv, ForgetInv, CLIAt, Asked, Open, At, InController, Owning, Opening, Serving,
     Recovering, GoneOrAbandoned, CLIStates
<1>6. SessionsAreNamed'
  BY <1>1, IdAssumption DEF LifecycleInv, TypeOK, SessionsAreNamed, journal
<1>7. QED
  BY <1>2, <1>3, <1>4, <1>5, <1>6 DEF LifecycleInv

\* A Disconnect is handled with its sender at the other end.
LEMMA BeginHandleKeeps ==
    ASSUME LifecycleInv, NEW h \in Helpers, BeginHandle(h)
    PROVE  LifecycleInv'
<1>1. /\ helper' \in [Helpers -> HelperStates] /\ helper \in [Helpers -> HelperStates]
      /\ \A g \in Helpers : g # h => helper'[g] = helper[g]
      /\ cli.pc = "await" /\ cli.peer = h /\ cli.via = "socket" /\ helper[h].pc = "serving"
      /\ \/ /\ helper'[h].pc = "handling" /\ helper'[h].sess = helper[h].sess /\ cli' = cli
            /\ work.by = NoHelper /\ work'.by = h /\ work'.sess = helper[h].sess /\ work'.stage = "rollback"
            /\ work' \in [by : Helpers \cup {NoHelper}, sess : Sessions \cup {NoSession}, stage : Controller!Stages]
         \/ helper' = helper /\ work' = work /\ cli' \in CLIStates /\ cli'.pc = "idle" /\ ~cli'.answered
      /\ UNCHANGED <<meta, record, socket, used, abandoned>>
  <2>1. /\ cli.pc = "await" /\ cli.peer = h /\ cli.via = "socket" /\ helper[h].pc = "serving"
        /\ helper \in [Helpers -> HelperStates]
        /\ UNCHANGED <<meta, socket, used, abandoned>>
    BY DEF BeginHandle, Asked, Open, At, CLIAt, histories, LifecycleInv, TypeOK
  <2>2. CASE Locks(h) /\ HelperAt(h, "handling") /\ cli' = cli
    BY <2>1, <2>2, Moves, Locked DEF HelperPoints
  <2>3. CASE LockHeld /\ cli' = Answered(h, "socket", FALSE) /\ UNCHANGED <<helper, record>>
    BY <2>1, <2>3, AnsweredFacts DEF LockHeld
  <2>4. QED
    BY <2>2, <2>3 DEF BeginHandle
<1>2. TypeOK'
  BY <1>1 DEF TypeOK, LifecycleInv
<1>3. CommandInv' /\ OwnersInv'
  BY <1>1, IdAssumption DEF LifecycleInv, TypeOK, CommandInv, OwnersInv, CLIAt, Owning,
     Opening, Serving, Recovering, CLIStates
<1>4. ConnectIsAwaited' /\ PipeInv'
  BY <1>1 DEF LifecycleInv, TypeOK, CommandInv, OwnersInv, ConnectIsAwaited, PipeInv, CLIAt,
     Open, At, GoneOrAbandoned, Owning, Opening, Serving, Recovering, CLIStates
<1>5. SocketInv' /\ WorkInv' /\ ForgetInv'
  BY <1>1, IdAssumption DEF LifecycleInv, TypeOK, CommandInv, OwnersInv, PipeInv, SocketInv,
     WorkInv, ForgetInv, CLIAt, Asked, Open, At, InController, Owning, Opening, Serving,
     Recovering, GoneOrAbandoned, CLIStates
<1>6. SessionsAreNamed'
  BY <1>1, IdAssumption DEF LifecycleInv, TypeOK, SessionsAreNamed, journal
<1>7. QED
  BY <1>2, <1>3, <1>4, <1>5, <1>6 DEF LifecycleInv

\* A request without a sender is about the session it finds.
LEMMA BeginLateKeeps ==
    ASSUME LifecycleInv, NEW h \in Helpers, BeginLate(h)
    PROVE  LifecycleInv'
<1>1. /\ helper' \in [Helpers -> HelperStates] /\ helper \in [Helpers -> HelperStates]
      /\ \A g \in Helpers : g # h => helper'[g] = helper[g]
      /\ helper[h].pc = "serving" /\ helper'[h].sess = helper[h].sess
      /\ \/ /\ helper'[h].pc = "late"
            /\ work.by = NoHelper /\ work'.by = h /\ work'.sess = helper[h].sess /\ work'.stage = "rollback"
            /\ work' \in [by : Helpers \cup {NoHelper}, sess : Sessions \cup {NoSession}, stage : Controller!Stages]
         \/ helper'[h].pc = "serving" /\ work' = work
      /\ UNCHANGED <<cli, meta, record, socket, used, abandoned>>
  <2>1. /\ helper[h].pc = "serving" /\ helper \in [Helpers -> HelperStates]
        /\ UNCHANGED <<cli, meta, socket, used, abandoned>>
    BY DEF BeginLate, At, histories, LifecycleInv, TypeOK
  <2>2. CASE Locks(h) /\ HelperGoes(h, [helper[h] EXCEPT !.pc = "late", !.orphan = FALSE])
    <3>1. /\ helper' \in [Helpers -> HelperStates]
          /\ \A g \in Helpers : g # h => helper'[g] = helper[g]
          /\ helper'[h].pc = "late" /\ helper'[h].sess = helper[h].sess
      BY <2>1, <2>2, ZenonT(60) DEF HelperGoes, HelperStates, HelperPoints
    <3>2. QED
      BY <2>1, <2>2, <3>1, Locked
  <2>3. CASE LockHeld /\ HelperGoes(h, [helper[h] EXCEPT !.orphan = FALSE]) /\ UNCHANGED record
    <3>1. /\ helper' \in [Helpers -> HelperStates]
          /\ \A g \in Helpers : g # h => helper'[g] = helper[g]
          /\ helper'[h].pc = "serving" /\ helper'[h].sess = helper[h].sess
      BY <2>1, <2>3 DEF HelperGoes, HelperStates
    <3>2. QED
      BY <2>1, <2>3, <3>1 DEF LockHeld
  <2>4. QED
    BY <2>2, <2>3 DEF BeginLate
<1>2. TypeOK'
  BY <1>1 DEF TypeOK, LifecycleInv
<1>3. CommandInv' /\ OwnersInv'
  BY <1>1, IdAssumption DEF LifecycleInv, TypeOK, CommandInv, OwnersInv, CLIAt, Owning,
     Opening, Serving, Recovering, CLIStates
<1>4. ConnectIsAwaited' /\ PipeInv'
  BY <1>1 DEF LifecycleInv, TypeOK, CommandInv, OwnersInv, ConnectIsAwaited, PipeInv, CLIAt,
     Open, At, GoneOrAbandoned, Owning, Opening, Serving, Recovering, CLIStates
<1>5. SocketInv' /\ WorkInv' /\ ForgetInv'
  BY <1>1, IdAssumption DEF LifecycleInv, TypeOK, CommandInv, OwnersInv, PipeInv, SocketInv,
     WorkInv, ForgetInv, CLIAt, Asked, Open, At, InController, Owning, Opening, Serving,
     Recovering, GoneOrAbandoned, CLIStates
<1>6. SessionsAreNamed'
  BY <1>1, IdAssumption DEF LifecycleInv, TypeOK, SessionsAreNamed, journal
<1>7. QED
  BY <1>2, <1>3, <1>4, <1>5, <1>6 DEF LifecycleInv

\* A success is answered when nothing is left of the session, and by the only helper that served it.
LEMMA EndHandleKeeps ==
    ASSUME LifecycleInv, NEW h \in Helpers, EndHandle(h)
    PROVE  LifecycleInv'
<1>1. /\ helper' \in [Helpers -> HelperStates] /\ helper \in [Helpers -> HelperStates]
      /\ \A g \in Helpers : g # h => helper'[g] = helper[g]
      /\ helper[h].pc \in {"handling", "late"} /\ helper'[h].sess = helper[h].sess
      /\ \/ helper'[h].pc = "closing" /\ record[helper[h].sess] = "none"
         \/ helper'[h].pc = "serving"
      /\ work.by = h /\ work'.by = NoHelper
      /\ work' \in [by : Helpers \cup {NoHelper}, sess : Sessions \cup {NoSession}, stage : Controller!Stages]
      /\ cli' \in CLIStates
      /\ helper[h].pc = "handling" =>
            /\ cli.pc = "await" /\ cli.peer = h /\ cli.via = "socket" /\ cli.op # "connect"
            /\ ~cli'.answered
            /\ cli'.pc = "idle" \/ (cli'.pc = "forget" /\ helper'[h].pc = "closing")
      /\ helper[h].pc = "late" => cli' = cli
      /\ UNCHANGED <<meta, record, socket, used, abandoned>>
  <2>1. /\ helper[h].pc \in {"handling", "late"} /\ helper \in [Helpers -> HelperStates] /\ cli \in CLIStates
        /\ UNCHANGED <<meta, socket, used, abandoned>>
    BY DEF EndHandle, At, histories, LifecycleInv, TypeOK
  <2>2. helper[h].pc = "handling" => cli.pc = "await" /\ cli.peer = h /\ cli.via = "socket" /\ cli.op # "connect"
    BY DEF LifecycleInv, SocketInv, CommandInv, Asked, Open, At, CLIAt
  <2>3. PICK ok \in BOOLEAN :
           /\ Returns(h, ok)
           /\ IF ok THEN LeavesServe(h) ELSE HelperAt(h, "serving")
           /\ cli' = IF At(h, "handling") THEN Answered(h, "socket", ok) ELSE cli
    BY DEF EndHandle
  <2>4. Controller!Return(h)
    BY <2>3 DEF Returns
  <2>5. ok => record[helper[h].sess] = "none"
    <3>1. work.by = h
      BY <2>4, GivesBack
    <3>2. ok => work.stage \in {"connected", "clean"}
      BY <2>3 DEF Returns
    <3>3. QED
      BY <2>1, <3>1, <3>2 DEF LifecycleInv, WorkInv, At
  <2>6. /\ helper' \in [Helpers -> HelperStates]
        /\ \A g \in Helpers : g # h => helper'[g] = helper[g]
        /\ helper'[h].sess = helper[h].sess
        /\ ok => helper'[h].pc = "closing"
        /\ ~ok => helper'[h].pc = "serving"
    BY <2>3, Leaves, Moves DEF HelperPoints
  <2>7. CASE helper[h].pc = "handling"
    <3>1. cli' = Answered(h, "socket", ok)
      BY <2>3, <2>7 DEF At
    <3>2. QED
      BY <2>1, <2>2, <2>4, <2>5, <2>6, <2>7, <3>1, AnsweredFacts, GivesBack
  <2>8. CASE helper[h].pc = "late"
    <3>1. cli' = cli
      BY <2>3, <2>8 DEF At
    <3>2. QED
      BY <2>1, <2>4, <2>5, <2>6, <2>8, <3>1, GivesBack
  <2>9. QED
    BY <2>1, <2>7, <2>8
<1>2. TypeOK'
  BY <1>1 DEF TypeOK, LifecycleInv
<1>3. CommandInv' /\ OwnersInv'
  BY <1>1, IdAssumption DEF LifecycleInv, TypeOK, CommandInv, OwnersInv, CLIAt, Owning,
     Opening, Serving, Recovering, CLIStates
<1>4. ConnectIsAwaited' /\ PipeInv'
  BY <1>1 DEF LifecycleInv, TypeOK, CommandInv, OwnersInv, ConnectIsAwaited, PipeInv, CLIAt,
     Open, At, GoneOrAbandoned, Owning, Opening, Serving, Recovering, CLIStates
<1>5. SocketInv' /\ WorkInv' /\ ForgetInv'
  BY <1>1, IdAssumption DEF LifecycleInv, TypeOK, CommandInv, OwnersInv, PipeInv, SocketInv,
     WorkInv, ForgetInv, CLIAt, Asked, Open, At, InController, Owning, Opening, Serving,
     Recovering, GoneOrAbandoned, CLIStates
<1>6. SessionsAreNamed'
  BY <1>1, IdAssumption DEF LifecycleInv, TypeOK, SessionsAreNamed, journal
<1>7. QED
  BY <1>2, <1>3, <1>4, <1>5, <1>6 DEF LifecycleInv

\* The last Disconnect is of the helper's own session,
LEMMA BeginFinalKeeps ==
    ASSUME LifecycleInv, NEW h \in Helpers, BeginFinal(h)
    PROVE  LifecycleInv'
<1>1. /\ helper' \in [Helpers -> HelperStates] /\ helper \in [Helpers -> HelperStates]
      /\ \A g \in Helpers : g # h => helper'[g] = helper[g]
      /\ helper[h].pc = "final"
      /\ \/ /\ helper'[h].pc = "finishing" /\ helper'[h].sess = helper[h].sess
            /\ work.by = NoHelper /\ work'.by = h /\ work'.sess = helper[h].sess /\ work'.stage = "rollback"
            /\ work' \in [by : Helpers \cup {NoHelper}, sess : Sessions \cup {NoSession}, stage : Controller!Stages]
         \/ helper'[h].pc = "dead" /\ work' = work
      /\ UNCHANGED <<cli, meta, record, socket, used, abandoned>>
  BY Moves, Exits, Locked DEF BeginFinal, LockHeld, At, files, histories, LifecycleInv,
     TypeOK, HelperPoints
<1>2. TypeOK'
  BY <1>1 DEF TypeOK, LifecycleInv
<1>3. CommandInv' /\ OwnersInv'
  BY <1>1, IdAssumption DEF LifecycleInv, TypeOK, CommandInv, OwnersInv, CLIAt, Owning,
     Opening, Serving, Recovering, CLIStates
<1>4. ConnectIsAwaited' /\ PipeInv'
  BY <1>1 DEF LifecycleInv, TypeOK, CommandInv, OwnersInv, ConnectIsAwaited, PipeInv, CLIAt,
     Open, At, GoneOrAbandoned, Owning, Opening, Serving, Recovering, CLIStates
<1>5. SocketInv' /\ WorkInv' /\ ForgetInv'
  BY <1>1, IdAssumption DEF LifecycleInv, TypeOK, CommandInv, OwnersInv, PipeInv, SocketInv,
     WorkInv, ForgetInv, CLIAt, Asked, Open, At, InController, Owning, Opening, Serving,
     Recovering, GoneOrAbandoned, CLIStates
<1>6. SessionsAreNamed'
  BY <1>1, IdAssumption DEF LifecycleInv, TypeOK, SessionsAreNamed, journal
<1>7. QED
  BY <1>2, <1>3, <1>4, <1>5, <1>6 DEF LifecycleInv

\* and the helper exits after it.
LEMMA EndFinalKeeps ==
    ASSUME LifecycleInv, NEW h \in Helpers, EndFinal(h)
    PROVE  LifecycleInv'
<1>1. /\ helper' \in [Helpers -> HelperStates] /\ helper \in [Helpers -> HelperStates]
      /\ \A g \in Helpers : g # h => helper'[g] = helper[g]
      /\ helper[h].pc = "finishing"
      /\ helper'[h].pc = "dead"
      /\ work.by = h /\ work'.by = NoHelper
      /\ work' \in [by : Helpers \cup {NoHelper}, sess : Sessions \cup {NoSession}, stage : Controller!Stages]
      /\ UNCHANGED <<cli, meta, record, socket, used, abandoned>>
  BY Exits, GivesBack DEF EndFinal, Returns, At, files, histories, LifecycleInv, TypeOK
<1>2. TypeOK'
  BY <1>1 DEF TypeOK, LifecycleInv
<1>3. CommandInv' /\ OwnersInv'
  BY <1>1, IdAssumption DEF LifecycleInv, TypeOK, CommandInv, OwnersInv, CLIAt, Owning,
     Opening, Serving, Recovering, CLIStates
<1>4. ConnectIsAwaited' /\ PipeInv'
  BY <1>1 DEF LifecycleInv, TypeOK, CommandInv, OwnersInv, ConnectIsAwaited, PipeInv, CLIAt,
     Open, At, GoneOrAbandoned, Owning, Opening, Serving, Recovering, CLIStates
<1>5. SocketInv' /\ WorkInv' /\ ForgetInv'
  BY <1>1, IdAssumption DEF LifecycleInv, TypeOK, CommandInv, OwnersInv, PipeInv, SocketInv,
     WorkInv, ForgetInv, CLIAt, Asked, Open, At, InController, Owning, Opening, Serving,
     Recovering, GoneOrAbandoned, CLIStates
<1>6. SessionsAreNamed'
  BY <1>1, IdAssumption DEF LifecycleInv, TypeOK, SessionsAreNamed, journal
<1>7. QED
  BY <1>2, <1>3, <1>4, <1>5, <1>6 DEF LifecycleInv

\* A helper that recovers disconnects the session it was started for.
LEMMA BeginRecoverKeeps ==
    ASSUME LifecycleInv, NEW h \in Helpers, BeginRecover(h)
    PROVE  LifecycleInv'
<1>1. /\ helper' \in [Helpers -> HelperStates] /\ helper \in [Helpers -> HelperStates]
      /\ \A g \in Helpers : g # h => helper'[g] = helper[g]
      /\ helper[h].pc = "recover"
      /\ \/ /\ helper'[h].pc = "recovering" /\ helper'[h].sess = helper[h].sess /\ cli' = cli
            /\ work.by = NoHelper /\ work'.by = h /\ work'.sess = helper[h].sess /\ work'.stage = "rollback"
            /\ work' \in [by : Helpers \cup {NoHelper}, sess : Sessions \cup {NoSession}, stage : Controller!Stages]
         \/ helper'[h].pc = "dead" /\ work' = work
      /\ cli' \in CLIStates
      /\ ~(cli.pc = "await" /\ cli.peer = h /\ cli.via = "pipe") => cli' = cli
      /\ cli.pc = "await" /\ cli.peer = h /\ cli.via = "pipe" => cli' = cli \/ (cli'.pc = "idle" /\ ~cli'.answered)
      /\ cli' # cli => helper'[h].pc = "dead"
      /\ UNCHANGED <<meta, record, socket, used, abandoned>>
  <2>1. /\ helper[h].pc = "recover" /\ helper \in [Helpers -> HelperStates] /\ cli \in CLIStates
        /\ UNCHANGED <<meta, socket, used, abandoned>>
    BY DEF BeginRecover, At, histories, LifecycleInv, TypeOK
  <2>2. CASE Locks(h) /\ HelperAt(h, "recovering") /\ cli' = cli
    BY <2>1, <2>2, Moves, Locked DEF HelperPoints
  <2>3. CASE LockHeld /\ cli' = Answered(h, "pipe", FALSE) /\ HelperGoes(h, DeadHelper) /\ UNCHANGED record
    BY <2>1, <2>3, Exits, AnsweredFacts DEF LockHeld
  <2>4. QED
    BY <2>2, <2>3 DEF BeginRecover
<1>2. TypeOK'
  BY <1>1 DEF TypeOK, LifecycleInv
<1>3. CommandInv' /\ OwnersInv'
  BY <1>1, IdAssumption DEF LifecycleInv, TypeOK, CommandInv, OwnersInv, CLIAt, Owning,
     Opening, Serving, Recovering, CLIStates
<1>4. ConnectIsAwaited' /\ PipeInv'
  BY <1>1 DEF LifecycleInv, TypeOK, CommandInv, OwnersInv, ConnectIsAwaited, PipeInv, CLIAt,
     Open, At, GoneOrAbandoned, Owning, Opening, Serving, Recovering, CLIStates
<1>5. SocketInv' /\ WorkInv' /\ ForgetInv'
  BY <1>1, IdAssumption DEF LifecycleInv, TypeOK, CommandInv, OwnersInv, PipeInv, SocketInv,
     WorkInv, ForgetInv, CLIAt, Asked, Open, At, InController, Owning, Opening, Serving,
     Recovering, GoneOrAbandoned, CLIStates
<1>6. SessionsAreNamed'
  BY <1>1, IdAssumption DEF LifecycleInv, TypeOK, SessionsAreNamed, journal
<1>7. QED
  BY <1>2, <1>3, <1>4, <1>5, <1>6 DEF LifecycleInv

\* Once it has, nothing is left of the session.
LEMMA EndRecoverKeeps ==
    ASSUME LifecycleInv, NEW h \in Helpers, EndRecover(h)
    PROVE  LifecycleInv'
<1>1. /\ helper' \in [Helpers -> HelperStates] /\ helper \in [Helpers -> HelperStates]
      /\ \A g \in Helpers : g # h => helper'[g] = helper[g]
      /\ helper[h].pc = "recovering"
      /\ \/ helper'[h].pc = "sweep" /\ cli' = cli /\ record[helper[h].sess] = "none"
         \/ helper'[h].pc = "dead"
      /\ work.by = h /\ work'.by = NoHelper
      /\ work' \in [by : Helpers \cup {NoHelper}, sess : Sessions \cup {NoSession}, stage : Controller!Stages]
      /\ cli' \in CLIStates
      /\ ~(cli.pc = "await" /\ cli.peer = h /\ cli.via = "pipe") => cli' = cli
      /\ cli.pc = "await" /\ cli.peer = h /\ cli.via = "pipe" => cli' = cli \/ (cli'.pc = "idle" /\ ~cli'.answered)
      /\ cli' # cli => helper'[h].pc = "dead"
      /\ UNCHANGED <<meta, record, socket, used, abandoned>>
  <2>1. /\ helper[h].pc = "recovering" /\ helper \in [Helpers -> HelperStates] /\ cli \in CLIStates
        /\ UNCHANGED <<meta, socket, used, abandoned>>
    BY DEF EndRecover, At, histories, LifecycleInv, TypeOK
  <2>2. PICK ok \in BOOLEAN :
           /\ Returns(h, ok)
           /\ cli' = IF ok THEN cli ELSE Answered(h, "pipe", FALSE)
           /\ HelperGoes(h, IF ok THEN [DeadHelper EXCEPT !.pc = "sweep"] ELSE DeadHelper)
    BY DEF EndRecover
  <2>3. Controller!Return(h)
    BY <2>2 DEF Returns
  <2>4. CASE ok
    <3>1. work.by = h /\ work.stage \in {"connected", "clean"}
      BY <2>2, <2>3, <2>4, GivesBack DEF Returns
    <3>2. record[helper[h].sess] = "none"
      BY <2>1, <3>1 DEF LifecycleInv, WorkInv, At
    <3> DEFINE hs == [DeadHelper EXCEPT !.pc = "sweep"]
    <3>3. hs \in HelperStates /\ hs.pc = "sweep" /\ HelperGoes(h, hs)
      <4>1. 0 \in 0..MaxHealthFailures
        BY HealthAssumption
      <4>2. QED
        BY <2>2, <2>4, <4>1 DEF DeadHelper, HelperStates, HelperPoints
    <3> HIDE DEF hs
    <3>4. /\ helper' \in [Helpers -> HelperStates]
          /\ \A g \in Helpers : g # h => helper'[g] = helper[g]
          /\ helper'[h].pc = "sweep"
      BY <3>3, HelperSet DEF LifecycleInv
    <3>5. QED
      BY <2>1, <2>2, <2>3, <2>4, <3>2, <3>4, GivesBack
  <2>5. CASE ~ok
    <3>1. cli' = Answered(h, "pipe", FALSE) /\ HelperGoes(h, DeadHelper)
      BY <2>2, <2>5
    <3>2. QED
      BY <2>1, <2>3, <3>1, Exits, AnsweredFacts, GivesBack
  <2>6. QED
    BY <2>4, <2>5
<1>2. TypeOK'
  BY <1>1 DEF TypeOK, LifecycleInv
<1>3. CommandInv' /\ OwnersInv'
  BY <1>1, IdAssumption DEF LifecycleInv, TypeOK, CommandInv, OwnersInv, CLIAt, Owning,
     Opening, Serving, Recovering, CLIStates
<1>4. ConnectIsAwaited' /\ PipeInv'
  BY <1>1 DEF LifecycleInv, TypeOK, CommandInv, OwnersInv, ConnectIsAwaited, PipeInv, CLIAt,
     Open, At, GoneOrAbandoned, Owning, Opening, Serving, Recovering, CLIStates
<1>5. SocketInv' /\ WorkInv' /\ ForgetInv'
  BY <1>1, IdAssumption DEF LifecycleInv, TypeOK, CommandInv, OwnersInv, PipeInv, SocketInv,
     WorkInv, ForgetInv, CLIAt, Asked, Open, At, InController, Owning, Opening, Serving,
     Recovering, GoneOrAbandoned, CLIStates
<1>6. SessionsAreNamed'
  BY <1>1, IdAssumption DEF LifecycleInv, TypeOK, SessionsAreNamed, journal
<1>7. QED
  BY <1>2, <1>3, <1>4, <1>5, <1>6 DEF LifecycleInv

\* After a success the socket path is empty and nothing is left of the session.
LEMMA SweepKeeps ==
    ASSUME LifecycleInv, NEW h \in Helpers, Sweep(h)
    PROVE  LifecycleInv'
<1>1. /\ helper' \in [Helpers -> HelperStates] /\ helper \in [Helpers -> HelperStates]
      /\ \A g \in Helpers : g # h => helper'[g] = helper[g]
      /\ helper[h].pc = "sweep"
      /\ helper'[h].pc = "dead" /\ socket' \in {socket, NoHelper}
      /\ cli' \in CLIStates
      /\ ~(cli.pc = "await" /\ cli.peer = h /\ cli.via = "pipe") => cli' = cli
      /\ cli.pc = "await" /\ cli.peer = h /\ cli.via = "pipe" => 
            /\ cli.op # "connect" /\ ~cli'.answered
            /\ cli'.pc = "idle" \/ (cli'.pc = "forget" /\ socket' = NoHelper)
      /\ UNCHANGED <<meta, record, work, used, abandoned>>
  <2>1. /\ helper[h].pc = "sweep" /\ helper \in [Helpers -> HelperStates] /\ cli \in CLIStates
        /\ UNCHANGED <<meta, record, work, used, abandoned>>
    BY DEF Sweep, At, histories, LifecycleInv, TypeOK
  <2>2. cli.pc = "await" /\ cli.peer = h /\ cli.via = "pipe" => cli.op # "connect"
    BY <2>1 DEF LifecycleInv, PipeInv, Open, At, CLIAt
  <2>3. CASE socket' = NoHelper /\ cli' = Answered(h, "pipe", TRUE)
    BY <2>1, <2>2, <2>3, Exits, AnsweredFacts DEF Sweep
  <2>4. CASE socket' = socket /\ cli' = Answered(h, "pipe", FALSE)
    BY <2>1, <2>2, <2>4, Exits, AnsweredFacts DEF Sweep
  <2>5. QED
    BY <2>3, <2>4 DEF Sweep
<1>2. TypeOK'
  BY <1>1 DEF TypeOK, LifecycleInv
<1>3. CommandInv' /\ OwnersInv'
  BY <1>1, IdAssumption DEF LifecycleInv, TypeOK, CommandInv, OwnersInv, CLIAt, Owning,
     Opening, Serving, Recovering, CLIStates
<1>4. ConnectIsAwaited' /\ PipeInv'
  BY <1>1 DEF LifecycleInv, TypeOK, CommandInv, OwnersInv, ConnectIsAwaited, PipeInv, CLIAt,
     Open, At, GoneOrAbandoned, Owning, Opening, Serving, Recovering, CLIStates
<1>5. SocketInv' /\ WorkInv' /\ ForgetInv'
  BY <1>1, IdAssumption DEF LifecycleInv, TypeOK, CommandInv, OwnersInv, PipeInv, SocketInv,
     WorkInv, ForgetInv, CLIAt, Asked, Open, At, InController, Owning, Opening, Serving,
     Recovering, GoneOrAbandoned, CLIStates
<1>6. SessionsAreNamed'
  BY <1>1, IdAssumption DEF LifecycleInv, TypeOK, SessionsAreNamed, journal
<1>7. QED
  BY <1>2, <1>3, <1>4, <1>5, <1>6 DEF LifecycleInv

\* A helper that is killed gives its lock back.
LEMMA HelperDiesKeeps ==
    ASSUME LifecycleInv, NEW h \in Helpers, HelperDies(h)
    PROVE  LifecycleInv'
<1>1. /\ helper' \in [Helpers -> HelperStates] /\ helper \in [Helpers -> HelperStates]
      /\ \A g \in Helpers : g # h => helper'[g] = helper[g]
      /\ helper'[h].pc = "dead"
      /\ work' \in [by : Helpers \cup {NoHelper}, sess : Sessions \cup {NoSession}, stage : Controller!Stages]
      /\ \/ work.by = h /\ work'.by = NoHelper
         \/ work.by # h /\ work' = work
      /\ UNCHANGED <<cli, meta, record, socket, used, abandoned>>
  <2>1. HelperGoes(h, DeadHelper) /\ UNCHANGED <<cli, meta, socket, used, abandoned>>
    BY DEF HelperDies, histories
  <2>2. CASE work.by = h
    <3>1. Controller!Drop(h)
      BY <2>2 DEF HelperDies
    <3>2. QED
      BY <2>1, <2>2, <3>1, Exits, GivesBack DEF LifecycleInv, TypeOK
  <2>3. CASE work.by # h
    BY <2>1, <2>3, Exits DEF HelperDies, LifecycleInv, TypeOK
  <2>4. QED
    BY <2>2, <2>3
<1>2. TypeOK'
  BY <1>1 DEF TypeOK, LifecycleInv
<1>3. CommandInv' /\ OwnersInv'
  BY <1>1, IdAssumption DEF LifecycleInv, TypeOK, CommandInv, OwnersInv, CLIAt, Owning,
     Opening, Serving, Recovering, CLIStates
<1>4. ConnectIsAwaited' /\ PipeInv'
  BY <1>1 DEF LifecycleInv, TypeOK, CommandInv, OwnersInv, ConnectIsAwaited, PipeInv, CLIAt,
     Open, At, GoneOrAbandoned, Owning, Opening, Serving, Recovering, CLIStates
<1>5. SocketInv' /\ WorkInv' /\ ForgetInv'
  BY <1>1, IdAssumption DEF LifecycleInv, TypeOK, CommandInv, OwnersInv, PipeInv, SocketInv,
     WorkInv, ForgetInv, CLIAt, Asked, Open, At, InController, Owning, Opening, Serving,
     Recovering, GoneOrAbandoned, CLIStates
<1>6. SessionsAreNamed'
  BY <1>1, IdAssumption DEF LifecycleInv, TypeOK, SessionsAreNamed, journal
<1>7. QED
  BY <1>2, <1>3, <1>4, <1>5, <1>6 DEF LifecycleInv

\* A restart leaves the metadata, the journals and the histories.
LEMMA RebootKeeps ==
    ASSUME LifecycleInv, Reboot
    PROVE  LifecycleInv'
<1>1. /\ helper' \in [Helpers -> HelperStates] /\ \A h \in Helpers : helper'[h].pc = "dead"
      /\ cli' \in CLIStates /\ cli'.pc = "idle" /\ ~cli'.answered
      /\ work'.by = NoHelper
      /\ work' \in [by : Helpers \cup {NoHelper}, sess : Sessions \cup {NoSession}, stage : Controller!Stages]
      /\ socket' = NoHelper
      /\ UNCHANGED <<meta, record, used, abandoned>>
  <2>1. 0 \in 0..MaxHealthFailures
    BY HealthAssumption
  <2>2. DeadHelper \in HelperStates /\ DeadHelper.pc = "dead"
    BY <2>1 DEF DeadHelper, HelperStates, HelperPoints
  <2>3. /\ work'.by = NoHelper
        /\ work' \in [by : Helpers \cup {NoHelper}, sess : Sessions \cup {NoSession}, stage : Controller!Stages]
    BY DEF Reboot, Controller!Unlocked, Controller!Stages, Controller!Finished
  <2>4. QED
    BY <2>2, <2>3, NoCommandFacts DEF Reboot, histories
<1>2. TypeOK'
  BY <1>1 DEF TypeOK, LifecycleInv
<1>3. CommandInv' /\ OwnersInv'
  BY <1>1, IdAssumption DEF LifecycleInv, TypeOK, CommandInv, OwnersInv, CLIAt, Owning,
     Opening, Serving, Recovering, CLIStates
<1>4. ConnectIsAwaited' /\ PipeInv'
  BY <1>1 DEF LifecycleInv, TypeOK, CommandInv, OwnersInv, ConnectIsAwaited, PipeInv, CLIAt,
     Open, At, GoneOrAbandoned, Owning, Opening, Serving, Recovering, CLIStates
<1>5. SocketInv' /\ WorkInv' /\ ForgetInv'
  BY <1>1, IdAssumption DEF LifecycleInv, TypeOK, CommandInv, OwnersInv, PipeInv, SocketInv,
     WorkInv, ForgetInv, CLIAt, Asked, Open, At, InController, Owning, Opening, Serving,
     Recovering, GoneOrAbandoned, CLIStates
<1>6. SessionsAreNamed'
  BY <1>1, IdAssumption DEF LifecycleInv, TypeOK, SessionsAreNamed, journal
<1>7. QED
  BY <1>2, <1>3, <1>4, <1>5, <1>6 DEF LifecycleInv

\* A step inside the lock touches one session, creates its journal only for a
\* Connect, and ends clean only when the journal is gone.
LEMMA OperateFacts ==
    ASSUME LifecycleInv, NEW h \in Helpers, Controller!Operate(h)
    PROVE  /\ work.by = h /\ work'.by = h /\ work'.sess = work.sess
           /\ work' \in [by : Helpers \cup {NoHelper}, sess : Sessions \cup {NoSession},
                         stage : Controller!Stages]
           /\ record' \in [Sessions -> Controller!Records]
           /\ \A s \in Sessions : s # work.sess => record'[s] = record[s]
           /\ work'.stage \in {"connect", "connected"} => work.stage = "connect"
           /\ record[work.sess] = "none" /\ record'[work.sess] # "none" => work.stage = "connect"
           /\ work'.stage = "clean" => record'[work.sess] = "none"
<1>1. /\ work.by = h /\ h \in Helpers \cup {NoHelper}
      /\ work.sess \in Sessions /\ work.sess \in Sessions \cup {NoSession}
      /\ work \in [by : Helpers \cup {NoHelper}, sess : Sessions \cup {NoSession}, stage : Controller!Stages]
      /\ record \in [Sessions -> Controller!Records]
  <2>1. work.by = h
    BY DEF Controller!Operate, Controller!Advance, Controller!TurnBack, Controller!Close,
       Controller!Finish,
           Controller!Works
  <2>2. helper[h].pc \in InController /\ work.sess = helper[h].sess
    BY <2>1 DEF LifecycleInv, WorkInv
  <2>3. helper[h].sess \in Sessions
    BY <2>2 DEF LifecycleInv, TypeOK, OwnersInv, InController, Owning, Opening, Serving, Recovering
  <2>4. QED
    BY <2>1, <2>2, <2>3 DEF LifecycleInv, TypeOK
<1>2. CASE Controller!Advance(h)
  <2>1. PICK r \in Controller!Later(record[work.sess]) :
           /\ r = "open" => work.stage = "connect"
           /\ record' = [record EXCEPT ![work.sess] = r]
    BY <1>2 DEF Controller!Advance
  <2>2. /\ work.stage \in {"connect", "rollback"}
        /\ work' \in {[work EXCEPT !.stage = stage] : stage \in {work.stage, "rollback", "failed"}}
    BY <1>2 DEF Controller!Advance, Controller!Works
  <2>3. /\ r \in Controller!Records /\ r # "none"
        /\ record[work.sess] = "none" => r = "open"
    <3>1. record[work.sess] \in Controller!Records
      BY <1>1
    <3>2. QED
      BY <2>1, <3>1 DEF Controller!Later, Controller!Records
  <2>4. PICK stage \in {work.stage, "rollback", "failed"} : work' = [work EXCEPT !.stage = stage]
    BY <2>2
  <2>5. stage \in Controller!Stages
    BY <2>2, <2>4 DEF Controller!Stages, Controller!Finished
  <2>6. /\ work'.by = work.by /\ work'.sess = work.sess /\ work'.stage = stage
        /\ work' \in [by : Helpers \cup {NoHelper}, sess : Sessions \cup {NoSession}, stage : Controller!Stages]
    BY <1>1, <2>4, <2>5
  <2>7. QED
    BY <1>1, <2>1, <2>2, <2>3, <2>4, <2>6
<1>3. CASE Controller!TurnBack(h)
  BY <1>1, <1>3 DEF Controller!TurnBack, Controller!Works, Controller!Stages
<1>4. CASE Controller!Close(h)
  <2>1. PICK stage \in {"clean", "failed"} : work' = [work EXCEPT !.stage = stage]
    BY <1>4 DEF Controller!Close
  <2>2. /\ work'.by = work.by /\ work'.sess = work.sess /\ work'.stage = stage
        /\ work' \in [by : Helpers \cup {NoHelper}, sess : Sessions \cup {NoSession}, stage : Controller!Stages]
    BY <1>1, <2>1 DEF Controller!Stages, Controller!Finished
  <2>3. record' = [record EXCEPT ![work.sess] = "none"]
    BY <1>4 DEF Controller!Close
  <2>4. QED
    BY <1>1, <2>1, <2>2, <2>3 DEF Controller!Records
<1>5. CASE Controller!Finish(h)
  <2>1. PICK stage \in Controller!Finished :
           /\ stage = "connected" => work.stage = "connect" /\ record[work.sess] = "live"
           /\ stage = "clean" => work.stage = "rollback" /\ record[work.sess] = "none"
           /\ work' = [work EXCEPT !.stage = stage]
    BY <1>5 DEF Controller!Finish
  <2>2. /\ work'.by = work.by /\ work'.sess = work.sess /\ work'.stage = stage
        /\ work' \in [by : Helpers \cup {NoHelper}, sess : Sessions \cup {NoSession}, stage : Controller!Stages]
    BY <1>1, <2>1 DEF Controller!Stages
  <2>3. record' = record
    BY <1>5 DEF Controller!Finish
  <2>4. QED
    BY <1>1, <2>1, <2>2, <2>3 DEF Controller!Finished
<1>6. QED
  BY <1>2, <1>3, <1>4, <1>5 DEF Controller!Operate

\* A journal appears only for a session that is named.
LEMMA OperateKeeps ==
    ASSUME LifecycleInv, NEW h \in Helpers, Operate(h)
    PROVE  LifecycleInv'
<1>1. /\ helper' \in [Helpers -> HelperStates]
      /\ \A g \in Helpers : helper'[g].pc = helper[g].pc /\ helper'[g].sess = helper[g].sess
      /\ UNCHANGED <<meta, cli, socket, used, abandoned>> /\ helper[h].sess \in Sessions
      /\ work.by = h /\ work'.by = h /\ work'.sess = work.sess /\ work.sess = helper[h].sess
      /\ work' \in [by : Helpers \cup {NoHelper}, sess : Sessions \cup {NoSession}, stage : Controller!Stages]
      /\ record' \in [Sessions -> Controller!Records]
      /\ \A s \in Sessions : s # work.sess => record'[s] = record[s]
      /\ work'.stage \in {"connect", "connected"} => work.stage = "connect"
      /\ work'.stage = "clean" => record'[work.sess] = "none"
      /\ \/ record[work.sess] # "none" \/ record'[work.sess] = "none"
         \/ work.sess \in abandoned
         \/ cli.pc = "await" /\ cli.op = "connect" /\ cli.sess = work.sess
  <2>1. /\ Controller!Operate(h)
        /\ helper' = [helper EXCEPT ![h].device = @ /\ record'[work.sess] # "undone"]
        /\ UNCHANGED <<meta, cli, socket, used, abandoned>>
    BY DEF Operate, histories
  <2>2. work.sess = helper[h].sess /\ helper[h].pc \in InController /\ (work.stage = "connect" => At(h, "connecting"))
    BY <2>1, OperateFacts DEF LifecycleInv, WorkInv
  <2>3. work.stage = "connect" =>
           work.sess \in abandoned \/ (cli.pc = "await" /\ cli.op = "connect" /\ cli.sess = work.sess)
    BY <2>2 DEF LifecycleInv, ConnectIsAwaited, At, CLIAt
  <2>4. helper[h].sess \in Sessions
    BY <2>2 DEF LifecycleInv, TypeOK, OwnersInv, InController, Owning, Opening, Serving, Recovering
  <2> DEFINE b == helper[h].device /\ record'[work.sess] # "undone"
  <2>5. b \in BOOLEAN /\ helper' = [helper EXCEPT ![h].device = b]
    BY <2>1 DEF LifecycleInv, TypeOK, HelperStates
  <2> HIDE DEF b
  <2>6. /\ helper' \in [Helpers -> HelperStates]
        /\ \A g \in Helpers : helper'[g].pc = helper[g].pc /\ helper'[g].sess = helper[g].sess
    BY <2>5 DEF LifecycleInv, TypeOK, HelperStates
  <2>7. QED
    BY <2>1, <2>2, <2>3, <2>4, <2>6, OperateFacts
<1>2. TypeOK'
  BY <1>1 DEF TypeOK, LifecycleInv
<1>3. CommandInv' /\ OwnersInv'
  BY <1>1, IdAssumption, SMTT(60) DEF LifecycleInv, TypeOK, CommandInv, OwnersInv, CLIAt, Owning,
     Opening, Serving, Recovering, CLIStates
<1>4. ConnectIsAwaited' /\ PipeInv'
  BY <1>1 DEF LifecycleInv, TypeOK, CommandInv, OwnersInv, ConnectIsAwaited, PipeInv, CLIAt,
     Open, At, GoneOrAbandoned, Owning, Opening, Serving, Recovering, CLIStates
<1>5. SocketInv' /\ WorkInv' /\ ForgetInv'
  BY <1>1, IdAssumption DEF LifecycleInv, TypeOK, CommandInv, OwnersInv, PipeInv, SocketInv,
     WorkInv, ForgetInv, CLIAt, Asked, Open, At, InController, Owning, Opening, Serving,
     Recovering, GoneOrAbandoned, CLIStates
<1>6. SessionsAreNamed'
  BY <1>1 DEF LifecycleInv, TypeOK, CommandInv, SessionsAreNamed, journal
<1>7. QED
  BY <1>2, <1>3, <1>4, <1>5, <1>6 DEF LifecycleInv

-----------------------------------------------------------------------------
(* The theorems.                                                           *)

\* No command, no helper and no metadata at first.
THEOREM LifecycleInitial == Init => LifecycleInv
<1> SUFFICES ASSUME Init PROVE LifecycleInv
  OBVIOUS
<1>1. 0 \in 0..MaxHealthFailures
  BY HealthAssumption
<1>2. DeadHelper \in HelperStates /\ DeadHelper.pc = "dead"
  BY <1>1 DEF DeadHelper, HelperStates, HelperPoints
<1>3. /\ meta = NoMeta /\ socket = NoHelper /\ used = {} /\ abandoned = {}
      /\ cli \in CLIStates /\ cli.pc = "idle" /\ ~cli.answered
      /\ helper \in [Helpers -> HelperStates] /\ \A h \in Helpers : helper[h].pc = "dead"
      /\ record \in [Sessions -> Controller!Records] /\ \A s \in Sessions : record[s] = "none"
      /\ work.by = NoHelper
      /\ work \in [by : Helpers \cup {NoHelper}, sess : Sessions \cup {NoSession}, stage : Controller!Stages]
  BY <1>2, NoCommandFacts DEF Init, Controller!ContractInit, Controller!Unlocked, Controller!Stages,
     Controller!Finished, Controller!Records
<1>4. TypeOK
  BY <1>3 DEF TypeOK, NoMeta
<1>5. CommandInv /\ OwnersInv /\ ConnectIsAwaited /\ PipeInv
  BY <1>3 DEF CommandInv, OwnersInv, ConnectIsAwaited, PipeInv, CLIAt, Open, Owning, Opening,
     Serving, Recovering
<1>6. SocketInv /\ WorkInv /\ ForgetInv /\ SessionsAreNamed
  BY <1>3, IdAssumption DEF SocketInv, WorkInv, ForgetInv, SessionsAreNamed, journal, CLIAt,
     At, Asked, InController
<1>7. QED
  BY <1>4, <1>5, <1>6 DEF LifecycleInv

\* Every step of a command, a helper or the machine keeps LifecycleInv.
THEOREM LifecycleStep == LifecycleInv /\ [Next]_vars => LifecycleInv'
<1> SUFFICES ASSUME LifecycleInv, [Next]_vars PROVE LifecycleInv'
  OBVIOUS
<1>1. CASE \E s \in Sessions : StartConnect(s)
  BY <1>1, StartConnectKeeps
<1>2. CASE StartDisconnect \/ StartStatus
  BY <1>2, StartDisconnectKeeps, StartStatusKeeps
<1>3. CASE CLIStep
  BY <1>3, DialKeeps, BootstrapKeeps, SocketFailsKeeps, PipeEndsKeeps, WaitEndsKeeps,
     ConnectAnsweredKeeps,
     DisconnectAnsweredKeeps DEF CLIStep
<1>4. CASE Cancel \/ CLIDies \/ Reboot
  BY <1>4, CancelKeeps, CLIDiesKeeps, RebootKeeps
<1>5. ASSUME NEW h \in Helpers, HelperStep(h)
      PROVE  LifecycleInv'
  <2>1. CASE Operate(h) \/ RemoveUnrecorded(h) \/ HealthCheck(h)
    BY <2>1, OperateKeeps, RemoveUnrecordedKeeps, HealthCheckKeeps
  <2>2. CASE BeginConnect(h) \/ RefuseConnect(h) \/ EndConnect(h) \/ Listen(h) \/ Ack(h)
    BY <2>2, BeginConnectKeeps, RefuseConnectKeeps, EndConnectKeeps, ListenKeeps, AckKeeps
  <2>3. CASE HandleStatus(h) \/ BeginHandle(h) \/ BeginLate(h) \/ EndHandle(h)
    BY <2>3, HandleStatusKeeps, BeginHandleKeeps, BeginLateKeeps, EndHandleKeeps
  <2>4. CASE CloseListener(h) \/ RemoveSocket(h) \/ BeginFinal(h) \/ EndFinal(h)
    BY <2>4, CloseListenerKeeps, RemoveSocketKeeps, BeginFinalKeeps, EndFinalKeeps
  <2>5. CASE BeginRecover(h) \/ EndRecover(h) \/ Sweep(h)
    BY <2>5, BeginRecoverKeeps, EndRecoverKeeps, SweepKeeps
  <2>6. QED
    BY <1>5, <2>1, <2>2, <2>3, <2>4, <2>5 DEF HelperStep
<1>6. ASSUME NEW h \in Helpers, Stop(h) \/ HelperDies(h)
      PROVE  LifecycleInv'
  BY <1>6, StopKeeps, HelperDiesKeeps
<1>7. CASE UNCHANGED vars
  BY <1>7 DEF vars, files, LifecycleInv, TypeOK, CommandInv, OwnersInv, ConnectIsAwaited,
     PipeInv, SocketInv, WorkInv,
     ForgetInv, SessionsAreNamed, journal, GoneOrAbandoned, CLIAt, At, Open, Asked
<1>8. QED
  BY <1>1, <1>2, <1>3, <1>4, <1>5, <1>6, <1>7 DEF Next

\* Whatever the order of commands, helpers, kills and restarts: a journal on the
\* machine belongs to the session that connection-v1.json names, or to one whose
\* command left before its helper answered.
THEOREM SessionsStayNamed == Spec => []SessionsAreNamed
<1>1. LifecycleInv => SessionsAreNamed
  BY DEF LifecycleInv
<1>2. QED
  BY <1>1, LifecycleInitial, LifecycleStep, PTL DEF Spec

\* A helper that serves is asked only about its own session, so that handle's
\* refusal is never the answer to this client, although every session of the
\* user has the same socket path.
THEOREM RequestsArrive == Spec => []RequestsReachTheirSession
<1>1. LifecycleInv => RequestsReachTheirSession
  BY DEF LifecycleInv, SocketInv, RequestsReachTheirSession, At, Serving
<1>2. QED
  BY <1>1, LifecycleInitial, LifecycleStep, PTL DEF Spec

\* No two sessions own something or are about to, apart from those whose command
\* left before its helper answered: both would be the session that the metadata
\* name.
THEOREM SessionsTakeTurns == Spec => []OneSessionAtATime
<1>1. LifecycleInv => OneSessionAtATime
  <2> SUFFICES ASSUME LifecycleInv, NEW s \in Sessions \ abandoned, Active(s)
               PROVE  meta.sess = s
    BY DEF OneSessionAtATime
  <2>1. CASE s \in journal
    BY <2>1 DEF LifecycleInv, SessionsAreNamed
  <2>2. CASE s \notin journal
    <3>1. PICK h \in Helpers : helper[h].pc \in {"start", "connecting"} /\ helper[h].sess = s
      BY <2>2 DEF Active
    <3>2. CLIAt("await") /\ cli.sess = s
      BY <3>1 DEF LifecycleInv, ConnectIsAwaited
    <3> QED
      BY <3>2 DEF LifecycleInv, CommandInv, CLIAt
  <2> QED
    BY <2>1, <2>2
<1>2. QED
  BY <1>1, LifecycleInitial, LifecycleStep, PTL DEF Spec

=============================================================================
