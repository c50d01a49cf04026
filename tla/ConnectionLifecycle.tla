------------------------ MODULE ConnectionLifecycle ------------------------
(***************************************************************************)
(* One user's connection, from the command line to the privileged helpers: *)
(* connection.Service and its metadata file, helperclient, and the helper  *)
(* daemon's life (connectAndServe, serve, handle, recoverSession) with its *)
(* socket.  What tunnel.Controller does is known by its contract only,     *)
(* SessionContract, which TunnelTransaction implements.                    *)
(*                                                                         *)
(* One lock file admits one command at a time and refuses the others, so   *)
(* there is a single command process here.  Helpers outlive it.            *)
(***************************************************************************)
EXTENDS Naturals

CONSTANTS
    Sessions, Helpers, NoSession, NoHelper,
    MaxHealthFailures  \* serve gives up after this many failed checks in a row; 3 in the code

ASSUME IdAssumption == NoSession \notin Sessions /\ NoHelper \notin Helpers
ASSUME HealthAssumption == MaxHealthFailures \in Nat \ {0}

VARIABLES
    meta,      \* connection-v1.json: which session, how far
    cli,       \* the command that holds credentials.lock
    helper,    \* helper[h]: one privileged process
    record,    \* record[s]: what the journal of s says (SessionContract)
    work,      \* the operation inside the transaction lock (SessionContract)
    socket,    \* the helper that created the file at the user's socket path
    used,      \* history: sessions for which a Connect was started
    abandoned  \* history: sessions whose command left before its helper answered

files == <<meta, record, socket>>
vars == <<files, cli, helper, work, used, abandoned>>
histories == <<used, abandoned>>

Controller == INSTANCE SessionContract

\* The sessions that have a journal, i.e. may own something.
journal == {s \in Sessions : record[s] # "none"}

NoMeta == [sess |-> NoSession, phase |-> "absent"]

CLIPoints == {"idle", "dial", "bootstrap", "await", "wait", "forget"}

CLIStates ==
    [pc : CLIPoints, op : {"connect", "disconnect", "cleanup", "status"}, sess : Sessions \cup {NoSession},
     peer : Helpers \cup {NoHelper}, via : {"socket", "pipe"}, answered : BOOLEAN]

NoCommand == [pc |-> "idle", op |-> "connect", sess |-> NoSession, peer |-> NoHelper,
              via |-> "pipe", answered |-> FALSE]

HelperPoints ==
    {"dead", "start", "connecting", "listen", "ack", "serving", "handling", "late",
     "closing", "removing", "final", "finishing", "recover", "recovering", "sweep"}

HelperStates ==
    [pc : HelperPoints, sess : Sessions \cup {NoSession}, device : BOOLEAN,
     health : 0..MaxHealthFailures, orphan : BOOLEAN]

DeadHelper == [pc |-> "dead", sess |-> NoSession, device |-> FALSE, health |-> 0,
               orphan |-> FALSE]

\* The files, processes and histories have their types.
TypeOK ==
    /\ meta \in [sess : Sessions \cup {NoSession}, phase : {"absent", "connecting", "connected"}]
    /\ cli \in CLIStates
    /\ helper \in [Helpers -> HelperStates]
    /\ record \in [Sessions -> Controller!Records]
    /\ work \in [by : Helpers \cup {NoHelper}, sess : Sessions \cup {NoSession},
                  stage : Controller!Stages]
    /\ socket \in Helpers \cup {NoHelper}
    /\ used \subseteq Sessions
    /\ abandoned \subseteq Sessions

Init ==
    /\ meta = NoMeta
    /\ cli = NoCommand
    /\ helper = [h \in Helpers |-> DeadHelper]
    /\ Controller!ContractInit
    /\ socket = NoHelper
    /\ used = {}
    /\ abandoned = {}

CLIAt(point) == cli.pc = point
At(h, point) == helper[h].pc = point
Alive(h) == ~At(h, "dead")
Listening(h) == helper[h].pc \in {"ack", "serving", "handling", "late"}

HelperGoes(h, hs) == helper' = [helper EXCEPT ![h] = hs]
HelperAt(h, point) == HelperGoes(h, [helper[h] EXCEPT !.pc = point])

\* serve returns, and nobody will look at its counter or its backlog again.
LeavesServe(h) ==
    HelperGoes(h, [helper[h] EXCEPT !.pc = "closing", !.health = 0, !.orphan = FALSE])

\* The command has helper h at the other end of a pipe or a connection.
Open(h, via) == cli.pc \in {"await", "wait"} /\ cli.peer = h /\ cli.via = via

\* The command leaves a connection: a request that is being handled has
\* nobody to answer to any more, one that waits in the backlog stays there
\* (a Status too, but answering that changes nothing).
HangUp ==
    LET h == cli.peer IN
    IF ~(CLIAt("await") /\ cli.via = "socket") THEN helper
    ELSE CASE At(h, "handling") -> [helper EXCEPT ![h].pc = "late"]
           [] Listening(h) /\ ~At(h, "handling") ->
                [helper EXCEPT ![h].orphan = @ \/ (cli.sess = helper[h].sess /\ cli.op # "status")]
           [] OTHER -> helper

\* What the command does with an answer.  A failure ends it and keeps the
\* metadata, and so does any answer to a Status or to the clean-up after a
\* failed save.  After a Disconnect there is the metadata to forget, and after
\* a Connect the command still holds the helper's pipe.
Takes(ok) ==
    CASE ok /\ cli.op = "connect" -> [cli EXCEPT !.answered = TRUE]
      [] ok /\ cli.op = "disconnect" -> [NoCommand EXCEPT !.pc = "forget"]
      [] OTHER -> NoCommand

\* Helper h answers there, if the command still listens.
Answered(h, via, ok) == IF Open(h, via) /\ CLIAt("await") THEN Takes(ok) ELSE cli

\* Helper h has a request to handle.
Asked(h) == CLIAt("await") /\ Open(h, "socket")

\* MetadataStore.Save: the temporary file is complete when it is renamed.
Save(session, phase) == meta' = [sess |-> session, phase |-> phase]

\* MetadataStore.Delete, which may fail.
Delete == meta' \in {meta, NoMeta}

-----------------------------------------------------------------------------
(* The command line.                                                       *)

\* Mutant of StartConnect: metadata of an earlier session is overwritten.
StartConnectOverwriting(s) ==
    /\ CLIAt("idle")
    /\ s \notin used
    /\ Save(s, "connecting")
    /\ used' = used \cup {s}
    /\ cli' = [NoCommand EXCEPT !.pc = "bootstrap", !.op = "connect", !.sess = s]
    /\ UNCHANGED <<helper, record, work, socket, abandoned>>

\* connectLocked up to its first write: no metadata may exist.  Everything
\* that fails before the metadata is saved returns without a change.
StartConnect(s) ==
    /\ CLIAt("idle")
    /\ meta = NoMeta
    /\ s \notin used
    /\ Save(s, "connecting")
    /\ used' = used \cup {s}
    /\ cli' = [NoCommand EXCEPT !.pc = "bootstrap", !.op = "connect", !.sess = s]
    /\ UNCHANGED <<helper, record, work, socket, abandoned>>

\* disconnectLocked, also as the first half of Reconnect, whose second half
\* is a connectLocked.
StartDisconnect ==
    /\ CLIAt("idle")
    /\ meta # NoMeta
    /\ cli' = [NoCommand EXCEPT !.pc = "dial", !.op = "disconnect", !.sess = meta.sess]
    /\ UNCHANGED <<helper, files, work, histories>>

\* statusLocked: the answer names a state and changes nothing.
StartStatus ==
    /\ CLIAt("idle")
    /\ meta # NoMeta
    /\ cli' = [NoCommand EXCEPT !.pc = "dial", !.op = "status", !.sess = meta.sess]
    /\ UNCHANGED <<helper, files, work, histories>>

\* Exchange, when the socket does not answer: a Status calls the session
\* degraded, every other request goes on to Client.bootstrap.
WithoutSocket ==
    IF cli.op = "status" THEN NoCommand
    ELSE [cli EXCEPT !.pc = "bootstrap", !.peer = NoHelper]

\* Client.socket: connect to whoever listens at the socket path, or find that
\* nobody does.
Dial ==
    /\ CLIAt("dial")
    /\ IF socket # NoHelper /\ Listening(socket)
       THEN cli' = [cli EXCEPT !.pc = "await", !.peer = socket, !.via = "socket"]
       ELSE cli' = WithoutSocket
    /\ UNCHANGED <<helper, files, work, histories>>

\* Client.bootstrap: sudo starts a helper that reads the one request, or fails.
Bootstrap ==
    /\ CLIAt("bootstrap")
    /\ \/ \E h \in Helpers :
             /\ At(h, "dead")
             /\ HelperGoes(h, [DeadHelper EXCEPT
                   !.pc = IF cli.op = "connect" THEN "start" ELSE "recover", !.sess = cli.sess])
             /\ cli' = [cli EXCEPT !.pc = "await", !.peer = h, !.via = "pipe"]
       \/ /\ cli' = NoCommand
          /\ UNCHANGED helper
    /\ UNCHANGED <<files, work, histories>>

\* The socket's deadline passes, or the peer hung up.
SocketFails ==
    /\ CLIAt("await")
    /\ cli.via = "socket"
    /\ cli' = WithoutSocket
    /\ helper' = HangUp
    /\ UNCHANGED <<files, work, histories>>

\* The helper's pipe ended without an answer.
PipeEnds ==
    /\ CLIAt("await")
    /\ cli.via = "pipe"
    /\ ~cli.answered
    /\ At(cli.peer, "dead")
    /\ cli' = NoCommand
    /\ UNCHANGED <<helper, files, work, histories>>

\* Sessions whose helper this command leaves to itself.
LeftBehind ==
    IF CLIAt("await") /\ cli.op = "connect" /\ ~cli.answered THEN {cli.sess} ELSE {}

\* The context ends.  Kill reaches only sudo, if that: either the command
\* returns and the helper runs on, or Wait blocks until the helper is gone.
\* An answer that arrives at the same time may be lost.  The clean-up after
\* a failed save has a context that never ends.
Cancel ==
    /\ CLIAt("await")
    /\ cli.op # "cleanup"
    /\ cli.via = "pipe"
    /\ cli' \in {NoCommand, [NoCommand EXCEPT !.pc = "wait", !.peer = cli.peer]}
    /\ abandoned' = abandoned \cup LeftBehind
    /\ UNCHANGED <<helper, files, work, used>>

WaitEnds ==
    /\ CLIAt("wait")
    /\ At(cli.peer, "dead")
    /\ cli' = NoCommand
    /\ UNCHANGED <<helper, files, work, histories>>

\* Connected: record it.  If the record fails, undo with a Disconnect of its own.
ConnectAnswered ==
    /\ CLIAt("await") /\ cli.op = "connect" /\ cli.answered
    /\ \/ /\ Save(meta.sess, "connected")
          /\ cli' = NoCommand
       \/ /\ cli' = [NoCommand EXCEPT !.pc = "dial", !.op = "cleanup", !.sess = cli.sess]
          /\ UNCHANGED meta
    /\ UNCHANGED <<helper, record, work, socket, histories>>

\* Disconnected: forget the session, if the file can be removed.
DisconnectAnswered ==
    /\ CLIAt("forget")
    /\ Delete
    /\ cli' = NoCommand
    /\ UNCHANGED <<helper, record, work, socket, histories>>

CLIDies ==
    /\ ~CLIAt("idle")
    /\ cli' = NoCommand
    /\ helper' = HangUp
    /\ abandoned' = abandoned \cup LeftBehind
    /\ UNCHANGED <<files, work, used>>

-----------------------------------------------------------------------------
(* tunnel.Controller.                                                      *)

\* The points at which a helper is inside Controller.Connect or Disconnect.
InController == {"connecting", "handling", "late", "finishing", "recovering"}

\* A step of the controller.  The utun goes when this rollback undoes it, not
\* when another one did.
Operate(h) ==
    /\ helper[h].pc \in InController
    /\ Controller!Operate(h)
    /\ helper' = [helper EXCEPT ![h].device = @ /\ record'[work.sess] # "undone"]
    /\ UNCHANGED <<meta, cli, socket, histories>>

\* The utun is removed, and the write that should record it fails.
RemoveUnrecorded(h) ==
    /\ helper[h].pc \in InController
    /\ work.by = h /\ work.stage = "rollback" /\ record[work.sess] = "live"
    /\ helper[h].device
    /\ HelperGoes(h, [helper[h] EXCEPT !.device = FALSE])
    /\ UNCHANGED <<cli, files, work, histories>>

\* The operation of h returns, as a success or not: releasing the lock may
\* fail and turn a success into an error, though the lock goes with its
\* descriptor.
Returns(h, ok) ==
    /\ Controller!Return(h)
    /\ ok => work.stage \in {"connected", "clean"}

\* Disconnect of the helper's own session begins, or finds the lock held.
Locks(h) == Controller!Begin(h, helper[h].sess, "rollback")
LockHeld == work.by # NoHelper /\ UNCHANGED work

-----------------------------------------------------------------------------
(* The helper daemon.                                                      *)

\* connectAndServe calls Controller.Connect.
BeginConnect(h) ==
    /\ At(h, "start")
    /\ Controller!Begin(h, helper[h].sess, "connect")
    /\ HelperAt(h, "connecting")
    /\ UNCHANGED <<meta, cli, socket, histories>>

\* Connect finds the lock held, or fails before it has it: answer and exit.
RefuseConnect(h) ==
    /\ At(h, "start")
    /\ cli' = Answered(h, "pipe", FALSE)
    /\ HelperGoes(h, DeadHelper)
    /\ UNCHANGED <<files, work, histories>>

\* Connect returns: the device is up, or it has rolled back as far as it could
\* and says so with an error, however clean the rollback was.
EndConnect(h) ==
    /\ At(h, "connecting")
    /\ \/ /\ Returns(h, TRUE)
          /\ work.stage = "connected"
          /\ HelperGoes(h, [helper[h] EXCEPT !.pc = "listen", !.device = TRUE])
          /\ UNCHANGED cli
       \/ /\ Returns(h, FALSE)
          /\ cli' = Answered(h, "pipe", FALSE)
          /\ HelperGoes(h, DeadHelper)
    /\ UNCHANGED <<meta, socket, histories>>

\* listenForOwner: any file at the path refuses; without a listener the
\* helper undoes the connection and exits without an answer.
Listen(h) ==
    /\ At(h, "listen")
    /\ \/ /\ socket = NoHelper
          /\ socket' = h
          /\ HelperAt(h, "ack")
       \/ /\ HelperAt(h, "final")
          /\ UNCHANGED socket
    /\ UNCHANGED <<meta, cli, record, work, histories>>

\* Mutant of Ack: a failed write of the answer is ignored.
AckIgnoringError(h) ==
    /\ At(h, "ack")
    /\ cli' = Answered(h, "pipe", TRUE)
    /\ HelperAt(h, "serving")
    /\ UNCHANGED <<files, work, histories>>

\* The answer to Connect.  When nobody reads the pipe the write fails, or
\* its signal ends the process.
Ack(h) ==
    /\ At(h, "ack")
    /\ cli' = Answered(h, "pipe", TRUE)
    /\ IF Open(h, "pipe")
       THEN HelperAt(h, "serving")
       ELSE \/ LeavesServe(h)
            \/ HelperGoes(h, DeadHelper)
    /\ UNCHANGED <<files, work, histories>>

\* verifyOwnership, for what this model knows: the session's routes and DNS
\* are still there, which needs the journal's entries and the utun.
Owns(h) == helper[h].sess \in journal /\ helper[h].device

\* handle: Status, answered connected or degraded by what verifyOwnership
\* says; either answer changes nothing.
HandleStatus(h) ==
    /\ At(h, "serving")
    /\ Asked(h)
    /\ cli.op = "status"
    /\ cli.sess = helper[h].sess
    /\ cli' = Answered(h, "socket", TRUE)
    /\ UNCHANGED <<helper, files, work, histories>>

\* handle: Disconnect, which may find the transaction lock held.  That handle
\* never has to refuse a request for another session is RequestsReachTheirSession.
BeginHandle(h) ==
    /\ At(h, "serving")
    /\ Asked(h)
    /\ cli.op # "status"
    /\ cli.sess = helper[h].sess
    /\ \/ /\ Locks(h)
          /\ HelperAt(h, "handling")
          /\ UNCHANGED cli
       \/ /\ LockHeld
          /\ cli' = Answered(h, "socket", FALSE)
          /\ UNCHANGED <<helper, record>>
    /\ UNCHANGED <<meta, socket, histories>>

\* serve accepts a Disconnect whose sender is gone.
BeginLate(h) ==
    /\ At(h, "serving")
    /\ helper[h].orphan
    /\ \/ /\ Locks(h)
          /\ HelperGoes(h, [helper[h] EXCEPT !.pc = "late", !.orphan = FALSE])
       \/ /\ LockHeld
          /\ HelperGoes(h, [helper[h] EXCEPT !.orphan = FALSE])
          /\ UNCHANGED record
    /\ UNCHANGED <<cli, meta, socket, histories>>

\* The acknowledgement follows the rollback; after a success the helper stops.
EndHandle(h) ==
    /\ At(h, "handling") \/ At(h, "late")
    /\ \E ok \in BOOLEAN :
          /\ Returns(h, ok)
          /\ IF ok THEN LeavesServe(h) ELSE HelperAt(h, "serving")
          /\ cli' = IF At(h, "handling") THEN Answered(h, "socket", ok)
                    ELSE cli
    /\ UNCHANGED <<meta, socket, histories>>

\* Mutant of HealthCheck: failures are not counted.
HealthCheckLenient(h) ==
    /\ At(h, "serving")
    /\ HelperGoes(h, [helper[h] EXCEPT !.health = 0])
    /\ UNCHANGED <<cli, files, work, histories>>

\* verifyOwnership every ten seconds.  It fails when the session's routes and
\* DNS are gone, and may fail for other reasons.
HealthCheck(h) ==
    /\ At(h, "serving")
    /\ \/ /\ Owns(h)
          /\ HelperGoes(h, [helper[h] EXCEPT !.health = 0])
       \/ LET failures == helper[h].health + 1 IN
          IF failures >= MaxHealthFailures THEN LeavesServe(h)
          ELSE HelperGoes(h, [helper[h] EXCEPT !.health = failures])
    /\ UNCHANGED <<cli, files, work, histories>>

\* A signal cancels serve's context.
Stop(h) ==
    /\ At(h, "serving")
    /\ LeavesServe(h)
    /\ UNCHANGED <<cli, files, work, histories>>

\* The deferred clean-up: Close unlinks the path of the listener,
CloseListener(h) ==
    /\ At(h, "closing")
    /\ socket' = NoHelper
    /\ HelperAt(h, "removing")
    /\ UNCHANGED <<meta, cli, record, work, histories>>

\* os.Remove unlinks whatever is at the path by now,
RemoveSocket(h) ==
    /\ At(h, "removing")
    /\ socket' = NoHelper
    /\ HelperAt(h, "final")
    /\ UNCHANGED <<meta, cli, record, work, histories>>

\* and a last Disconnect precedes the exit, which may find the lock held.
BeginFinal(h) ==
    /\ At(h, "final")
    /\ \/ /\ Locks(h)
          /\ HelperAt(h, "finishing")
       \/ /\ LockHeld
          /\ HelperGoes(h, DeadHelper)
          /\ UNCHANGED record
    /\ UNCHANGED <<cli, meta, socket, histories>>

EndFinal(h) ==
    /\ At(h, "finishing")
    /\ Returns(h, FALSE)
    /\ HelperGoes(h, DeadHelper)
    /\ UNCHANGED <<meta, cli, socket, histories>>

\* recoverSession: a helper that only disconnects.
BeginRecover(h) ==
    /\ At(h, "recover")
    /\ \/ /\ Locks(h)
          /\ HelperAt(h, "recovering")
          /\ UNCHANGED cli
       \/ /\ LockHeld
          /\ cli' = Answered(h, "pipe", FALSE)
          /\ HelperGoes(h, DeadHelper)
          /\ UNCHANGED record
    /\ UNCHANGED <<meta, socket, histories>>

EndRecover(h) ==
    /\ At(h, "recovering")
    /\ \E ok \in BOOLEAN :
          /\ Returns(h, ok)
          /\ cli' = IF ok THEN cli ELSE Answered(h, "pipe", FALSE)
          /\ HelperGoes(h, IF ok THEN [DeadHelper EXCEPT !.pc = "sweep"] ELSE DeadHelper)
    /\ UNCHANGED <<meta, socket, histories>>

\* Mutant of Sweep: the socket of the old helper is left where it is.
SweepKeepingSocket(h) ==
    /\ At(h, "sweep")
    /\ cli' = Answered(h, "pipe", TRUE)
    /\ HelperGoes(h, DeadHelper)
    /\ UNCHANGED <<files, work, histories>>

\* removeStaleSocket: any socket of the owner at the path is removed, or the
\* request fails although the rollback is complete.
Sweep(h) ==
    /\ At(h, "sweep")
    /\ \/ /\ socket' = NoHelper
          /\ cli' = Answered(h, "pipe", TRUE)
       \/ /\ socket' = socket
          /\ cli' = Answered(h, "pipe", FALSE)
    /\ HelperGoes(h, DeadHelper)
    /\ UNCHANGED <<meta, record, work, histories>>

\* A helper is killed: its utun and its lock go with it, its files stay.
HelperDies(h) ==
    /\ Alive(h)
    /\ HelperGoes(h, DeadHelper)
    /\ IF work.by = h THEN Controller!Drop(h) ELSE UNCHANGED <<record, work>>
    /\ UNCHANGED <<cli, meta, socket, histories>>

\* The machine restarts: /var/run is emptied, the journal and metadata stay.
Reboot ==
    /\ cli' = NoCommand
    /\ helper' = [h \in Helpers |-> DeadHelper]
    /\ work' = Controller!Unlocked
    /\ socket' = NoHelper
    /\ UNCHANGED <<meta, record, histories>>

CLIStep ==
    \/ Dial \/ Bootstrap \/ SocketFails \/ PipeEnds \/ WaitEnds
    \/ ConnectAnswered \/ DisconnectAnswered

HelperStep(h) ==
    \/ Operate(h) \/ RemoveUnrecorded(h)
    \/ BeginConnect(h) \/ RefuseConnect(h) \/ EndConnect(h) \/ Listen(h) \/ Ack(h)
    \/ HandleStatus(h) \/ BeginHandle(h) \/ BeginLate(h) \/ EndHandle(h)
    \/ HealthCheck(h)
    \/ CloseListener(h) \/ RemoveSocket(h) \/ BeginFinal(h) \/ EndFinal(h)
    \/ BeginRecover(h) \/ EndRecover(h) \/ Sweep(h)

Next ==
    \/ \E s \in Sessions : StartConnect(s)
    \/ StartDisconnect
    \/ StartStatus
    \/ CLIStep
    \/ Cancel
    \/ CLIDies
    \/ \E h \in Helpers : HelperStep(h) \/ Stop(h) \/ HelperDies(h)
    \/ Reboot

Spec == Init /\ [][Next]_vars

\* Every helper runs, since its calls have deadlines; and requests do not
\* starve the health check, because the listener's deadline is absolute.
Fairness == \A h \in Helpers : WF_vars(HelperStep(h)) /\ SF_vars(HealthCheck(h))

FairSpec == Spec /\ Fairness

-----------------------------------------------------------------------------
(* Properties.                                                             *)

\* Whatever is left of a session on the machine can be found: the metadata
\* names it, so that a later disconnect rolls it back, unless the command
\* that started it left before its helper answered.
SessionsAreNamed == \A s \in journal : meta.sess = s \/ s \in abandoned

\* The comment in connectLocked: the metadata is retained when rollback
\* evidence may exist.
EvidenceIsNamed == \A s \in journal : meta.sess = s

\* The session has a journal, or a helper that may still create it.
Active(s) ==
    \/ s \in journal
    \/ \E h \in Helpers : helper[h].pc \in {"start", "connecting"} /\ helper[h].sess = s

\* connectLocked starts no session while the metadata name one, so no two
\* sessions share the route table and the DNS servers (OneAtATime of
\* TunnelTransaction), but for those whose command left early.
OneSessionAtATime == \A s, t \in Sessions \ abandoned : Active(s) /\ Active(t) => s = t

\* A request arrives at the helper of the session it is about, although the
\* socket path is shared by all sessions of a user: handle's "does not own the
\* active session" is never the answer to this client.
RequestsReachTheirSession ==
    \A h \in Helpers : At(h, "serving") /\ Asked(h) => cli.sess = helper[h].sess

\* A helper whose command is gone before the answer to Connect does not stay:
\* it finds that nobody reads its pipe, undoes the connection and exits.
UnansweredHelpersLeave ==
    \A h \in Helpers :
        helper[h].pc \in {"start", "connecting", "listen", "ack"} /\ ~Open(h, "pipe") ~> ~Alive(h)

\* A helper whose session was rolled back by somebody else notices and exits,
\* and takes its utun along: that is what the health checks are for.
DevicesGoAway ==
    \A h \in Helpers :
        helper[h].device /\ helper[h].sess \notin journal ~>
            ~helper[h].device \/ helper[h].sess \in journal

-----------------------------------------------------------------------------
(* Why the two invariants hold: LifecycleInv is kept by every step.         *)

\* A helper of connectAndServe, on its way to its answer or serving; a helper
\* of recoverSession that has not rolled back yet.
Opening == {"start", "connecting", "listen", "ack"}
Serving == {"serving", "handling", "late"}
Owning == Opening \cup Serving \cup {"closing", "removing", "final", "finishing"}
Recovering == {"recover", "recovering"}

\* Nothing is left of session s, or nothing that the metadata has to name.
GoneOrAbandoned(s) == record[s] = "none" \/ s \in abandoned

\* A command works for the session of the metadata; only a Connect's pipe
\* brings it the answer after which it saves.
CommandInv ==
    /\ meta.sess = NoSession => meta = NoMeta
    /\ cli.pc \in {"dial", "bootstrap", "await"} => cli.sess = meta.sess /\ meta.sess \in Sessions
    /\ cli.pc \in {"await", "wait"} => cli.peer \in Helpers
    /\ cli.answered => CLIAt("await") /\ cli.op = "connect"
    /\ CLIAt("dial") \/ (CLIAt("await") /\ cli.via = "socket") => cli.op # "connect"

\* A session has one helper that connected it, ever.
OwnersInv ==
    /\ \A h \in Helpers : helper[h].pc \in Owning => helper[h].sess \in used
    /\ \A h \in Helpers : helper[h].pc \in Recovering => helper[h].sess \in Sessions
    /\ \A g, h \in Helpers :
          helper[g].pc \in Owning /\ helper[h].pc \in Owning /\ helper[g].sess = helper[h].sess => g = h
    /\ CLIAt("bootstrap") /\ cli.op = "connect" =>
          /\ cli.sess \in used
          /\ \A h \in Helpers : helper[h].pc \in Owning => helper[h].sess # cli.sess

\* A helper that may still create a journal has its command waiting for it,
\* or was abandoned by it.
ConnectIsAwaited ==
    \A h \in Helpers : helper[h].pc \in {"start", "connecting"} =>
        \/ helper[h].sess \in abandoned
        \/ /\ CLIAt("await") /\ Open(h, "pipe")
           /\ cli.op = "connect" /\ ~cli.answered /\ cli.sess = helper[h].sess

\* What the helper at the other end of the command's pipe is doing.
PipeInv ==
    \A h \in Helpers : Open(h, "pipe") =>
        /\ helper[h].pc \in Opening =>
              helper[h].sess = meta.sess /\ (CLIAt("await") => cli.op = "connect" /\ ~cli.answered)
        /\ helper[h].pc \in Recovering /\ CLIAt("await") =>
              helper[h].sess = cli.sess /\ cli.op # "connect"
        /\ At(h, "sweep") /\ CLIAt("await") => GoneOrAbandoned(cli.sess) /\ cli.op # "connect"

\* Who serves at the socket path serves the session of the metadata, and so
\* does the helper at the other end of the command's connection.
SocketInv ==
    /\ \A h \in Helpers : socket = h /\ helper[h].pc \in Serving => helper[h].sess = meta.sess
    /\ \A h \in Helpers : Asked(h) /\ helper[h].pc \in Serving => cli.sess = helper[h].sess
    /\ \A h \in Helpers : At(h, "handling") => Asked(h)

\* The operation inside the lock is that of a helper that is in the controller.
WorkInv ==
    /\ \A h \in Helpers : helper[h].pc \in InController <=> work.by = h
    /\ \A h \in Helpers : work.by = h =>
          /\ work.sess = helper[h].sess
          /\ work.stage \in {"connect", "connected"} => At(h, "connecting")
          /\ work.stage = "clean" => record[work.sess] = "none"

\* When the command is about to forget the session, nothing is left of it, and
\* nobody serves it at the socket path.
ForgetInv ==
    CLIAt("forget") =>
        /\ meta.sess \in Sessions
        /\ GoneOrAbandoned(meta.sess)
        /\ \A h \in Helpers : socket = h => helper[h].pc \notin Serving

LifecycleInv ==
    /\ TypeOK
    /\ CommandInv /\ OwnersInv /\ ConnectIsAwaited /\ PipeInv
    /\ SocketInv /\ WorkInv /\ ForgetInv
    /\ SessionsAreNamed

=============================================================================
