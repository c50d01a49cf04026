--------------------------- MODULE SessionContract ---------------------------
(***************************************************************************)
(* What tunnel.Controller promises the helper processes that call it, for  *)
(* the sessions of one owner: who may touch a session's journal, how the   *)
(* journal comes and goes, and what the result of an operation means.      *)
(*                                                                         *)
(* TunnelTransaction implements this contract; ConnectionLifecycle is      *)
(* built on it.                                                            *)
(***************************************************************************)
CONSTANTS Sessions, Helpers, NoSession, NoHelper

VARIABLES
    record,   \* record[s]: what the journal of s says of the session's device
    work      \* the operation inside the transaction lock

contract == <<record, work>>

\* No journal; a journal without a device entry; one whose device is still to
\* be removed; one whose device entry is rolled back.
Records == {"none", "open", "live", "undone"}

\* An operation connects or rolls back, and ends connected, with nothing left
\* of the session, or with an error and whatever the journal says.
Finished == {"connected", "clean", "failed"}
Stages == {"connect", "rollback"} \cup Finished

Unlocked == [by |-> NoHelper, sess |-> NoSession, stage |-> "clean"]

Works(h, stages) == work.by = h /\ work.stage \in stages

\* Records only move forward.
Later(r) ==
    CASE r = "none" -> {"open"}
      [] r = "open" -> {"live", "undone"}
      [] r = "live" -> {"undone"}
      [] r = "undone" -> {}

ContractInit ==
    /\ record = [s \in Sessions |-> "none"]
    /\ work = Unlocked

\* Controller.Connect and Controller.Disconnect: the lock never waits.
Begin(h, s, stage) ==
    /\ work = Unlocked
    /\ work' = [by |-> h, sess |-> s, stage |-> stage]
    /\ UNCHANGED record

\* A write to the journal of the session that the operation is about.  It may
\* be reported as an error, which turns a Connect back or ends the operation.
Advance(h) ==
    /\ Works(h, {"connect", "rollback"})
    /\ \E r \in Later(record[work.sess]) :
          /\ r = "open" => work.stage = "connect"
          /\ record' = [record EXCEPT ![work.sess] = r]
    /\ work' \in {[work EXCEPT !.stage = stage] : stage \in {work.stage, "rollback", "failed"}}

\* Connect fails after it has a journal, and rolls back.
TurnBack(h) ==
    /\ Works(h, {"connect"})
    /\ work' = [work EXCEPT !.stage = "rollback"]
    /\ UNCHANGED record

\* JournalStore.Delete: only once the device is not the session's any more.
Close(h) ==
    /\ Works(h, {"rollback"})
    /\ record[work.sess] \in {"open", "undone"}
    /\ record' = [record EXCEPT ![work.sess] = "none"]
    /\ \E stage \in {"clean", "failed"} : work' = [work EXCEPT !.stage = stage]

\* The operation's result: a Connect that succeeds leaves a journal to
\* disconnect by, a rollback that succeeds leaves none.
Finish(h) ==
    /\ Works(h, {"connect", "rollback"})
    /\ \E stage \in Finished :
          /\ stage = "connected" => work.stage = "connect" /\ record[work.sess] = "live"
          /\ stage = "clean" => work.stage = "rollback" /\ record[work.sess] = "none"
          /\ work' = [work EXCEPT !.stage = stage]
    /\ UNCHANGED record

\* What the controller does inside the lock.
Operate(h) == Advance(h) \/ TurnBack(h) \/ Close(h) \/ Finish(h)

\* The lock is given back, by the operation at its end,
Return(h) == Works(h, Finished) /\ work' = Unlocked /\ UNCHANGED record

\* or by the kernel, when the process or the machine goes down.
Drop(h) == work.by = h /\ work' = Unlocked /\ UNCHANGED record

ContractNext ==
    \E h \in Helpers :
        \/ \E s \in Sessions, stage \in {"connect", "rollback"} : Begin(h, s, stage)
        \/ Operate(h) \/ Return(h) \/ Drop(h)

ContractSpec == ContractInit /\ [][ContractNext]_contract

=============================================================================
