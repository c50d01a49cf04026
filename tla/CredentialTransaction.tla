----------------------- MODULE CredentialTransaction -----------------------
(***************************************************************************)
(* The credential pair (access token, NordLynx private key) in the login   *)
(* Keychain, and the three commands that work on it under one file lock:   *)
(* loginflow.Service.Login, authstate.Service.LogoutLocal and Inspect.     *)
(*                                                                         *)
(* The Keychain has no transactions, so the services build one: snapshot   *)
(* both items, change them one by one, and put the snapshots back when a   *)
(* change fails.  Every Keychain call is one step; it may fail before or   *)
(* after its effect (the helper process is killed when a context ends),    *)
(* and a command may die between two calls.                                *)
(***************************************************************************)
CONSTANTS
    Clients,   \* processes of the command line tool
    Logins,    \* accounts; a login stores one's token and the key provisioned for it
    NoClient,
    Absent     \* the Keychain has no such item

ASSUME ClientAssumption == NoClient \notin Clients
ASSUME LoginAssumption == Absent \notin Logins

Kinds == {"token", "key"}

Values == Logins \cup {Absent}

VARIABLES
    item,      \* item[k]: the Keychain item of kind k, by the login it came from
    lock,      \* who holds credentials.lock
    client,    \* client[c]: the control state and locals of process c
    late,      \* calls that killed processes left behind in their Keychain helpers
    entry,     \* history: the pair when the lock was last taken
    alone,     \* history: no call was left behind when the lock was last taken
    unsettled  \* history: a death, a late call or a reported incomplete rollback
               \* may have left a pair that does not belong together

vars == <<item, lock, client, late, entry, alone, unsettled>>

Operations == {"login", "logout", "inspect"}

ControlPoints ==
    {"idle", "provision", "readToken", "readKey", "writeToken", "writeKey",
     "restoreToken", "restoreKey", "release"}

Errors == {"provision", "read", "transaction", "incomplete"}

Results == {"none", "logged_in", "logged_out", "inconsistent"}

ClientStates ==
    [pc : ControlPoints, op : Operations, login : Values, before : [Kinds -> Values],
     failed : BOOLEAN, errors : SUBSET Errors, result : Results]

NoPair == [k \in Kinds |-> Absent]

Idle == [pc |-> "idle", op |-> "inspect", login |-> Absent, before |-> NoPair,
         failed |-> FALSE, errors |-> {}, result |-> "none"]

Init ==
    /\ item = NoPair
    /\ lock = NoClient
    /\ client = [c \in Clients |-> Idle]
    /\ late = {}
    /\ entry = NoPair
    /\ alone = TRUE
    /\ unsettled = FALSE

At(c, point) == client[c].pc = point

\* Client c moves on with locals cs.
Local(c, cs) == client' = [client EXCEPT ![c] = cs]

-----------------------------------------------------------------------------
(* The Keychain, through nativekeychain.Store and its helper process.      *)

Outcome(err, value) == [err |-> err, value |-> value]

\* Put replaces the item or adds it.
PutOutcomes(old, new) ==
    {Outcome("nil", new), Outcome("failed", old), Outcome("failed", new)}

\* Delete reports a missing item as ErrNotFound.
DeleteOutcomes(old) ==
    IF old = Absent
    THEN {Outcome("not_found", old), Outcome("failed", old)}
    ELSE {Outcome("nil", Absent), Outcome("failed", old), Outcome("failed", Absent)}

\* What the command does to the item of kind k: Login puts the new value,
\* LogoutLocal deletes the item if the snapshot has it.
ChangeOutcomes(cs, k) ==
    IF cs.op = "login" THEN PutOutcomes(item[k], cs.login)
    ELSE IF cs.before[k] # Absent THEN DeleteOutcomes(item[k])
    ELSE {Outcome("nil", item[k])}

\* restore: put the snapshot back, or delete what was not there.
RestoreOutcomes(cs, k) ==
    IF cs.before[k] # Absent THEN PutOutcomes(item[k], cs.before[k])
    ELSE DeleteOutcomes(item[k])

-----------------------------------------------------------------------------
(* The commands.                                                           *)

\* Mutant of Acquire: the lock is taken over from whoever holds it.
AcquireUnlocked(c, op, l) ==
    /\ At(c, "idle")
    /\ (op = "login") <=> (l # Absent)
    /\ lock' = c
    /\ entry' = item
    /\ alone' = (late = {})
    /\ Local(c, [Idle EXCEPT !.pc = IF op = "login" THEN "provision" ELSE "readToken",
                             !.op = op, !.login = l])
    /\ UNCHANGED <<item, late, unsettled>>

\* A command starts.  The lock never waits: a command that finds it held
\* returns before it has done anything.
Acquire(c, op, l) ==
    /\ At(c, "idle")
    /\ lock = NoClient
    /\ (op = "login") <=> (l # Absent)
    /\ lock' = c
    /\ entry' = item
    /\ alone' = (late = {})
    /\ Local(c, [Idle EXCEPT !.pc = IF op = "login" THEN "provision" ELSE "readToken",
                             !.op = op, !.login = l])
    /\ UNCHANGED <<item, late, unsettled>>

\* Login asks Nord for the key before it looks at the Keychain.
Provision(c) ==
    /\ At(c, "provision")
    /\ \/ Local(c, [client[c] EXCEPT !.pc = "readToken"])
       \/ Local(c, [client[c] EXCEPT !.pc = "release", !.errors = {"provision"}])
    /\ UNCHANGED <<item, lock, late, entry, alone, unsettled>>

\* capture of one item; a missing item is a snapshot, not an error.
ReadFailed(c) ==
    Local(c, [client[c] EXCEPT !.pc = "release",
          !.errors = {IF client[c].op = "login" THEN "transaction" ELSE "read"}])

CaptureToken(c) ==
    /\ At(c, "readToken")
    /\ \/ Local(c, [client[c] EXCEPT !.pc = "readKey", !.before["token"] = item["token"]])
       \/ ReadFailed(c)
    /\ UNCHANGED <<item, lock, late, entry, alone, unsettled>>

\* status of a pair of snapshots, by presence.
Status(pair) ==
    IF pair["token"] # Absent /\ pair["key"] # Absent THEN "logged_in"
    ELSE IF pair = NoPair THEN "logged_out"
    ELSE "inconsistent"

\* After the second snapshot Inspect is done, and so is a LogoutLocal that
\* has nothing to remove.
CaptureKey(c) ==
    LET before == [client[c].before EXCEPT !["key"] = item["key"]] IN
    /\ At(c, "readKey")
    /\ \/ Local(c, IF client[c].op = "inspect"
                   THEN [client[c] EXCEPT !.pc = "release", !.before = before, !.result = Status(before)]
                   ELSE IF client[c].op = "logout" /\ before = NoPair
                   THEN [client[c] EXCEPT !.pc = "release", !.before = before]
                   ELSE [client[c] EXCEPT !.pc = "writeToken", !.before = before])
       \/ ReadFailed(c)
    /\ UNCHANGED <<item, lock, late, entry, alone, unsettled>>

\* Mutant of ChangeKey: the error of the second change is dropped.
ChangeKeyIgnoringError(c) ==
    /\ At(c, "writeKey")
    /\ \E o \in ChangeOutcomes(client[c], "key") : item' = [item EXCEPT !["key"] = o.value]
    /\ Local(c, [client[c] EXCEPT !.pc = "release"])
    /\ UNCHANGED <<lock, late, entry, alone, unsettled>>

\* The token is changed first.
ChangeToken(c) ==
    /\ At(c, "writeToken")
    /\ \E o \in ChangeOutcomes(client[c], "token") :
          /\ item' = [item EXCEPT !["token"] = o.value]
          /\ Local(c, [client[c] EXCEPT !.pc = IF o.err = "nil" THEN "writeKey" ELSE "restoreToken"])
    /\ UNCHANGED <<lock, late, entry, alone, unsettled>>

\* Then the key; an error of either rolls both back.
ChangeKey(c) ==
    /\ At(c, "writeKey")
    /\ \E o \in ChangeOutcomes(client[c], "key") :
          /\ item' = [item EXCEPT !["key"] = o.value]
          /\ Local(c, [client[c] EXCEPT !.pc = IF o.err = "nil" THEN "release" ELSE "restoreToken"])
    /\ UNCHANGED <<lock, late, entry, alone, unsettled>>

\* Mutant of RestoreToken: a token that could be restored ends the rollback.
RestoreTokenOnly(c) ==
    /\ At(c, "restoreToken")
    /\ \E o \in RestoreOutcomes(client[c], "token") :
          /\ item' = [item EXCEPT !["token"] = o.value]
          /\ Local(c, [client[c] EXCEPT !.pc = "release",
                !.errors = {"transaction"} \cup (IF o.err = "failed" THEN {"incomplete"} ELSE {})])
    /\ UNCHANGED <<lock, late, entry, alone, unsettled>>

\* rollback and failedRemoval restore both items whatever happens to the
\* first, under a context of their own.
RestoreToken(c) ==
    /\ At(c, "restoreToken")
    /\ \E o \in RestoreOutcomes(client[c], "token") :
          /\ item' = [item EXCEPT !["token"] = o.value]
          /\ Local(c, [client[c] EXCEPT !.pc = "restoreKey", !.failed = (o.err = "failed")])
    /\ UNCHANGED <<lock, late, entry, alone, unsettled>>

\* Mutant of RestoreKey: the error of the first restore is lost.
RestoreKeyForgetting(c) ==
    /\ At(c, "restoreKey")
    /\ \E o \in RestoreOutcomes(client[c], "key") :
          /\ item' = [item EXCEPT !["key"] = o.value]
          /\ Local(c, [client[c] EXCEPT !.pc = "release",
                !.errors = {"transaction"} \cup (IF o.err = "failed" THEN {"incomplete"} ELSE {})])
    /\ UNCHANGED <<lock, late, entry, alone, unsettled>>

\* The second restore: any error of the two is reported as incomplete.
RestoreKey(c) ==
    /\ At(c, "restoreKey")
    /\ \E o \in RestoreOutcomes(client[c], "key") :
          /\ item' = [item EXCEPT !["key"] = o.value]
          /\ Local(c, [client[c] EXCEPT !.pc = "release",
                !.errors = {"transaction"} \cup
                    (IF client[c].failed \/ o.err = "failed" THEN {"incomplete"} ELSE {})])
    /\ UNCHANGED <<lock, late, entry, alone, unsettled>>

\* What a command with locals cs may return: the deferred release may fail,
\* which takes the result away and adds ErrCredentialLock, to a success too.
Replies(cs) ==
    {[errors |-> cs.errors, result |-> cs.result],
     [errors |-> cs.errors \cup {"lock"}, result |-> "none"]}

\* The deferred release, the reply, and the process exits: that frees the lock
\* also when the release has failed.
Release(c) ==
    /\ At(c, "release")
    /\ lock' = NoClient
    /\ \E reply \in Replies(client[c]) :
          unsettled' = IF alone /\ client[c].op # "inspect" /\ reply.errors = {}
                       THEN FALSE
                       ELSE unsettled \/ "incomplete" \in reply.errors
    /\ Local(c, Idle)
    /\ UNCHANGED <<item, late, entry, alone>>

\* The write a process has handed to its Keychain helper, at each point.
InProgress(cs) ==
    LET k == IF cs.pc \in {"writeToken", "restoreToken"} THEN "token" ELSE "key"
        changed == IF cs.pc \in {"writeToken", "writeKey"} THEN cs.login ELSE cs.before[k]
    IN IF cs.pc \in {"writeToken", "writeKey", "restoreToken", "restoreKey"}
       THEN {[kind |-> k, value |-> changed]} ELSE {}

\* The process is killed.  The kernel drops its flock, which the helper does
\* not inherit, and nothing restores the pair; the helper may live on.
Crash(c) ==
    /\ ~At(c, "idle")
    /\ lock' = NoClient
    /\ late' \in {late, late \cup InProgress(client[c])}
    /\ unsettled' = (\/ unsettled
                     \/ client[c].pc \in {"writeToken", "writeKey", "restoreToken", "restoreKey"}
                     \/ "incomplete" \in client[c].errors)
    /\ Local(c, Idle)
    /\ UNCHANGED <<item, entry, alone>>

\* A helper left behind finishes its call.
LateWrite ==
    \E w \in late :
        /\ item' = [item EXCEPT ![w.kind] = w.value]
        /\ late' = late \ {w}
        /\ unsettled' = TRUE
        /\ UNCHANGED <<lock, client, entry, alone>>

Next ==
    \/ \E c \in Clients, op \in Operations, l \in Values : Acquire(c, op, l)
    \/ \E c \in Clients :
          \/ Provision(c) \/ CaptureToken(c) \/ CaptureKey(c)
          \/ ChangeToken(c) \/ ChangeKey(c)
          \/ RestoreToken(c) \/ RestoreKey(c)
          \/ Release(c) \/ Crash(c)
    \/ LateWrite

Spec == Init /\ [][Next]_vars

-----------------------------------------------------------------------------
(* Properties.  Each speaks of a command that is about to return.          *)

\* Items, lock, locals and histories have their types.
TypeOK ==
    /\ item \in [Kinds -> Values]
    /\ lock \in Clients \cup {NoClient}
    /\ client \in [Clients -> ClientStates]
    /\ late \subseteq [kind : Kinds, value : Values]
    /\ entry \in [Kinds -> Values]
    /\ alone \in BOOLEAN
    /\ unsettled \in BOOLEAN

\* The token and the key come from the same login, or both are missing.
Matched(pair) == pair["token"] = pair["key"]

\* What Login and LogoutLocal report to have left: the token and the key
\* provisioned for it, or nothing.
Settled(c) == item = [k \in Kinds |-> client[c].login]

\* All or nothing: a Login or LogoutLocal that reports failure, and not an
\* incomplete rollback, leaves exactly the pair it found when it took the
\* lock, if no call of a killed process was left behind then.  Only a failure
\* to release the lock, reported alone, may also follow the whole change.
FailureRestores ==
    \A c \in Clients : At(c, "release") =>
        \A reply \in Replies(client[c]) :
            reply.errors # {} /\ "incomplete" \notin reply.errors
                => ~alone \/ item = entry \/ (reply.errors = {"lock"} /\ Settled(c))

\* A command about to report that it stored, or removed, the pair,
\* if the release of the lock succeeds.
Succeeds(c) == At(c, "release") /\ client[c].errors = {} /\ client[c].op # "inspect"

\* A Login that reports success has stored a token and the key provisioned
\* for it, whatever pair was there, and a successful LogoutLocal leaves
\* nothing: both repair an inconsistent pair, if no call was left behind.
SuccessSettles == \A c \in Clients : Succeeds(c) => ~alone \/ Settled(c)

\* The two reads of Inspect are one snapshot: what it reports is the state of
\* the pair when it returns.
StatusIsCurrent ==
    \A c \in Clients :
        At(c, "release") /\ client[c].result # "none" => ~alone \/ client[c].result = Status(item)

\* Between commands the token and the key belong to the same login, unless a
\* command died in the middle, a call it left behind was carried out or a
\* rollback was reported incomplete, and no command has succeeded since.
MixedIsExplained == lock = NoClient /\ ~Matched(item) => unsettled

\* ADR 0002 on a crash between two Keychain changes: status detects the
\* inconsistent pair.  So a pair that Inspect calls logged_in belongs
\* together, even without calls left behind.
StatusDetectsMixedPair ==
    \A c \in Clients :
        alone /\ At(c, "release") /\ client[c].result = "logged_in" => Matched(item)

\* The validation record on what follows a crash: a successful replacement
\* login overwrites both items, a local logout clears them.  It does not hold
\* when a killed command's call is still under way; SuccessSettles says what does.
SuccessRepairs == \A c \in Clients : Succeeds(c) => Settled(c)

-----------------------------------------------------------------------------
(* The inductive invariant.                                                *)

\* Only the holder of the lock is inside a command.
HolderOnly == \A c \in Clients : ~At(c, "idle") => lock = c

\* No call is left behind while a command that found none is running.
AloneMeansAlone == lock # NoClient /\ alone => late = {}

\* How far a command has come, and what the pair is at that point.
Progress(cs) ==
    /\ (cs.op = "login") <=> (cs.login # Absent)
    /\ alone /\ cs.pc \in {"provision", "readToken", "readKey", "writeToken"} => item = entry
    /\ alone /\ cs.pc = "readKey" => cs.before["token"] = entry["token"]
    /\ alone /\ cs.pc \in {"writeToken", "writeKey", "restoreToken", "restoreKey"} => cs.before = entry
    /\ cs.pc \in {"writeToken", "writeKey", "restoreToken", "restoreKey"} => cs.op # "inspect"
    /\ alone /\ cs.pc = "writeKey" => item["token"] = cs.login /\ item["key"] = entry["key"]
    /\ alone /\ cs.pc = "restoreKey" /\ ~cs.failed => item["token"] = entry["token"]
    /\ cs.pc # "release" => cs.errors = {} /\ cs.result = "none"
    /\ alone /\ cs.pc = "release" /\ cs.op = "inspect" => item = entry
    /\ cs.pc # "idle" => unsettled \/ Matched(entry)
    /\ ~alone /\ cs.pc # "idle" => unsettled

CommandsProgress == \A c \in Clients : Progress(client[c])

\* A call left behind, and so a pair it may change, is never forgotten.
LateIsUnsettled == late # {} => unsettled

\* FailureRestores, SuccessSettles, StatusIsCurrent and MixedIsExplained,
\* strengthened until every step preserves them.
CredentialInv ==
    /\ TypeOK
    /\ HolderOnly
    /\ AloneMeansAlone
    /\ LateIsUnsettled
    /\ CommandsProgress
    /\ FailureRestores
    /\ SuccessSettles
    /\ StatusIsCurrent
    /\ MixedIsExplained

=============================================================================
