---------------------------- MODULE CountryCache ----------------------------
(***************************************************************************)
(* The countries command and its cache file (command.Service.Countries,    *)
(* cache.Countries): several commands at once, none of which takes a lock. *)
(* A command reads the clock, reads the file, asks the API if it has to    *)
(* and replaces the file by a rename.  A catalogue is known by the time at *)
(* which the API sent it and by the size it has in the file.               *)
(***************************************************************************)
EXTENDS Integers

CONSTANTS
    Processes,
    TTL,        \* how long a cached catalogue is fresh: 24 hours in the code
    MaxClock,   \* bound on the clock
    Sizes,      \* sizes of an encoded catalogue
    ReadLimit   \* how much of the file Read looks at: 4 MiB in the code

ASSUME CacheAssumption ==
    /\ TTL \in Nat
    /\ MaxClock \in Nat
    /\ Sizes \subseteq Nat
    /\ ReadLimit \in Nat

VARIABLES
    clock,
    file,       \* what is at the cache's path
    written,    \* history: a catalogue has been put there
    proc        \* the commands

vars == <<clock, file, written, proc>>

Times == 0..MaxClock

\* A cache file: the fetch time it records, and, of the catalogue in it, its
\* size and the time at which the API sent it.  An unreadable file has another
\* schema or is not complete.
Files == [kind : {"absent", "unreadable", "whole"},
          stamp : Times, got : Times, size : Sizes \cup {0}]
Absent == [kind |-> "absent", stamp |-> 0, got |-> 0, size |-> 0]
Unreadable == [Absent EXCEPT !.kind = "unreadable"]

\* What a command reports: where the catalogue comes from, when it was sent.
Sources == {"none", "network", "cache", "stale_cache", "error"}

ProcStates ==
    [pc : {"idle", "read", "fetch", "temporary", "rename"},
     refresh : BOOLEAN,
     now : Times,             \* Service.now, taken once
     cached : Files,          \* what Read found
     temp : Files,            \* the result, and the temporary file
     hadCache : BOOLEAN,      \* history: there was a catalogue when the command began
     source : Sources,
     got : Times]

Idle == [pc |-> "idle", refresh |-> FALSE, now |-> 0, cached |-> Absent, temp |-> Absent,
         hadCache |-> FALSE, source |-> "none", got |-> 0]

\* The shape of the state.
TypeOK ==
    /\ clock \in Times
    /\ file \in Files
    /\ written \in BOOLEAN
    /\ proc \in [Processes -> ProcStates]

\* There is no file yet, or one that this version cannot read.
Init ==
    /\ clock = 0
    /\ file \in {Absent, Unreadable}
    /\ written = FALSE
    /\ proc = [p \in Processes |-> Idle]

At(p, point) == proc[p].pc = point

\* The command returns; it keeps only what the properties look at.
Returns(p, source, got) ==
    proc' = [proc EXCEPT ![p] = [Idle EXCEPT !.source = source, !.got = got,
                                   !.now = proc[p].now, !.hadCache = proc[p].hadCache]]

-----------------------------------------------------------------------------
(* Service.Countries.                                                      *)

TakeTime(p, refresh) ==
    /\ At(p, "idle")
    /\ proc' = [proc EXCEPT ![p] = [Idle EXCEPT !.pc = "read", !.refresh = refresh,
                                      !.now = clock, !.hadCache = written]]
    /\ UNCHANGED <<clock, file, written>>

\* Read decodes a complete file of the current schema.
Readable(f) == f.kind = "whole" /\ f.size <= ReadLimit

\* A fetch time in the future is not fresh either.
Fresh(now, f) == now - f.stamp >= 0 /\ now - f.stamp <= TTL

ReadCache(p) ==
    /\ At(p, "read")
    /\ \/ /\ ~proc[p].refresh
          /\ Readable(file)
          /\ Fresh(proc[p].now, file)
          /\ Returns(p, "cache", file.got)
       \/ /\ proc[p].refresh \/ ~Readable(file) \/ ~Fresh(proc[p].now, file)
          /\ proc' = [proc EXCEPT ![p].pc = "fetch", ![p].cached = file]
    /\ UNCHANGED <<clock, file, written>>

\* Client.Countries: all or nothing.  The result is dated with the time at
\* which the command began.
FetchSucceeds(p) ==
    /\ At(p, "fetch")
    /\ \E size \in Sizes :
         proc' = [proc EXCEPT ![p].pc = "temporary",
                    ![p].temp = [kind |-> "whole", stamp |-> proc[p].now,
                                 got |-> clock, size |-> size]]
    /\ UNCHANGED <<clock, file, written>>

FetchFails(p) ==
    /\ At(p, "fetch")
    /\ IF Readable(proc[p].cached)
       THEN Returns(p, "stale_cache", proc[p].cached.got)
       ELSE Returns(p, "error", 0)
    /\ UNCHANGED <<clock, file, written>>

\* Mutant of WriteTemporary: the cache file itself is opened and truncated.
WriteInPlace(p) ==
    /\ At(p, "temporary")
    /\ proc' = [proc EXCEPT ![p].pc = "rename"]
    /\ file' = Unreadable
    /\ UNCHANGED <<clock, written>>

\* Countries.Write, up to the close of the temporary file.
WriteTemporary(p) ==
    /\ At(p, "temporary")
    /\ proc' = [proc EXCEPT ![p].pc = "rename"]
    /\ UNCHANGED <<clock, file, written>>

\* Mutant of Rename: the fetch time is the time of the write.
RenameDatedNow(p) ==
    /\ At(p, "rename")
    /\ file' = [proc[p].temp EXCEPT !.stamp = clock]
    /\ written' = TRUE
    /\ Returns(p, "network", proc[p].temp.got)
    /\ UNCHANGED clock

\* The rename replaces the file in one step.
Rename(p) ==
    /\ At(p, "rename")
    /\ file' = proc[p].temp
    /\ written' = TRUE
    /\ Returns(p, "network", proc[p].temp.got)
    /\ UNCHANGED clock

\* A failing Write costs a warning.
WriteFails(p) ==
    /\ At(p, "temporary") \/ At(p, "rename")
    /\ Returns(p, "network", proc[p].temp.got)
    /\ UNCHANGED <<clock, file, written>>

\* The command is killed; a temporary file it leaves has a name of its own.
Dies(p) ==
    /\ ~At(p, "idle")
    /\ proc' = [proc EXCEPT ![p] = Idle]
    /\ UNCHANGED <<clock, file, written>>

Tick ==
    /\ clock < MaxClock
    /\ clock' = clock + 1
    /\ UNCHANGED <<file, written, proc>>

Next ==
    \/ Tick
    \/ \E p \in Processes :
         \/ \E refresh \in BOOLEAN : TakeTime(p, refresh)
         \/ ReadCache(p) \/ FetchSucceeds(p) \/ FetchFails(p)
         \/ WriteTemporary(p) \/ Rename(p) \/ WriteFails(p) \/ Dies(p)

Spec == Init /\ [][Next]_vars

-----------------------------------------------------------------------------
(* Properties.                                                             *)

\* The 24 hours of the README: a catalogue that a command takes from the cache
\* without asking the API was sent by the API no more than TTL before the
\* command began, however long the command that cached it took and whichever
\* of several writers came last.
CacheAnswersAreRecent ==
    \A p \in Processes :
        proc[p].source = "cache" => proc[p].now - proc[p].got <= TTL

\* The fallback of the README: once a catalogue has been cached, a command that
\* starts later succeeds although the API is down, whoever is replacing the
\* file at that moment and wherever a writer died.
OnceCachedNeverFails ==
    \A p \in Processes : proc[p].source = "error" => ~proc[p].hadCache

\* What CacheAnswersAreRecent rests on: a catalogue is never dated later than
\* it was sent, in the file and on the way to it.
DatedNoLaterThanSent ==
    \A f \in {file} \cup {proc[p].temp : p \in Processes} :
        f.kind = "whole" => f.stamp <= f.got

\* A command under way began no later than now.
BegunBefore ==
    \A p \in Processes : proc[p].pc \in {"read", "fetch"} => proc[p].now <= clock

\* The inductive invariant of the cache: the shape of the state, the dates of
\* catalogues and commands, and the recency they give.
CacheInv ==
    /\ TypeOK
    /\ DatedNoLaterThanSent
    /\ BegunBefore
    /\ CacheAnswersAreRecent

\* What OnceCachedNeverFails rests on: a catalogue that was put at the path is
\* still there and readable, whatever is on the way to replace it is too, and
\* a command that began after it has read such a file.
FallbackInv ==
    /\ written => Readable(file)
    /\ \A p \in Processes :
          /\ proc[p].pc \in {"temporary", "rename"} => Readable(proc[p].temp)
          /\ At(p, "read") /\ proc[p].hadCache => written
          /\ At(p, "fetch") /\ proc[p].hadCache => Readable(proc[p].cached)
    /\ OnceCachedNeverFails

=============================================================================
