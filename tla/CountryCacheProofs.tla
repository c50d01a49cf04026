------------------------ MODULE CountryCacheProofs ------------------------
(***************************************************************************)
(* Proofs about CountryCache for any set of commands and any limits.       *)
(***************************************************************************)
EXTENDS CountryCache, TLAPS

USE DEF Times

\* A command that has not begun has its type.
LEMMA IdleTyped == Idle \in ProcStates
  BY CacheAssumption DEF Idle, ProcStates, Absent, Files, Sources

\* A command that returns is idle, with no file of its own.
LEMMA ReturnsTyped ==
  ASSUME TypeOK,
         NEW p \in Processes,
         NEW source \in Sources,
         NEW got \in Times,
         Returns(p, source, got)
  PROVE  /\ proc' \in [Processes -> ProcStates]
         /\ proc'[p].pc = "idle"
         /\ proc'[p].temp = Absent
         /\ proc'[p].source = source
         /\ proc'[p].got = got
         /\ proc'[p].now = proc[p].now
         /\ \A q \in Processes \ {p} : proc'[q] = proc[q]
  BY IdleTyped DEF Returns, TypeOK, ProcStates, Idle

\* The invariant for one command that has just moved to r.
CommandInv(r, c) ==
    /\ r.temp.kind = "whole" => r.temp.stamp <= r.temp.got
    /\ r.pc \in {"read", "fetch"} => r.now <= c
    /\ r.source = "cache" => r.now - r.got <= TTL

\* CacheInv command by command: what a step of p has to show.
LEMMA OneCommandMoves ==
  ASSUME CacheInv,
         NEW p \in Processes,
         proc' \in [Processes -> ProcStates],
         \A q \in Processes \ {p} : proc'[q] = proc[q],
         clock' = clock,
         file' \in Files,
         file'.kind = "whole" => file'.stamp <= file'.got,
         written' \in BOOLEAN,
         CommandInv(proc'[p], clock)
  PROVE  CacheInv'
  <1>1. TypeOK'
    BY DEF CacheInv, TypeOK
  <1>2. \A q \in Processes : CommandInv(proc'[q], clock')
    BY DEF CacheInv, CommandInv, DatedNoLaterThanSent, CacheAnswersAreRecent, BegunBefore
  <1>3. DatedNoLaterThanSent'
    BY <1>2 DEF CommandInv, DatedNoLaterThanSent
  <1>4. BegunBefore'
    BY <1>2 DEF CommandInv, BegunBefore
  <1>5. CacheAnswersAreRecent'
    BY <1>2 DEF CommandInv, CacheAnswersAreRecent
  <1> QED  BY <1>1, <1>3, <1>4, <1>5 DEF CacheInv

\* At the start there is no whole file and no command under way.
LEMMA CacheInvInit == Init => CacheInv
<1> SUFFICES ASSUME Init PROVE CacheInv
  OBVIOUS
<1>1. Absent \in Files /\ Unreadable \in Files
  BY CacheAssumption DEF Absent, Unreadable, Files
<1>2. TypeOK
  <2>1. clock \in Times /\ file \in Files
    BY <1>1, CacheAssumption DEF Init
  <2>2. written \in BOOLEAN
    BY Zenon DEF Init
  <2>3. proc \in [Processes -> ProcStates]
    BY IdleTyped, Zenon DEF Init
  <2> QED  BY <2>1, <2>2, <2>3 DEF TypeOK
<1>3. file.kind # "whole" /\ \A p \in Processes : proc[p].temp.kind # "whole"
  <2>1. file.kind # "whole"
    BY DEF Init, Absent, Unreadable
  <2>2. Idle.temp.kind # "whole"
    BY DEF Idle, Absent
  <2> QED  BY <2>1, <2>2 DEF Init
<1>4. \A p \in Processes : proc[p].pc = "idle" /\ proc[p].source = "none"
  BY DEF Init, Idle
<1> QED
  BY <1>2, <1>3, <1>4 DEF CacheInv, DatedNoLaterThanSent, CacheAnswersAreRecent, BegunBefore

\* Every step of a command, and of the clock, keeps the dates in order.
LEMMA CacheInvNext == CacheInv /\ [Next]_vars => CacheInv'
<1> SUFFICES ASSUME CacheInv, [Next]_vars
             PROVE  CacheInv'
  OBVIOUS
<1>t. /\ TypeOK /\ clock \in Int
      /\ file.kind = "whole" => file.stamp <= file.got
  BY CacheAssumption DEF CacheInv, TypeOK, DatedNoLaterThanSent
<1>1. CASE UNCHANGED vars
  BY <1>1 DEF vars, CacheInv, TypeOK, DatedNoLaterThanSent, CacheAnswersAreRecent, BegunBefore
<1>2. CASE Tick
  <2>1. TypeOK'
    BY <1>2, <1>t, CacheAssumption DEF Tick, TypeOK
  <2>2. BegunBefore'
    BY <1>2, <1>t, CacheAssumption DEF Tick, CacheInv, BegunBefore, TypeOK, ProcStates
  <2> QED
    BY <1>2, <2>1, <2>2 DEF Tick, CacheInv, DatedNoLaterThanSent, CacheAnswersAreRecent
<1>3. ASSUME NEW p \in Processes, NEW refresh \in BOOLEAN, TakeTime(p, refresh)
      PROVE  CacheInv'
  <2> DEFINE r == [Idle EXCEPT !.pc = "read", !.refresh = refresh,
                    !.now = clock, !.hadCache = written]
  <2>2. r \in ProcStates /\ CommandInv(r, clock)
    <3>1. r \in ProcStates
      BY <1>t, IdleTyped DEF TypeOK, ProcStates
    <3>2. r.temp.kind # "whole" /\ r.source # "cache" /\ r.now = clock
      BY <1>t DEF Idle, Absent
    <3> QED  BY <3>1, <3>2, <1>t DEF CommandInv
  <2>1. /\ proc' \in [Processes -> ProcStates]
        /\ \A q \in Processes \ {p} : proc'[q] = proc[q]
        /\ CommandInv(proc'[p], clock)
    BY <1>3, <1>t, <2>2 DEF TakeTime, TypeOK
  <2> QED
    BY <1>3, <1>t, <2>1, OneCommandMoves DEF TakeTime, TypeOK
<1>4. ASSUME NEW p \in Processes, ReadCache(p)
      PROVE  CacheInv'
  <2>0. /\ clock' = clock /\ file' = file /\ written' = written
        /\ file \in Files /\ proc[p] \in ProcStates
    BY <1>4, <1>t DEF ReadCache, TypeOK
  <2>1. CASE /\ Fresh(proc[p].now, file) /\ Readable(file)
             /\ Returns(p, "cache", file.got)
    <3>1. file.got \in Times /\ "cache" \in Sources
      BY <2>0 DEF Files, Sources
    <3>2. /\ proc' \in [Processes -> ProcStates]
          /\ proc'[p].pc = "idle" /\ proc'[p].temp = Absent
          /\ proc'[p].got = file.got /\ proc'[p].now = proc[p].now
          /\ \A q \in Processes \ {p} : proc'[q] = proc[q]
      BY <2>1, <3>1, <1>t, ReturnsTyped
    <3>3. proc[p].now - file.got <= TTL
      BY <2>0, <2>1, <1>t, CacheAssumption DEF Fresh, Readable, Files, ProcStates
    <3>4. CommandInv(proc'[p], clock)
      BY <3>2, <3>3 DEF CommandInv, Absent
    <3> QED
      BY <2>0, <3>2, <3>4, <1>t, OneCommandMoves DEF TypeOK
  <2>2. CASE proc' = [proc EXCEPT ![p].pc = "fetch", ![p].cached = file]
    <3>1. /\ proc' \in [Processes -> ProcStates]
          /\ \A q \in Processes \ {p} : proc'[q] = proc[q]
      BY <2>0, <2>2, <1>t DEF TypeOK, ProcStates
    <3>2. CommandInv(proc[p], clock) /\ proc[p].pc = "read"
      BY <1>4 DEF ReadCache, At, CommandInv, CacheInv, DatedNoLaterThanSent,
                  CacheAnswersAreRecent, BegunBefore
    <3>3. CommandInv(proc'[p], clock)
      BY <2>0, <2>2, <3>2, <1>t DEF CommandInv, TypeOK, ProcStates
    <3> QED
      BY <2>0, <3>1, <3>3, <1>t, OneCommandMoves DEF TypeOK
  <2> QED  BY <1>4, <2>1, <2>2 DEF ReadCache
<1>5. ASSUME NEW p \in Processes, FetchSucceeds(p)
      PROVE  CacheInv'
  <2>0. /\ clock' = clock /\ file' = file /\ written' = written
        /\ proc[p] \in ProcStates /\ proc[p].now <= clock
    BY <1>5, <1>t DEF FetchSucceeds, TypeOK, CacheInv, BegunBefore, At
  <2>1. PICK size \in Sizes :
          proc' = [proc EXCEPT ![p].pc = "temporary",
                     ![p].temp = [kind |-> "whole", stamp |-> proc[p].now,
                                  got |-> clock, size |-> size]]
    BY <1>5 DEF FetchSucceeds
  <2>2. [kind |-> "whole", stamp |-> proc[p].now, got |-> clock, size |-> size] \in Files
    BY <2>0, <1>t DEF Files, ProcStates, TypeOK
  <2>3. /\ proc' \in [Processes -> ProcStates]
        /\ \A q \in Processes \ {p} : proc'[q] = proc[q]
    BY <2>0, <2>1, <2>2, <1>t DEF TypeOK, ProcStates
  <2>4. CommandInv(proc'[p], clock)
    BY <2>0, <2>1, <1>t DEF CommandInv, CacheInv, CacheAnswersAreRecent, TypeOK, ProcStates
  <2> QED
    BY <2>0, <2>3, <2>4, <1>t, OneCommandMoves DEF TypeOK
<1>6. ASSUME NEW p \in Processes, NEW source \in Sources \ {"cache"}, NEW got \in Times,
             Returns(p, source, got), clock' = clock,
             file' \in Files, file'.kind = "whole" => file'.stamp <= file'.got,
             written' \in BOOLEAN
      PROVE  CacheInv'
  <2>1. /\ proc' \in [Processes -> ProcStates]
        /\ proc'[p].pc = "idle" /\ proc'[p].temp = Absent /\ proc'[p].source = source
        /\ \A q \in Processes \ {p} : proc'[q] = proc[q]
    BY <1>6, <1>t, ReturnsTyped
  <2>2. CommandInv(proc'[p], clock)
    BY <2>1, <1>6 DEF CommandInv, Absent
  <2> QED
    BY <1>6, <2>1, <2>2, OneCommandMoves
<1>7. ASSUME NEW p \in Processes, FetchFails(p)
      PROVE  CacheInv'
  <2>1. proc[p].cached.got \in Times /\ 0 \in Times /\ file \in Files /\ written \in BOOLEAN
    BY <1>t, CacheAssumption DEF TypeOK, ProcStates, Files
  <2> QED
    BY <1>6, <1>7, <1>t, <2>1 DEF FetchFails, Sources
<1>8. ASSUME NEW p \in Processes, WriteTemporary(p)
      PROVE  CacheInv'
  <2>1. /\ clock' = clock /\ file' = file /\ written' = written
        /\ proc' = [proc EXCEPT ![p].pc = "rename"] /\ proc[p] \in ProcStates
    BY <1>8, <1>t DEF WriteTemporary, TypeOK
  <2>2. /\ proc' \in [Processes -> ProcStates]
        /\ \A q \in Processes \ {p} : proc'[q] = proc[q]
    BY <2>1, <1>t DEF TypeOK, ProcStates
  <2>3. CommandInv(proc'[p], clock)
    BY <2>1, <1>t DEF CommandInv, CacheInv, DatedNoLaterThanSent, CacheAnswersAreRecent, TypeOK, ProcStates
  <2> QED
    BY <2>1, <2>2, <2>3, <1>t, OneCommandMoves DEF TypeOK
<1>9. ASSUME NEW p \in Processes, Rename(p) \/ WriteFails(p)
      PROVE  CacheInv'
  <2>1. /\ proc[p].temp \in Files /\ proc[p].temp.got \in Times
        /\ file \in Files /\ written \in BOOLEAN
        /\ proc[p].temp.kind = "whole" => proc[p].temp.stamp <= proc[p].temp.got
    BY <1>t DEF TypeOK, ProcStates, Files, CacheInv, DatedNoLaterThanSent
  <2> QED
    BY <1>6, <1>9, <1>t, <2>1 DEF Rename, WriteFails, Sources
<1>10. ASSUME NEW p \in Processes, Dies(p)
       PROVE  CacheInv'
  <2>1. /\ proc' \in [Processes -> ProcStates]
        /\ \A q \in Processes \ {p} : proc'[q] = proc[q]
        /\ CommandInv(proc'[p], clock)
    BY <1>10, <1>t, IdleTyped DEF Dies, TypeOK, Idle, Absent, CommandInv
  <2> QED
    BY <1>10, <1>t, <2>1, OneCommandMoves DEF Dies, TypeOK
<1> QED
  BY <1>1, <1>2, <1>3, <1>4, <1>5, <1>7, <1>8, <1>9, <1>10 DEF Next

\* A catalogue answered from the cache was sent by the API at most TTL before
\* the command began: Service.Countries dates a result with the time at which
\* it began, so that neither a slow fetch nor a late rename can make a cached
\* catalogue look newer than it is, whatever number of commands runs at once.
THEOREM Recency == Spec => []CacheAnswersAreRecent
<1>1. CacheInv => CacheAnswersAreRecent
  BY DEF CacheInv
<1> QED
  BY <1>1, CacheInvInit, CacheInvNext, PTL DEF Spec

\* FallbackInv for one command, given whether a catalogue has been written.
FallbackOf(r, w) ==
    /\ r.pc \in {"temporary", "rename"} => Readable(r.temp)
    /\ r.pc = "read" /\ r.hadCache => w
    /\ r.pc = "fetch" /\ r.hadCache => Readable(r.cached)
    /\ r.source = "error" => ~r.hadCache

\* FallbackInv command by command: what a step of p has to show.
LEMMA OneCommandFallsBack ==
  ASSUME FallbackInv,
         NEW p \in Processes,
         \A q \in Processes \ {p} : proc'[q] = proc[q],
         written => written',
         written' => Readable(file'),
         FallbackOf(proc'[p], written')
  PROVE  FallbackInv'
  <1>1. \A q \in Processes : FallbackOf(proc'[q], written')
    BY DEF FallbackInv, FallbackOf, OnceCachedNeverFails, At
  <1> QED
    BY <1>1 DEF FallbackInv, FallbackOf, OnceCachedNeverFails, At

\* No catalogue has been written before the first command.
LEMMA FallbackInit == Init => FallbackInv
<1> SUFFICES ASSUME Init PROVE FallbackInv
  OBVIOUS
<1>1. \A p \in Processes : proc[p].pc = "idle" /\ proc[p].source = "none"
  BY DEF Init, Idle
<1>2. ~written
  BY DEF Init
<1> QED
  BY <1>1, <1>2 DEF FallbackInv, OnceCachedNeverFails, At

\* If no catalogue is larger than what Read looks at, every step keeps a
\* readable catalogue at the path once there is one.
LEMMA FallbackNext ==
  ASSUME \A size \in Sizes : size <= ReadLimit
  PROVE  TypeOK /\ FallbackInv /\ [Next]_vars => FallbackInv'
<1> SUFFICES ASSUME TypeOK, FallbackInv, [Next]_vars
             PROVE  FallbackInv'
  OBVIOUS
<1>1. /\ proc \in [Processes -> ProcStates] /\ written \in BOOLEAN
      /\ written => Readable(file)
      /\ \A p \in Processes : proc[p] \in ProcStates /\ FallbackOf(proc[p], written)
  BY DEF TypeOK, FallbackInv, FallbackOf, OnceCachedNeverFails, At
<1>2. CASE UNCHANGED vars
  BY <1>2 DEF vars, FallbackInv, OnceCachedNeverFails, At
<1>3. CASE Tick
  BY <1>3 DEF Tick, FallbackInv, OnceCachedNeverFails, At
<1>4. ASSUME NEW p \in Processes, NEW refresh \in BOOLEAN, TakeTime(p, refresh)
      PROVE  FallbackInv'
  <2> DEFINE r == [Idle EXCEPT !.pc = "read", !.refresh = refresh, !.now = clock, !.hadCache = written]
  <2>1. r.pc = "read" /\ r.hadCache = written /\ r.source = "none"
    BY DEF Idle
  <2> HIDE DEF r
  <2>2. proc' = [proc EXCEPT ![p] = r] /\ UNCHANGED <<file, written>>
    BY <1>4 DEF TakeTime, r
  <2>3. FallbackOf(r, written)
    BY <2>1 DEF FallbackOf
  <2> QED
    BY <1>1, <2>2, <2>3, OneCommandFallsBack
<1>5. ASSUME NEW p \in Processes, NEW source \in Sources, NEW got \in Times, Returns(p, source, got),
             source = "error" => ~proc[p].hadCache, written => written', written' => Readable(file')
      PROVE  FallbackInv'
  <2> DEFINE r == [Idle EXCEPT !.source = source, !.got = got, !.now = proc[p].now, !.hadCache = proc[p].hadCache]
  <2>1. r.pc = "idle" /\ r.hadCache = proc[p].hadCache /\ r.source = source
    BY DEF Idle
  <2> HIDE DEF r
  <2>2. proc' = [proc EXCEPT ![p] = r]
    BY <1>5 DEF Returns, r
  <2>3. FallbackOf(r, written')
    BY <1>5, <2>1 DEF FallbackOf
  <2> QED
    BY <1>1, <1>5, <2>2, <2>3, OneCommandFallsBack
<1>6. ASSUME NEW p \in Processes, ReadCache(p) PROVE FallbackInv'
  <2>1. At(p, "read") /\ UNCHANGED <<file, written>> /\ file.got \in Times
    BY <1>6 DEF ReadCache, TypeOK, Files
  <2>2. CASE Returns(p, "cache", file.got)
    BY <1>1, <1>5, <2>1, <2>2 DEF Sources
  <2>3. CASE proc' = [proc EXCEPT ![p].pc = "fetch", ![p].cached = file]
    <3>1. /\ proc'[p].pc = "fetch" /\ proc'[p].cached = file /\ proc'[p].hadCache = proc[p].hadCache
          /\ proc'[p].source = proc[p].source
          /\ \A q \in Processes \ {p} : proc'[q] = proc[q]
      BY <1>1, <2>3 DEF ProcStates
    <3>2. FallbackOf(proc'[p], written')
      BY <1>1, <2>1, <3>1 DEF FallbackOf, At
    <3> QED
      BY <1>1, <2>1, <3>1, <3>2, OneCommandFallsBack
  <2> QED
    BY <1>6, <2>2, <2>3 DEF ReadCache
<1>7. ASSUME NEW p \in Processes, FetchSucceeds(p) PROVE FallbackInv'
  <2>1. UNCHANGED <<file, written>>
    BY <1>7 DEF FetchSucceeds
  <2>2. PICK size \in Sizes :
          proc' = [proc EXCEPT ![p].pc = "temporary",
                     ![p].temp = [kind |-> "whole", stamp |-> proc[p].now, got |-> clock, size |-> size]]
    BY <1>7 DEF FetchSucceeds
  <2>3. /\ proc'[p].pc = "temporary" /\ proc'[p].source = proc[p].source /\ proc'[p].hadCache = proc[p].hadCache
        /\ proc'[p].temp = [kind |-> "whole", stamp |-> proc[p].now, got |-> clock, size |-> size]
        /\ \A q \in Processes \ {p} : proc'[q] = proc[q]
    BY <1>1, <2>2 DEF ProcStates
  <2>4. FallbackOf(proc'[p], written')
    BY <1>1, <2>3 DEF FallbackOf, Readable
  <2> QED
    BY <1>1, <2>1, <2>3, <2>4, OneCommandFallsBack
<1>8. ASSUME NEW p \in Processes, FetchFails(p) PROVE FallbackInv'
  <2>1. At(p, "fetch") /\ UNCHANGED <<file, written>> /\ proc[p].cached.got \in Times /\ 0 \in Times
    BY <1>1, <1>8, CacheAssumption DEF FetchFails, ProcStates, Files
  <2>2. CASE Readable(proc[p].cached)
    BY <1>1, <1>5, <1>8, <2>1, <2>2 DEF FetchFails, Sources
  <2>3. CASE ~Readable(proc[p].cached)
    <3>1. ~proc[p].hadCache
      BY <1>1, <2>1, <2>3 DEF FallbackOf, At
    <3> QED
      BY <1>1, <1>5, <1>8, <2>1, <2>3, <3>1 DEF FetchFails, Sources
  <2> QED
    BY <2>2, <2>3
<1>9. ASSUME NEW p \in Processes, WriteTemporary(p) PROVE FallbackInv'
  <2>1. At(p, "temporary") /\ UNCHANGED <<file, written>> /\ proc' = [proc EXCEPT ![p].pc = "rename"]
    BY <1>9 DEF WriteTemporary
  <2>2. /\ proc'[p].pc = "rename" /\ proc'[p].source = proc[p].source /\ proc'[p].hadCache = proc[p].hadCache
        /\ proc'[p].temp = proc[p].temp /\ \A q \in Processes \ {p} : proc'[q] = proc[q]
    BY <1>1, <2>1 DEF ProcStates
  <2>3. FallbackOf(proc'[p], written')
    BY <1>1, <2>1, <2>2 DEF FallbackOf, At
  <2> QED
    BY <1>1, <2>1, <2>2, <2>3, OneCommandFallsBack
<1>10. ASSUME NEW p \in Processes, Rename(p) \/ WriteFails(p) PROVE FallbackInv'
  <2>1. proc[p].temp.got \in Times /\ Readable(proc[p].temp)
    BY <1>1, <1>10 DEF Rename, WriteFails, At, FallbackOf, ProcStates, Files
  <2>2. (written => written') /\ (written' => Readable(file')) /\ Returns(p, "network", proc[p].temp.got)
    BY <1>1, <1>10, <2>1 DEF Rename, WriteFails
  <2> QED
    BY <1>5, <2>1, <2>2 DEF Sources
<1>11. ASSUME NEW p \in Processes, Dies(p) PROVE FallbackInv'
  <2>1. FallbackOf(Idle, written)
    BY DEF FallbackOf, Idle
  <2>2. proc' = [proc EXCEPT ![p] = Idle] /\ UNCHANGED <<file, written>>
    BY <1>11 DEF Dies
  <2> QED
    BY <1>1, <2>1, <2>2, OneCommandFallsBack
<1> QED
  BY <1>2, <1>3, <1>4, <1>6, <1>7, <1>8, <1>9, <1>10, <1>11 DEF Next

\* Once a catalogue was cached, a command that starts later never fails for
\* want of the API, whatever number of commands replaces the file or dies at
\* it, provided that catalogues fit into what cache.Countries.Read looks at.
THEOREM Fallback ==
  ASSUME \A size \in Sizes : size <= ReadLimit
  PROVE  Spec => []OnceCachedNeverFails
<1>1. FallbackInv => OnceCachedNeverFails
  BY DEF FallbackInv
<1>2. CacheInv => TypeOK
  BY DEF CacheInv
<1> QED
  BY <1>1, <1>2, CacheInvInit, CacheInvNext, FallbackInit, FallbackNext, PTL DEF Spec
=============================================================================
