-------------------- MODULE CredentialTransactionProofs --------------------
(* All or nothing for the credential pair, for every number of processes   *)
(* and accounts.                                                           *)
EXTENDS CredentialTransaction, TLAPS

\* With an empty Keychain and no command running the invariant holds.
THEOREM CredentialInit == Init => CredentialInv
<1> SUFFICES ASSUME Init PROVE CredentialInv
  OBVIOUS
<1>1. NoPair \in [Kinds -> Values] /\ Matched(NoPair)
  BY DEF NoPair, Values, Matched, Kinds
<1>2. Idle \in ClientStates
  BY <1>1 DEF Idle, ClientStates, ControlPoints, Operations, Values, Results
<1>3. TypeOK
  BY <1>1, <1>2 DEF Init, TypeOK
<1>4. HolderOnly /\ AloneMeansAlone /\ LateIsUnsettled /\ MixedIsExplained
  BY <1>1 DEF Init, HolderOnly, AloneMeansAlone, LateIsUnsettled, MixedIsExplained, At, Idle
<1>5. CommandsProgress
  BY DEF Init, CommandsProgress, Progress, Idle
<1>6. FailureRestores /\ SuccessSettles /\ StatusIsCurrent
  BY DEF Init, FailureRestores, SuccessSettles, StatusIsCurrent, Succeeds, At, Idle
<1> QED
  BY <1>3, <1>4, <1>5, <1>6 DEF CredentialInv

\* What a command about to return may report of the pair it leaves.
Reported(cs) ==
    cs.pc = "release" =>
        /\ cs.errors # {} /\ "incomplete" \notin cs.errors => ~alone \/ item = entry
        /\ cs.errors = {} /\ cs.op # "inspect" => ~alone \/ item = [k \in Kinds |-> cs.login]
        /\ cs.result # "none" => ~alone \/ cs.result = Status(item)

\* A step of the process c that holds the lock and keeps it: the others are
\* idle, so only c's new locals cs have to fit the new pair.
LEMMA HolderStep ==
  ASSUME CredentialInv, NEW c \in Clients, lock = c, lock' = c,
         NEW cs \in ClientStates, Local(c, cs), cs.pc # "idle",
         item' \in [Kinds -> Values],
         UNCHANGED <<late, entry, alone, unsettled>>,
         Progress(cs)', Reported(cs)'
  PROVE  CredentialInv'
<1>1. client' = [client EXCEPT ![c] = cs] /\ client \in [Clients -> ClientStates]
  BY DEF Local, CredentialInv, TypeOK
<1>2. TypeOK'
  BY <1>1 DEF CredentialInv, TypeOK
<1>3. \A d \in Clients : d # c => client'[d] = client[d] /\ client[d].pc = "idle"
  BY <1>1 DEF CredentialInv, HolderOnly, At
<1>4. client'[c] = cs
  BY <1>1
<1>5. HolderOnly' /\ AloneMeansAlone' /\ LateIsUnsettled' /\ MixedIsExplained'
  BY <1>3, ClientAssumption DEF CredentialInv, HolderOnly, AloneMeansAlone, LateIsUnsettled, MixedIsExplained, At
<1>6. \A d \in Clients : Progress(client[d])'
  <2> SUFFICES ASSUME NEW d \in Clients, d # c PROVE Progress(client[d])'
    BY <1>4 DEF Progress
  <2>1. client'[d] = client[d] /\ client[d].pc = "idle" /\ Progress(client[d])
    BY <1>3 DEF CredentialInv, CommandsProgress
  <2> QED BY <2>1 DEF Progress
<1>7. SuccessSettles' /\ StatusIsCurrent'
  BY <1>3, <1>4 DEF SuccessSettles, StatusIsCurrent, Succeeds, Settled, At, Reported
<1>8. FailureRestores'
  <2> SUFFICES ASSUME NEW d \in Clients, client'[d].pc = "release", NEW reply \in Replies(client'[d]),
                      reply.errors # {}, "incomplete" \notin reply.errors, alone'
               PROVE  item' = entry' \/ (reply.errors = {"lock"} /\ Settled(d)')
    BY DEF FailureRestores, At, Replies
  <2>1. client'[d] = cs /\ cs.pc = "release"
    BY <1>3, <1>4
  <2>2. reply.errors = cs.errors \/ reply.errors = cs.errors \cup {"lock"}
    BY <2>1 DEF Replies
  <2>3. CASE cs.errors # {}
    BY <2>1, <2>2, <2>3 DEF Reported
  <2>4. CASE cs.errors = {} /\ cs.op # "inspect"
    <3>1. item' = [k \in Kinds |-> cs.login]
      BY <2>1, <2>4 DEF Reported
    <3> QED
      BY <2>1, <2>2, <2>4, <3>1 DEF Settled
  <2>5. CASE cs.op = "inspect"
    BY <2>1, <2>5 DEF Progress
  <2> QED
    BY <2>3, <2>4, <2>5
<1> QED
  BY <1>2, <1>5, <1>6, <1>7, <1>8 DEF CredentialInv, CommandsProgress

\* What the invariant says of a process inside a command: it has the lock,
\* and its locals are typed and fit the pair.
LEMMA HolderFacts ==
  ASSUME CredentialInv, NEW c \in Clients, ~At(c, "idle")
  PROVE  /\ lock = c
         /\ client[c] \in ClientStates
         /\ item \in [Kinds -> Values] /\ entry \in [Kinds -> Values]
         /\ Progress(client[c])
  BY DEF CredentialInv, HolderOnly, TypeOK, CommandsProgress

\* Values of Keychain calls are values.
LEMMA OutcomeValues ==
  ASSUME TypeOK, NEW cs \in ClientStates, NEW k \in Kinds,
         NEW o \in ChangeOutcomes(cs, k) \cup RestoreOutcomes(cs, k)
  PROVE  o.value \in Values
  BY DEF TypeOK, ClientStates, ChangeOutcomes, RestoreOutcomes, PutOutcomes, DeleteOutcomes, Outcome, Values

\* Provisioning and the two reads change nothing but the locals.
LEMMA ReadPreserves ==
  ASSUME CredentialInv, NEW c \in Clients, Provision(c) \/ CaptureToken(c) \/ CaptureKey(c)
  PROVE  CredentialInv'
<1>1. ~At(c, "idle")
  BY DEF Provision, CaptureToken, CaptureKey, At
<1>2. /\ lock = c /\ client[c] \in ClientStates /\ item \in [Kinds -> Values]
      /\ entry \in [Kinds -> Values] /\ Progress(client[c])
  BY <1>1, HolderFacts
<1>3. UNCHANGED <<item, lock, late, entry, alone, unsettled>>
  BY DEF Provision, CaptureToken, CaptureKey
<1>4. client[c].pc \in {"provision", "readToken", "readKey"}
  BY DEF Provision, CaptureToken, CaptureKey, At
<1>5. ASSUME NEW cs \in ClientStates, Local(c, cs), cs.pc # "idle", Progress(cs), Reported(cs)
      PROVE  CredentialInv'
  <2>1. Progress(cs)' /\ Reported(cs)'
    BY <1>3, <1>5 DEF Progress, Reported, Matched, Status
  <2> QED BY <1>2, <1>3, <1>5, <2>1, HolderStep
<1>6. CASE ReadFailed(c) \/ Local(c, [client[c] EXCEPT !.pc = "release", !.errors = {"provision"}])
  <2>1. PICK e \in {"provision", "transaction", "read"} :
           Local(c, [client[c] EXCEPT !.pc = "release", !.errors = {e}])
    BY <1>6 DEF ReadFailed
  <2> DEFINE cs == [client[c] EXCEPT !.pc = "release", !.errors = {e}]
  <2>2. cs \in ClientStates /\ cs.pc # "idle"
    BY <1>2 DEF ClientStates, ControlPoints, Errors
  <2>3. Progress(cs) /\ Reported(cs)
    BY <1>2, <1>4 DEF Progress, Reported, ClientStates
  <2> QED BY <1>5, <2>1, <2>2, <2>3
<1>7. CASE At(c, "provision") /\ Local(c, [client[c] EXCEPT !.pc = "readToken"])
  <2> DEFINE cs == [client[c] EXCEPT !.pc = "readToken"]
  <2>2. cs \in ClientStates /\ cs.pc # "idle"
    BY <1>2 DEF ClientStates, ControlPoints
  <2>3. Progress(cs) /\ Reported(cs)
    BY <1>2, <1>7 DEF Progress, Reported, ClientStates, At
  <2> QED BY <1>5, <1>7, <2>2, <2>3
<1>8. CASE At(c, "readToken") /\ Local(c, [client[c] EXCEPT !.pc = "readKey", !.before["token"] = item["token"]])
  <2> DEFINE cs == [client[c] EXCEPT !.pc = "readKey", !.before["token"] = item["token"]]
  <2>1. client[c].before \in [Kinds -> Values] /\ item["token"] \in Values
    BY <1>2 DEF ClientStates, Kinds
  <2>2. cs \in ClientStates /\ cs.pc # "idle" /\ cs.before["token"] = item["token"]
    BY <1>2, <2>1 DEF ClientStates, ControlPoints, Kinds
  <2>3. Progress(cs) /\ Reported(cs)
    BY <1>2, <1>8, <2>2 DEF Progress, Reported, ClientStates, At
  <2> QED BY <1>5, <1>8, <2>2, <2>3
<1>9. CASE At(c, "readKey") /\ ~ReadFailed(c)
  <2> DEFINE before == [client[c].before EXCEPT !["key"] = item["key"]]
  <2>1. before \in [Kinds -> Values] /\ before["key"] = item["key"] /\ before["token"] = client[c].before["token"]
    BY <1>2 DEF ClientStates, Kinds
  <2>2. alone => before = entry /\ before = item
    <3>1. alone => before["token"] = entry["token"] /\ before["key"] = entry["key"] /\ item = entry
      BY <1>2, <1>9, <2>1 DEF Progress, At
    <3> QED BY <1>2, <2>1, <3>1 DEF Kinds
  <2> HIDE DEF before
  <2>3. CASE client[c].op = "inspect"
    <3> DEFINE cs == [client[c] EXCEPT !.pc = "release", !.before = before, !.result = Status(before)]
    <3>1. cs \in ClientStates /\ cs.pc # "idle"
      BY <1>2, <2>1 DEF ClientStates, ControlPoints, Results, Status
    <3>2. Progress(cs) /\ Reported(cs)
      BY <1>2, <1>9, <2>2, <2>3 DEF Progress, Reported, ClientStates, At
    <3>3. Local(c, cs)
      BY <1>9, <2>3 DEF CaptureKey, before, At, Provision, CaptureToken
    <3> QED BY <1>5, <3>1, <3>2, <3>3
  <2>4. CASE client[c].op = "logout" /\ before = NoPair
    <3> DEFINE cs == [client[c] EXCEPT !.pc = "release", !.before = before]
    <3>1. cs \in ClientStates /\ cs.pc # "idle"
      BY <1>2, <2>1 DEF ClientStates, ControlPoints
    <3>2. Progress(cs) /\ Reported(cs)
      BY <1>2, <1>9, <2>2, <2>4 DEF Progress, Reported, ClientStates, At, NoPair
    <3>3. Local(c, cs)
      BY <1>9, <2>4 DEF CaptureKey, before, At, Provision, CaptureToken
    <3> QED BY <1>5, <3>1, <3>2, <3>3
  <2>5. CASE client[c].op # "inspect" /\ ~(client[c].op = "logout" /\ before = NoPair)
    <3> DEFINE cs == [client[c] EXCEPT !.pc = "writeToken", !.before = before]
    <3>1. cs \in ClientStates /\ cs.pc # "idle"
      BY <1>2, <2>1 DEF ClientStates, ControlPoints
    <3>2. Progress(cs) /\ Reported(cs)
      BY <1>2, <1>9, <2>2, <2>5 DEF Progress, Reported, ClientStates, At
    <3>3. Local(c, cs)
      BY <1>9, <2>5 DEF CaptureKey, before, At, Provision, CaptureToken
    <3> QED BY <1>5, <3>1, <3>2, <3>3
  <2> QED BY <2>3, <2>4, <2>5
<1> QED
  BY <1>6, <1>7, <1>8, <1>9 DEF Provision, CaptureToken, CaptureKey

\* The two changes and the two restores: what each leaves of the pair.
LEMMA WritePreserves ==
  ASSUME CredentialInv, NEW c \in Clients,
         ChangeToken(c) \/ ChangeKey(c) \/ RestoreToken(c) \/ RestoreKey(c)
  PROVE  CredentialInv'
<1>1. client[c].pc \in {"writeToken", "writeKey", "restoreToken", "restoreKey"} /\ ~At(c, "idle")
  BY DEF ChangeToken, ChangeKey, RestoreToken, RestoreKey, At
<1>2. /\ lock = c /\ client[c] \in ClientStates /\ item \in [Kinds -> Values]
      /\ entry \in [Kinds -> Values] /\ Progress(client[c]) /\ TypeOK
  BY <1>1, HolderFacts DEF CredentialInv
<1>3. UNCHANGED <<lock, late, entry, alone, unsettled>>
  BY DEF ChangeToken, ChangeKey, RestoreToken, RestoreKey
<1>4. ASSUME NEW cs \in ClientStates, Local(c, cs), cs.pc # "idle", item' \in [Kinds -> Values],
             Progress(cs)', Reported(cs)'
      PROVE  CredentialInv'
  BY <1>2, <1>3, <1>4, HolderStep
<1>5. ASSUME NEW kind \in Kinds, NEW v \in Values, item' = [item EXCEPT ![kind] = v]
      PROVE  /\ item' \in [Kinds -> Values]
             /\ item'[kind] = v /\ \A other \in Kinds \ {kind} : item'[other] = item[other]
  BY <1>2, <1>5 DEF Kinds
<1>6. client[c].op \in {"login", "logout"} /\ client[c].login \in Values
      /\ (client[c].op = "logout" => client[c].login = Absent)
  BY <1>1, <1>2 DEF Progress, ClientStates, Operations
<1>7. ASSUME NEW kind \in Kinds, NEW o \in ChangeOutcomes(client[c], kind), o.err = "nil",
             alone, item[kind] = entry[kind], client[c].before = entry
      PROVE  o.value = client[c].login
  BY <1>6, <1>7 DEF ChangeOutcomes, PutOutcomes, DeleteOutcomes, Outcome
<1>8. ASSUME NEW kind \in Kinds, NEW o \in RestoreOutcomes(client[c], kind), o.err # "failed"
      PROVE  o.value = client[c].before[kind]
  BY <1>8 DEF RestoreOutcomes, PutOutcomes, DeleteOutcomes, Outcome
<1>9. CASE ChangeToken(c)
  <2>1. PICK o \in ChangeOutcomes(client[c], "token") :
           /\ item' = [item EXCEPT !["token"] = o.value]
           /\ Local(c, [client[c] EXCEPT !.pc = IF o.err = "nil" THEN "writeKey" ELSE "restoreToken"])
    BY <1>9 DEF ChangeToken
  <2>a. PICK cs : cs = [client[c] EXCEPT !.pc = IF o.err = "nil" THEN "writeKey" ELSE "restoreToken"]
    OBVIOUS
  <2>2. /\ item' \in [Kinds -> Values] /\ item'["token"] = o.value /\ item'["key"] = item["key"]
    BY <1>2, <1>5, <2>1, OutcomeValues DEF Kinds
  <2>3. cs \in ClientStates /\ cs.pc # "idle"
    BY <2>a, <1>2 DEF ClientStates, ControlPoints
  <2>4. client[c].pc = "writeToken"
    BY <1>9 DEF ChangeToken, At
  <2>5. alone /\ o.err = "nil" => o.value = client[c].login
    BY <1>2, <1>7, <2>1, <2>4 DEF Progress, Kinds
  <2>6. Progress(cs)' /\ Reported(cs)'
    BY <2>a, <1>2, <1>3, <2>2, <2>4, <2>5 DEF Progress, Reported, ClientStates, Matched
  <2> QED BY <2>a, <1>4, <2>1, <2>2, <2>3, <2>6
<1>10. CASE ChangeKey(c)
  <2>1. PICK o \in ChangeOutcomes(client[c], "key") :
           /\ item' = [item EXCEPT !["key"] = o.value]
           /\ Local(c, [client[c] EXCEPT !.pc = IF o.err = "nil" THEN "release" ELSE "restoreToken"])
    BY <1>10 DEF ChangeKey
  <2>a. PICK cs : cs = [client[c] EXCEPT !.pc = IF o.err = "nil" THEN "release" ELSE "restoreToken"]
    OBVIOUS
  <2>2. /\ item' \in [Kinds -> Values] /\ item'["key"] = o.value /\ item'["token"] = item["token"]
    BY <1>2, <1>5, <2>1, OutcomeValues DEF Kinds
  <2>3. cs \in ClientStates /\ cs.pc # "idle"
    BY <2>a, <1>2 DEF ClientStates, ControlPoints
  <2>4. client[c].pc = "writeKey"
    BY <1>10 DEF ChangeKey, At
  <2>5. alone /\ o.err = "nil" => o.value = client[c].login /\ item["token"] = client[c].login
    BY <1>2, <1>7, <2>1, <2>4 DEF Progress, Kinds
  <2>6. alone /\ o.err = "nil" => item' = [x \in Kinds |-> client[c].login]
    BY <2>a, <2>2, <2>5 DEF Kinds
  <2>7. Progress(cs)' /\ Reported(cs)'
    BY <2>a, <1>2, <1>3, <2>2, <2>4, <2>5, <2>6 DEF Progress, Reported, ClientStates, Matched
  <2> QED BY <2>a, <1>4, <2>1, <2>2, <2>3, <2>7
<1>11. CASE RestoreToken(c)
  <2>1. PICK o \in RestoreOutcomes(client[c], "token") :
           /\ item' = [item EXCEPT !["token"] = o.value]
           /\ Local(c, [client[c] EXCEPT !.pc = "restoreKey", !.failed = (o.err = "failed")])
    BY <1>11 DEF RestoreToken
  <2>a. PICK cs : cs = [client[c] EXCEPT !.pc = "restoreKey", !.failed = (o.err = "failed")]
    OBVIOUS
  <2>2. /\ item' \in [Kinds -> Values] /\ item'["token"] = o.value /\ item'["key"] = item["key"]
    BY <1>2, <1>5, <2>1, OutcomeValues DEF Kinds
  <2>3. cs \in ClientStates /\ cs.pc # "idle" /\ (cs.failed <=> o.err = "failed")
    BY <2>a, <1>2 DEF ClientStates, ControlPoints
  <2>4. client[c].pc = "restoreToken"
    BY <1>11 DEF RestoreToken, At
  <2>5. o.err # "failed" => o.value = client[c].before["token"]
    BY <1>8, <2>1 DEF Kinds
  <2>6. Progress(cs)' /\ Reported(cs)'
    BY <2>a, <1>2, <1>3, <2>2, <2>3, <2>4, <2>5 DEF Progress, Reported, ClientStates, Matched
  <2> QED BY <2>a, <1>4, <2>1, <2>2, <2>3, <2>6
<1>12. CASE RestoreKey(c)
  <2> DEFINE errs(o) == {"transaction"} \cup
                 (IF client[c].failed \/ o.err = "failed" THEN {"incomplete"} ELSE {})
  <2>1. PICK o \in RestoreOutcomes(client[c], "key") :
           /\ item' = [item EXCEPT !["key"] = o.value]
           /\ Local(c, [client[c] EXCEPT !.pc = "release", !.errors = errs(o)])
    BY <1>12 DEF RestoreKey
  <2>a. PICK cs : cs = [client[c] EXCEPT !.pc = "release", !.errors = errs(o)]
    OBVIOUS
  <2>2. /\ item' \in [Kinds -> Values] /\ item'["key"] = o.value /\ item'["token"] = item["token"]
    BY <1>2, <1>5, <2>1, OutcomeValues DEF Kinds
  <2>3. cs \in ClientStates /\ cs.pc # "idle" /\ cs.errors = errs(o)
    BY <2>a, <1>2 DEF ClientStates, ControlPoints, Errors
  <2>4. client[c].pc = "restoreKey"
    BY <1>12 DEF RestoreKey, At
  <2>5. o.err # "failed" => o.value = client[c].before["key"]
    BY <1>8, <2>1 DEF Kinds
  <2>6. "incomplete" \notin errs(o) => ~client[c].failed /\ o.err # "failed"
    OBVIOUS
  <2>7. alone /\ "incomplete" \notin errs(o) => item' = entry
    <3>1. alone /\ "incomplete" \notin errs(o) =>
             item'["key"] = entry["key"] /\ item'["token"] = entry["token"]
      BY <2>a, <1>2, <2>2, <2>4, <2>5, <2>6 DEF Progress
    <3> QED BY <1>2, <2>2, <3>1 DEF Kinds
  <2>8. cs.result = "none" /\ cs.errors # {} /\ cs.op # "inspect" /\ cs.op = client[c].op /\ cs.login = client[c].login
    BY <2>a, <1>2, <2>4 DEF Progress, ClientStates
  <2>9. Progress(cs)' /\ Reported(cs)'
    BY <2>a, <1>2, <1>3, <2>3, <2>4, <2>7, <2>8 DEF Progress, Reported, ClientStates, Matched
  <2> QED BY <2>a, <1>4, <2>1, <2>2, <2>3, <2>9
<1> QED
  BY <1>9, <1>10, <1>11, <1>12

\* Taking the free lock: nobody is inside a command, the pair that is there
\* becomes the one to compare with.
LEMMA AcquirePreserves ==
  ASSUME CredentialInv, NEW c \in Clients, NEW op \in Operations, NEW l \in Values, Acquire(c, op, l)
  PROVE  CredentialInv'
<1>1. PICK cs : cs = [Idle EXCEPT !.pc = IF op = "login" THEN "provision" ELSE "readToken", !.op = op, !.login = l]
  OBVIOUS
<1>2. /\ client' = [client EXCEPT ![c] = cs] /\ lock = NoClient /\ lock' = c
      /\ entry' = item /\ alone' = (late = {}) /\ UNCHANGED <<item, late, unsettled>>
      /\ (op = "login") <=> (l # Absent)
  BY <1>1 DEF Acquire, Local
<1>3. NoPair \in [Kinds -> Values]
  BY DEF NoPair, Values
<1>4. cs \in ClientStates /\ cs.pc \in {"provision", "readToken"} /\ cs.op = op /\ cs.login = l
      /\ cs.errors = {} /\ cs.result = "none"
  BY <1>1, <1>3 DEF Idle, ClientStates, ControlPoints, Operations, Results
<1>5. \A d \in Clients : client[d].pc = "idle"
  BY <1>2, ClientAssumption DEF CredentialInv, HolderOnly, At
<1>6. client'[c] = cs /\ \A d \in Clients : d # c => client'[d] = client[d]
  BY <1>2 DEF CredentialInv, TypeOK
<1>7. TypeOK'
  BY <1>2, <1>4 DEF CredentialInv, TypeOK
<1>8. HolderOnly' /\ AloneMeansAlone' /\ LateIsUnsettled' /\ MixedIsExplained'
  BY <1>2, <1>5, <1>6, ClientAssumption
  DEF CredentialInv, HolderOnly, AloneMeansAlone, LateIsUnsettled, MixedIsExplained, At
<1>9. Progress(cs)'
  BY <1>2, <1>4 DEF Progress, CredentialInv, MixedIsExplained, LateIsUnsettled, Matched
<1>10. \A d \in Clients : d # c => Progress(client[d])'
  BY <1>2, <1>5, <1>6 DEF Progress, CredentialInv, CommandsProgress
<1>11. CommandsProgress'
  <2>1. Progress(client[c])'
    BY <1>6, <1>9 DEF Progress
  <2> QED BY <1>10, <2>1 DEF CommandsProgress
<1>12. FailureRestores' /\ SuccessSettles' /\ StatusIsCurrent'
  BY <1>4, <1>5, <1>6 DEF FailureRestores, SuccessSettles, StatusIsCurrent, Succeeds, At
<1> QED
  BY <1>7, <1>8, <1>11, <1>12 DEF CredentialInv

\* Returning or dying: everybody is idle afterwards, and a pair that does not
\* belong together is accounted for.
LEMMA LeavePreserves ==
  ASSUME CredentialInv, NEW c \in Clients, Release(c) \/ Crash(c)
  PROVE  CredentialInv'
<1>1. ~At(c, "idle") /\ lock' = NoClient /\ client' = [client EXCEPT ![c] = Idle]
      /\ UNCHANGED <<item, entry, alone>>
  BY DEF Release, Crash, Local, At
<1>2. /\ lock = c /\ client[c] \in ClientStates /\ item \in [Kinds -> Values]
      /\ entry \in [Kinds -> Values] /\ Progress(client[c])
  BY <1>1, HolderFacts
<1>3. NoPair \in [Kinds -> Values]
  BY DEF NoPair, Values
<1>4. Idle \in ClientStates /\ Idle.pc = "idle" /\ Idle.errors = {} /\ Idle.result = "none"
      /\ Idle.op # "login" /\ Idle.login = Absent
  BY <1>3 DEF Idle, ClientStates, ControlPoints, Operations, Values, Results
<1>5. \A d \in Clients : client'[d].pc = "idle"
  BY <1>1, <1>2, <1>4 DEF CredentialInv, TypeOK, HolderOnly, At
<1>6. InProgress(client[c]) \subseteq [kind : Kinds, value : Values]
  BY <1>2 DEF InProgress, ClientStates, Kinds
<1>7. late' \subseteq [kind : Kinds, value : Values] /\ unsettled' \in BOOLEAN
  BY <1>6 DEF Release, Crash, CredentialInv, TypeOK
<1>8. TypeOK'
  BY <1>1, <1>4, <1>7 DEF CredentialInv, TypeOK
<1>9. LateIsUnsettled'
  <2>1. CASE Release(c)
    BY <1>2, <2>1, ClientAssumption DEF Release, CredentialInv, LateIsUnsettled, AloneMeansAlone
  <2>2. CASE Crash(c)
    BY <2>2 DEF Crash, CredentialInv, LateIsUnsettled, InProgress
  <2> QED BY <2>1, <2>2
<1>10. MixedIsExplained'
  <2>1. CASE client[c].pc = "release"
    <3>1. alone /\ client[c].errors # {} /\ "incomplete" \notin client[c].errors => item = entry
      <4>1. [errors |-> client[c].errors, result |-> client[c].result] \in Replies(client[c])
        BY DEF Replies
      <4> SUFFICES ASSUME alone, client[c].errors # {}, "incomplete" \notin client[c].errors, item # entry
                   PROVE  FALSE
        OBVIOUS
      <4> DEFINE reply == [errors |-> client[c].errors, result |-> client[c].result]
      <4>5. reply.errors = client[c].errors
        OBVIOUS
      <4> HIDE DEF reply
      <4>2. client[c].errors = {"lock"}
        BY <2>1, <4>1, <4>5 DEF CredentialInv, FailureRestores, At, reply
      <4>3. client[c].errors \subseteq Errors
        BY <1>2 DEF ClientStates
      <4> QED
        BY <4>2, <4>3 DEF Errors
    <3>2. alone /\ client[c].errors = {} /\ client[c].op # "inspect" => Matched(item)
      BY <2>1 DEF CredentialInv, SuccessSettles, Succeeds, Settled, At, Matched, Kinds
    <3>3. alone /\ client[c].op = "inspect" => item = entry
      BY <1>2, <2>1 DEF Progress
    <3>4. unsettled \/ Matched(entry)
      BY <1>2, <2>1 DEF Progress
    <3>5. ~alone => unsettled
      BY <1>2, <2>1 DEF Progress
    <3>6. Matched(item) \/ unsettled \/ "incomplete" \in client[c].errors
      BY <3>1, <3>2, <3>3, <3>4, <3>5
    <3>7. Matched(item) \/ unsettled'
      <4>1. \A reply \in Replies(client[c]) :
                /\ reply.errors = {} => client[c].errors = {}
                /\ "incomplete" \in client[c].errors => "incomplete" \in reply.errors
        BY DEF Replies
      <4>2. CASE Release(c)
        BY <3>2, <3>6, <4>1, <4>2 DEF Release
      <4>3. CASE Crash(c)
        BY <3>6, <4>3 DEF Crash
      <4> QED
        BY <4>2, <4>3
    <3> QED BY <1>1, <3>7 DEF MixedIsExplained, Matched
  <2>2. CASE client[c].pc # "release"
    <3>1. Crash(c)
      BY <2>2 DEF Release, At
    <3>2. client[c].pc \in {"writeToken", "writeKey", "restoreToken", "restoreKey"} => unsettled'
      BY <3>1 DEF Crash
    <3>3. client[c].pc \in {"provision", "readToken", "readKey"} => unsettled \/ Matched(item)
      BY <1>2 DEF Progress
    <3>4. client[c].pc \in ControlPoints \ {"idle", "release"}
      BY <1>1, <1>2, <2>2 DEF ClientStates, At
    <3>5. Matched(item) \/ unsettled'
      BY <3>1, <3>2, <3>3, <3>4 DEF ControlPoints, Crash
    <3> QED BY <1>1, <3>5 DEF MixedIsExplained, Matched
  <2> QED BY <2>1, <2>2
<1>11. HolderOnly' /\ AloneMeansAlone'
  BY <1>1, <1>5 DEF HolderOnly, AloneMeansAlone, At
<1>12. CommandsProgress'
  <2> SUFFICES ASSUME NEW d \in Clients PROVE Progress(client[d])'
    BY DEF CommandsProgress
  <2>1. CASE d = c
    <3>1. client'[d] = Idle
      BY <1>1, <2>1 DEF CredentialInv, TypeOK
    <3> QED BY <1>4, <3>1 DEF Progress
  <2>2. CASE d # c
    <3>1. client'[d] = client[d] /\ client[d].pc = "idle" /\ Progress(client[d])
      BY <1>1, <1>2, <2>2 DEF CredentialInv, CommandsProgress, TypeOK, HolderOnly, At
    <3> QED BY <3>1 DEF Progress
  <2> QED BY <2>1, <2>2
<1>13. FailureRestores' /\ SuccessSettles' /\ StatusIsCurrent'
  BY <1>5 DEF FailureRestores, SuccessSettles, StatusIsCurrent, Succeeds, At
<1> QED
  BY <1>8, <1>9, <1>10, <1>11, <1>12, <1>13 DEF CredentialInv

\* A call left behind only disturbs a command that did not start alone, and
\* makes the pair unsettled.
LEMMA LatePreserves ==
  ASSUME CredentialInv, LateWrite
  PROVE  CredentialInv'
<1>1. PICK w \in late : item' = [item EXCEPT ![w.kind] = w.value] /\ late' = late \ {w}
  BY DEF LateWrite
<1>2. unsettled' = TRUE /\ UNCHANGED <<lock, client, entry, alone>>
  BY DEF LateWrite
<1>3. w.kind \in Kinds /\ w.value \in Values
  BY <1>1 DEF CredentialInv, TypeOK
<1>4. TypeOK'
  BY <1>1, <1>2, <1>3 DEF CredentialInv, TypeOK
<1>5. alone => \A c \in Clients : client[c].pc = "idle"
  BY <1>1, ClientAssumption DEF CredentialInv, HolderOnly, AloneMeansAlone, At
<1>6. HolderOnly' /\ AloneMeansAlone' /\ LateIsUnsettled' /\ MixedIsExplained'
  BY <1>1, <1>2 DEF CredentialInv, HolderOnly, AloneMeansAlone, LateIsUnsettled, MixedIsExplained, At
<1>7. CommandsProgress'
  BY <1>2, <1>5 DEF CredentialInv, CommandsProgress, Progress
<1>8. FailureRestores' /\ SuccessSettles' /\ StatusIsCurrent'
  BY <1>2, <1>5 DEF FailureRestores, SuccessSettles, StatusIsCurrent, Succeeds, At
<1> QED
  BY <1>4, <1>6, <1>7, <1>8 DEF CredentialInv

\* Every step, and every stuttering step, preserves the invariant.
THEOREM CredentialStep == CredentialInv /\ [Next]_vars => CredentialInv'
<1> SUFFICES ASSUME CredentialInv, [Next]_vars PROVE CredentialInv'
  OBVIOUS
<1>1. CASE Next
  BY <1>1, AcquirePreserves, ReadPreserves, WritePreserves, LeavePreserves, LatePreserves DEF Next
<1>2. CASE UNCHANGED vars
  BY <1>2 DEF vars, CredentialInv, TypeOK, HolderOnly, AloneMeansAlone, LateIsUnsettled, CommandsProgress,
     Progress, FailureRestores, SuccessSettles, StatusIsCurrent, MixedIsExplained, Succeeds, Settled, At,
     Matched, Status, Replies
<1> QED
  BY <1>1, <1>2

\* A Login or LogoutLocal that reports a failure, and no incomplete rollback,
\* has changed nothing, for every number of processes and accounts; if all it
\* reports is that the lock could not be released, it may have done everything.
THEOREM AllOrNothing == Spec => []FailureRestores
<1>1. CredentialInv => FailureRestores
  BY DEF CredentialInv
<1> QED
  BY <1>1, CredentialInit, CredentialStep, PTL DEF Spec

\* A Login or LogoutLocal that reports success has settled the pair, whatever
\* it was before.
THEOREM SuccessIsReal == Spec => []SuccessSettles
<1>1. CredentialInv => SuccessSettles
  BY DEF CredentialInv
<1> QED
  BY <1>1, CredentialInit, CredentialStep, PTL DEF Spec

\* Between commands a token and a key of different logins are stored together
\* only after a death, a late call or a reported incomplete rollback.
THEOREM MixedPairsAreExplained == Spec => []MixedIsExplained
<1>1. CredentialInv => MixedIsExplained
  BY DEF CredentialInv
<1> QED
  BY <1>1, CredentialInit, CredentialStep, PTL DEF Spec

\* What Inspect reports is the state of the pair when it returns, although it
\* reads the two items one after the other, unless a killed command had left
\* a call behind.
THEOREM InspectIsCurrent == Spec => []StatusIsCurrent
<1>1. CredentialInv => StatusIsCurrent
  BY DEF CredentialInv
<1> QED
  BY <1>1, CredentialInit, CredentialStep, PTL DEF Spec

=============================================================================
