---------------------------- MODULE CommandLine ----------------------------
(***************************************************************************)
(* The nordmac command (cmd/nordmac, package command): one user's          *)
(* invocations, one after the other.  An invocation parses its arguments,  *)
(* calls the services behind it and reports a result by an exit code and   *)
(* an error code.  Servers come from Recommendation, tokens and keys from  *)
(* Provisioning; what the credential and the tunnel transactions may       *)
(* return is what CredentialTransaction and ConnectionLifecycle show.      *)
(***************************************************************************)
EXTENDS Recommendation, Provisioning

CONSTANTS
    Words,      \* arguments that do not begin with a dash
    Assigned,   \* values after an equals sign
    FullNames,  \* FullNames[w]: the label and domain of a word with a dot in it
    MaxArgs     \* bound on the number of arguments after the command

ASSUME FullNameAssumption == \A w \in DOMAIN FullNames : IsHost(FullNames[w])

VARIABLES
    command,    \* the invocation
    recorded    \* the connection metadata: the place of a session, or None

vars == <<command, recorded, recommendation>>

ExitOK == 0
ExitUsage == 2
ExitNoMatch == 4
ExitNetwork == 5
ExitPrivilege == 6
ExitAuth == 7
ExitBusy == 8

\* The commands that take a query, and the flags of the others.
Queried == {"recommend", "plan", "connect"}

SimpleFlags ==
    [login |-> {"--json", "--token-stdin"}, status |-> {"--json"}, disconnect |-> {"--json"},
     reconnect |-> {"--json", "--fresh"}, logout |-> {"--json", "--local-only"},
     countries |-> {"--json", "--refresh"}]

Names == Queried \cup DOMAIN SimpleFlags \cup {"version", "help", "none", "unknown"}

-----------------------------------------------------------------------------
(* Arguments: a flag, a word, or an option with its value after an equals  *)
(* sign.                                                                   *)

Flag(name) == [flag |-> name, text |-> ""]
Word(text) == [flag |-> "", text |-> text]
Assign(option, text) == [flag |-> option, text |-> text]

HasDash(arg) == arg.flag # ""
Helps(arg) == arg.flag \in {"--help", "-h"}

\* What the user may write after the name of a command.
QueryArguments ==
    {Flag(f) : f \in {"--json", "--help", "--city", "--server", "--other"}}
      \cup {Word(w) : w \in Words}
      \cup {Assign("--city=", w) : w \in Assigned} \cup {Assign("--server=", w) : w \in Assigned}

SimpleArguments ==
    {Flag(f) : f \in {"--json", "-h", "--fresh", "--local-only", "--token-stdin", "--refresh"}}
      \cup {Word(" ")}

ArgumentsOf(name) ==
    CASE name = "none" -> {<<>>}
      [] name \in Queried -> SeqOf(QueryArguments, MaxArgs)
      [] OTHER -> SeqOf(SimpleArguments, MaxArgs)

HasJSON(args) == \E i \in DOMAIN args : args[i] = Flag("--json")

\* The server that a text names, as it is written: normalizeServer trims it.
HostOf(text) ==
    IF text = "" THEN NoHost
    ELSE IF text \in DOMAIN FullNames THEN FullNames[text] ELSE [label |-> text, domain |-> ""]

-----------------------------------------------------------------------------
(* parseRecommend.  Its loop takes an option's value with the option; here *)
(* the option waits for the next argument.                                 *)

Texts == [country |-> "", city |-> "", server |-> ""]

Parsing(texts, waits) == [status |-> "go", texts |-> texts, waits |-> waits]
Parsed(status) == [status |-> status, texts |-> Texts, waits |-> ""]

\* Set a field that may be set only once; the check is whether it is empty.
SetOnce(texts, field, text) ==
    IF texts[field] # "" THEN Parsed("usage") ELSE Parsing([texts EXCEPT ![field] = text], "")

FieldOf(flag) == IF flag \in {"--city", "--city="} THEN "city" ELSE "server"

\* Mutant of ParseArgument: the value of an option may begin with a dash.
ParseArgumentAny(loop, arg) ==
    IF loop.status # "go" THEN loop
    ELSE IF loop.waits # "" THEN SetOnce(loop.texts, FieldOf(loop.waits), arg.text)
    ELSE CASE arg.flag = "--json" -> loop
           [] Helps(arg) -> Parsed("help")
           [] arg.flag \in {"--city", "--server"} -> Parsing(loop.texts, arg.flag)
           [] arg.flag \in {"--city=", "--server="} ->
                IF arg.text = "" THEN Parsed("usage") ELSE SetOnce(loop.texts, FieldOf(arg.flag), arg.text)
           [] arg.flag = "" -> SetOnce(loop.texts, "country", arg.text)
           [] OTHER -> Parsed("usage")

ParseArgument(loop, arg) ==
    IF loop.status # "go" THEN loop
    ELSE IF loop.waits # ""
    THEN IF HasDash(arg) THEN Parsed("usage") ELSE SetOnce(loop.texts, FieldOf(loop.waits), arg.text)
    ELSE CASE arg.flag = "--json" -> loop
           [] Helps(arg) -> Parsed("help")
           [] arg.flag \in {"--city", "--server"} -> Parsing(loop.texts, arg.flag)
           [] arg.flag \in {"--city=", "--server="} ->
                IF arg.text = "" THEN Parsed("usage") ELSE SetOnce(loop.texts, FieldOf(arg.flag), arg.text)
           [] arg.flag = "" -> SetOnce(loop.texts, "country", arg.text)
           [] OTHER -> Parsed("usage")

\* The loop after i arguments.
ParseLoop(args) ==
    LET loop[i \in 0..Len(args)] ==
            IF i = 0 THEN Parsing(Texts, "") ELSE ParseArgument(loop[i - 1], args[i])
    IN  loop

ParseRecommend(args) ==
    LET end == ParseLoop(args)[Len(args)]
    IN  IF end.status = "go" /\ (end.waits # "" \/ end.texts.country = "") THEN Parsed("usage") ELSE end

-----------------------------------------------------------------------------
(* The other commands, which take flags only.                              *)

\* --token-stdin and --local-only may be given once.
Repeats(args, i) ==
    /\ args[i].flag \in {"--token-stdin", "--local-only"}
    /\ \E k \in 1..(i - 1) : args[k] = args[i]

\* The first argument that is help, or wrong, decides.
ParseSimple(name, args) ==
    LET wrong(i) == args[i].flag \notin SimpleFlags[name] \/ Repeats(args, i)
        decisive == {i \in DOMAIN args : Helps(args[i]) \/ wrong(i)}
    IN  IF decisive = {} THEN "go" ELSE IF Helps(args[Min(decisive)]) THEN "help" ELSE "usage"

\* reconnect and logout insist on a flag that says what they will not do.
Missing(name, args) ==
    \/ name = "reconnect" /\ \A i \in DOMAIN args : args[i].flag # "--fresh"
    \/ name = "logout" /\ \A i \in DOMAIN args : args[i].flag # "--local-only"

ParseVersion(args) == IF args \in {<<>>, <<Flag("--json")>>} THEN "go" ELSE "usage"

\* RunWithInput's switch: what becomes of the arguments.
Parse(name, args) ==
    CASE name \in Queried -> ParseRecommend(args).status
      [] name \in DOMAIN SimpleFlags -> ParseSimple(name, args)
      [] name = "version" -> ParseVersion(args)
      [] name = "help" -> "help"
      [] OTHER -> "usage"

\* The interface that a command asks its backend for.
Needs(name) ==
    CASE name \in {"login", "logout", "status"} -> "authentication"
      [] name \in {"connect", "disconnect", "reconnect"} -> "connection"
      [] OTHER -> "public"

\* cmd/nordmac wires authentication when it finds its packaged helper, and
\* connections when there is a configuration directory as well.
Wirings == {{"public"}, {"public", "authentication"}, {"public", "authentication", "connection"}}

-----------------------------------------------------------------------------
(* Errors.  A joined error is the set of errors in it, and the first row   *)
(* of a table that has one of them decides.                                *)

Row(err, exit, code) == [err |-> err, exit |-> exit, code |-> code]

Classify(table, default, errs) ==
    LET hits == {i \in DOMAIN table : table[i].err \in errs}
    IN  IF hits = {} THEN default ELSE table[Min(hits)]

FailAuthentication(errs) ==
    Classify(<<Row("unauthorized", ExitAuth, "unauthorized"), Row("forbidden", ExitAuth, "forbidden"),
               Row("rate_limited", ExitNetwork, "rate_limited"), Row("lock", ExitBusy, "busy"),
               Row("incomplete", ExitNetwork, "credential_recovery_required"),
               Row("transaction", ExitNetwork, "credential_transaction"),
               Row("read", ExitNetwork, "credential_read")>>,
             Row("any", ExitNetwork, "authentication"), errs)

FailConnection(errs) ==
    Classify(<<Row("not_authenticated", ExitAuth, "not_authenticated"),
               Row("already_connected", ExitBusy, "already_connected"),
               Row("busy", ExitBusy, "busy"), Row("helper", ExitPrivilege, "helper")>>,
             Row("any", ExitNetwork, "connection"), errs)

\* classify and errorCode.
FailCatalog(errs) ==
    Classify(<<Row("no_match", ExitNoMatch, "no_match"), Row("ambiguous", ExitNoMatch, "ambiguous"),
               Row("invalid", ExitNetwork, "invalid_data")>>,
             Row("any", ExitNetwork, "network"), errs)

-----------------------------------------------------------------------------
(* An invocation.                                                          *)

NoAnswer == [status |-> 0, json |-> TRUE, body |-> <<>>]

\* called: what has been read or called so far.  pair: what happened to the
\* credential pair.  left: the place that a reconnect has disconnected from.
Idle ==
    [stage |-> "idle", name |-> "none", args |-> <<>>, json |-> FALSE, asks |-> NoQuery,
     input |-> <<>>, token |-> Refused, answer |-> NoAnswer, called |-> {}, pair |-> "kept",
     left |-> None, exit |-> ExitOK, code |-> "none"]

CommandInit == command = Idle /\ recorded = None /\ Resting

At(stage, names) == command.stage = stage /\ command.name \in names

\* fail and the writers of results: in JSON mode an output that cannot be
\* written is ExitNetwork, whatever happened before.
Report(c, row) ==
    \E exit \in {row.exit} \cup (IF c.json THEN {ExitNetwork} ELSE {}) :
        command' = [c EXCEPT !.stage = "done", !.exit = exit, !.code = row.code]

Done == Row("nil", ExitOK, "ok")

Start ==
    /\ command.stage = "idle"
    /\ \E name \in Names : \E args \in ArgumentsOf(name) :
          command' = [Idle EXCEPT !.stage = "parse", !.name = name, !.args = args]
    /\ UNCHANGED <<recorded, recommendation>>

QueryOf(args) ==
    LET texts == ParseRecommend(args).texts
    IN  [country |-> texts.country, city |-> texts.city, host |-> HostOf(texts.server)]

\* Mutant of Dispatch: login reads the token before it asks for the interface.
DispatchLate(wired) ==
    LET name == command.name
        args == command.args
        verdict == Parse(name, args)
        c == [command EXCEPT !.args = <<>>, !.json = HasJSON(args)]
        source == IF \E i \in DOMAIN args : args[i].flag = "--token-stdin" THEN "stdin" ELSE "terminal"
    IN
    /\ command.stage = "parse"
    /\ \/ /\ verdict = "help"
          /\ command' = [c EXCEPT !.stage = "done", !.code = "help"]
       \/ /\ verdict = "usage"
          /\ Report(c, Row("usage", ExitUsage, "usage"))
       \/ /\ verdict = "go" /\ Missing(name, args)
          /\ Report(c, Row("usage", ExitUsage, "flag_required"))
       \/ /\ verdict = "go" /\ ~Missing(name, args) /\ Needs(name) \notin wired
          /\ Report([c EXCEPT !.called = IF name = "login" THEN {"input"} ELSE {}],
                    Row("usage", ExitUsage, "unavailable"))
       \/ /\ verdict = "go" /\ ~Missing(name, args) /\ Needs(name) \in wired
          /\ command' = [c EXCEPT !.stage = IF name = "login" THEN source ELSE "call",
                                  !.asks = IF name \in Queried THEN QueryOf(args) ELSE NoQuery]
    /\ UNCHANGED <<recorded, recommendation>>

\* The arguments are parsed, the flags that must be there are looked for and
\* the backend is asked for the interface, before anything else is done.
Dispatch(wired) ==
    LET name == command.name
        args == command.args
        verdict == Parse(name, args)
        c == [command EXCEPT !.args = <<>>, !.json = HasJSON(args)]
        source == IF \E i \in DOMAIN args : args[i].flag = "--token-stdin" THEN "stdin" ELSE "terminal"
    IN
    /\ command.stage = "parse"
    /\ \/ /\ verdict = "help"
          /\ command' = [c EXCEPT !.stage = "done", !.code = "help"]
       \/ /\ verdict = "usage"
          /\ Report(c, Row("usage", ExitUsage, "usage"))
       \/ /\ verdict = "go" /\ Missing(name, args)
          /\ Report(c, Row("usage", ExitUsage, "flag_required"))
       \/ /\ verdict = "go" /\ ~Missing(name, args) /\ Needs(name) \notin wired
          /\ Report(c, Row("usage", ExitUsage, "unavailable"))
       \/ /\ verdict = "go" /\ ~Missing(name, args) /\ Needs(name) \in wired
          /\ command' = [c EXCEPT !.stage = IF name = "login" THEN source ELSE "call",
                                  !.asks = IF name \in Queried THEN QueryOf(args) ELSE NoQuery]
    /\ UNCHANGED <<recorded, recommendation>>

\* The invocation ends, and with it what it had in memory.
Exit ==
    /\ command.stage = "done"
    /\ command' = Idle
    /\ Rest
    /\ UNCHANGED recorded

-----------------------------------------------------------------------------
(* version, countries, recommend and plan.                                 *)

Calling(op) == [command EXCEPT !.called = @ \cup {op}]

CallPublic ==
    /\ \/ At("call", {"version"}) /\ Report(command, Done)
       \/ /\ At("call", {"countries"})
          /\ \/ Report(Calling("countries"), Done)
             \/ \E err \in {"invalid", "network"} : Report(Calling("countries"), FailCatalog({err}))
    /\ UNCHANGED <<recorded, recommendation>>

CallRecommend ==
    /\ At("call", {"recommend", "plan"})
    /\ Recommend(command.asks)
    /\ command' = [Calling("recommend") EXCEPT !.stage = "recommending"]
    /\ UNCHANGED recorded

Recommends ==
    /\ command.stage = "recommending"
    /\ Recommending
    /\ UNCHANGED <<command, recorded>>

\* connectplan.Build, for a server that Select let pass: its host name must be Nord's.
Builds(server) == server.host.domain = "nordvpn.com"

\* runRecommend and runPlan, once there is a server or an error.
AnswerQuery ==
    /\ At("recommending", {"recommend", "plan"})
    /\ pc = "done"
    /\ \/ result \in Errors /\ Report(command, FailCatalog({result.error}))
       \/ /\ result \notin Errors
          /\ Report(command, IF command.name = "plan" /\ ~Builds(result)
                             THEN Row("invalid", ExitNetwork, "invalid_data") ELSE Done)
    /\ UNCHANGED <<recorded, recommendation>>

-----------------------------------------------------------------------------
(* login, status and logout.                                               *)

\* ReadStdin or ReadHidden.
ReadToken ==
    /\ command.stage \in {"stdin", "terminal"}
    /\ \E input \in SeqOf(TokenBytes, MaxTokenBytes + 4) :
          LET token == IF command.stage = "stdin" THEN ReadStdin(input) ELSE ReadHidden(input)
              c == [Calling("input") EXCEPT !.input = input, !.token = token]
          IN  IF token = Refused
              THEN Report([c EXCEPT !.input = <<>>], Row("token", ExitUsage, "invalid_token_input"))
              ELSE command' = [c EXCEPT !.stage = "login"]
    /\ UNCHANGED <<recorded, recommendation>>

\* The deferred release of the credential lock may add its error.
Released(errs) == {errs, errs \cup {"lock"}}

\* Login: the lock, then Provision.
CallLogin ==
    LET c == [Calling("login") EXCEPT !.input = <<>>] IN
    /\ command.stage = "login"
    /\ \/ Report(c, FailAuthentication({"lock"}))
       \/ \E answer \in Replies :
             LET errs == Provision(command.token, answer)
             IN  \/ errs # {} /\ \E e \in Released(errs) : Report(c, FailAuthentication(e))
                 \/ errs = {} /\ command' = [c EXCEPT !.stage = "store", !.answer = answer]
    /\ UNCHANGED <<recorded, recommendation>>

\* What a credential transaction returns, and what it has done to the pair
\* (FailureRestores, SuccessSettles).
Transactions ==
    {[errs |-> e, pair |-> "changed"] : e \in Released({})}
      \cup {[errs |-> e, pair |-> "kept"] : e \in Released({"transaction"})}
      \cup {[errs |-> e, pair |-> "partial"] : e \in Released({"transaction", "incomplete"})}

\* The rest of Login, and LogoutLocal, which may find that there is nothing.
Transact(c, outcomes) ==
    \E o \in outcomes :
        Report([c EXCEPT !.pair = o.pair],
               IF o.errs = {} THEN Done ELSE FailAuthentication(o.errs))

\* status and a logout that finds nothing leave the pair alone.  The connection
\* that status reports as well cannot fail the command.
Unchanged(errors) == {[errs |-> e, pair |-> "kept"] : e \in errors}

CallCredentials ==
    /\ \/ command.stage = "store" /\ Transact([command EXCEPT !.answer = NoAnswer], Transactions)
       \/ /\ At("call", {"logout"})
          /\ Transact(Calling("logout"), Transactions \cup Unchanged({{}, {"lock"}} \cup Released({"read"})))
       \/ /\ At("call", {"status"})
          /\ Transact(Calling("status"), Unchanged({{}, {"lock"}} \cup Released({"read"})))
    /\ UNCHANGED <<recorded, recommendation>>

-----------------------------------------------------------------------------
(* connect, disconnect and reconnect, through connection.Service.          *)

\* The lock is busy, or the metadata cannot be read.
Unready(c) ==
    /\ \E errs \in {{"busy"}, {"other"}} : Report(c, FailConnection(errs))
    /\ UNCHANGED <<recorded, recommendation>>

CallConnect ==
    LET c == Calling("connect") IN
    /\ At("call", {"connect"})
    /\ \/ Unready(c)
       \/ /\ recorded # None
          /\ Report(c, FailConnection({"already_connected"}))
          /\ UNCHANGED <<recorded, recommendation>>
       \/ /\ recorded = None
          /\ Recommend(command.asks)
          /\ command' = [c EXCEPT !.stage = "recommending"]
          /\ UNCHANGED recorded

\* disconnectLocked with a record: the helper fails, or the record cannot be
\* deleted.
Undone(c) ==
    /\ recorded # None
    /\ \E errs \in {{"helper"}, {"other"}} : Report(c, FailConnection(errs))
    /\ UNCHANGED <<recorded, recommendation>>

CallDisconnect ==
    LET c == Calling("disconnect") IN
    /\ At("call", {"disconnect"})
    /\ \/ Unready(c)
       \/ Undone(c)
       \/ /\ recorded' = None
          /\ \E row \in {Done, FailConnection({"release"})} : Report(c, row)
          /\ UNCHANGED recommendation

\* Reconnect asks for the place that the record names, and disconnects before
\* it looks for a server there.
CallReconnect ==
    LET c == Calling("reconnect") IN
    /\ At("call", {"reconnect"})
    /\ \/ Unready(c)
       \/ recorded = None /\ Report(c, FailConnection({"other"})) /\ UNCHANGED <<recorded, recommendation>>
       \/ Undone(c)
       \/ /\ recorded # None
          /\ recorded' = None
          /\ Recommend([country |-> recorded.name, city |-> recorded.cityName, host |-> NoHost])
          /\ command' = [c EXCEPT !.stage = "recommending", !.left = recorded]

\* The place of a server, of which the metadata keep the two names.
PlaceOf(server) ==
    [country |-> server.countryID, code |-> server.countryCode, name |-> server.countryName,
     city |-> server.cityID, cityName |-> server.cityName]

\* The rest of connectLocked: errors before the record is saved, and after
\* it; the record stays when the helper fails.
Establish ==
    /\ At("recommending", {"connect", "reconnect"})
    /\ pc = "done"
    /\ \/ /\ result \in Errors
          /\ Report(command, FailConnection({result.error}))
          /\ UNCHANGED recorded
       \/ /\ result \notin Errors
          /\ \E err \in {"other"} \cup (IF Builds(result) THEN {"not_authenticated"} ELSE {}) :
                Report(command, FailConnection({err}))
          /\ UNCHANGED recorded
       \/ /\ result \notin Errors /\ Builds(result)
          /\ recorded' = PlaceOf(result)
          /\ \E row \in {Done} \cup {FailConnection({err}) : err \in {"helper", "other", "release"}} :
                Report(command, row)
    /\ UNCHANGED recommendation

CommandNext ==
    \/ Start
    \/ \E wired \in Wirings : Dispatch(wired)
    \/ CallPublic \/ CallRecommend \/ Recommends \/ AnswerQuery
    \/ ReadToken \/ CallLogin \/ CallCredentials
    \/ CallConnect \/ CallDisconnect \/ CallReconnect \/ Establish
    \/ Exit

CommandSpec == CommandInit /\ [][CommandNext]_vars

-----------------------------------------------------------------------------
(* Properties.                                                             *)

Options == {"--city", "--server"}

\* The argument at i is the value of the option before it.
IsValue(args, i) == i > 1 /\ args[i - 1].flag \in Options /\ ~HasDash(args[i])

\* The arguments that give the query's country, city or server.
Givers(args, field) ==
    {i \in DOMAIN args :
        \/ IsValue(args, i) /\ FieldOf(args[i - 1].flag) = field
        \/ args[i].flag \in {"--city=", "--server="} /\ FieldOf(args[i].flag) = field
        \/ field = "country" /\ ~HasDash(args[i]) /\ ~IsValue(args, i)}

\* The usage line, said without the loop: options have values, other flags are
\* known, and nothing is given twice, where an empty text counts as not given yet.
WellFormed(args) ==
    /\ \A i \in DOMAIN args :
          /\ args[i].flag \in Options => i < Len(args) /\ ~HasDash(args[i + 1])
          /\ args[i].flag \in {"--city=", "--server="} => args[i].text # ""
          /\ args[i].flag \in Options \cup {"", "--json", "--city=", "--server="}
    /\ \A field \in DOMAIN Texts : \A i, k \in Givers(args, field) : i < k => args[i].text = ""

Given(args, field) ==
    LET texts == {args[i].text : i \in Givers(args, field)} \ {""}
    IN  IF texts = {} THEN "" ELSE CHOOSE t \in texts : TRUE

\* parseRecommend accepts what the usage line says and takes the query from
\* it; help is given exactly when what comes before it is well formed.
ParsedAsWritten ==
    At("parse", Queried) =>
        LET args == command.args
            parsed == ParseRecommend(args)
        IN  /\ parsed.status = "help" <=>
                  \E i \in DOMAIN args : Helps(args[i]) /\ WellFormed(SubSeq(args, 1, i - 1))
            /\ parsed.status = "go" <=> WellFormed(args) /\ Given(args, "country") # ""
            /\ parsed.status = "go" => parsed.texts = [f \in DOMAIN Texts |-> Given(args, f)]

\* A command that is refused for its arguments, or because the build cannot
\* do it, has called nothing and not read the token: "no system changes were
\* made" (unavailable).
RefusalsTouchNothing ==
    command.stage = "done" /\ command.code \in {"usage", "flag_required", "unavailable", "help"} =>
        command.called = {}

\* A login that goes on has all of the token that was piped in (ReadStdin).
TokenIsWhole == command.stage = "login" => WholeToken(command.input, command.token)

\* A key that is stored comes from a whole answer (Provision).
AnswerIsWhole == command.stage = "store" => WholeAnswer(command.answer)

\* The validation record on authentication commands: a local logout whose
\* rollback is incomplete returns credential_recovery_required.  It does not hold
\* when the release of the lock fails as well: failAuthentication reports busy.
RecoveryIsReported ==
    At("done", {"logout"}) /\ command.pair = "partial" => command.code = "credential_recovery_required"

\* A reconnect that finds a server finds it in the country and the city that
\* it has left, although the record has only their names and the user may
\* have named them by code or slug.  A city that the API gave no name is not
\* asked for (serverDTO.convert lets it pass).
ReconnectStaysInPlace ==
    At("recommending", {"reconnect"}) /\ Recommended =>
        /\ result.countryCode = command.left.code
        /\ command.left.cityName # "" => result.cityID = command.left.city

\* What the API's names must be like for that.  A server whose country has a
\* namesake in the catalogue finds no servers there, and a country lists the
\* cities of its servers under the names that the servers have for them.
NamesAgree ==
    \A d \in DTOs, c \in Countries :
        /\ Matches(c, d.place.name) =>
              \A e \in DTOs : e.place.code = c.code => e.place.code = d.place.code
        /\ c.code = d.place.code /\ d.place.cityName # "" =>
              \E i \in DOMAIN c.cities : c.cities[i].id = d.place.city /\ c.cities[i].name = d.place.cityName

-----------------------------------------------------------------------------
(* What makes them inductive: the shape of an invocation, and what it      *)
(* carries from one stage to the next.                                     *)

Stages == {"idle", "parse", "stdin", "terminal", "login", "store", "call", "recommending", "done"}

\* What may be written as an argument, and what a query may ask for.
Said == {"", " "} \cup Words \cup Assigned
Flags == {"", "--json", "--help", "-h", "--city", "--city=", "--server", "--server=", "--other", "--fresh",
          "--local-only", "--token-stdin", "--refresh"}
Queries == [country : Said, city : Said, host : {HostOf(text) : text \in Said}]

Calls == {"input", "login", "status", "logout", "countries", "recommend", "connect", "disconnect", "reconnect"}
Codes == {"none", "ok", "help", "usage", "flag_required", "unavailable", "invalid_token_input",
          "unauthorized", "forbidden", "rate_limited", "busy", "credential_recovery_required",
          "credential_transaction", "credential_read", "authentication", "not_authenticated",
          "already_connected", "helper", "connection", "no_match", "ambiguous", "invalid_data", "network"}

Places == {PlaceOf(server) : server \in Servers}

Commands ==
    [stage : Stages, name : Names, args : Seq([flag : Flags, text : Said]), json : BOOLEAN,
     asks : Queries, input : Seq(TokenBytes), token : Seq(TokenBytes), answer : Replies \cup {NoAnswer},
     called : SUBSET Calls, pair : {"kept", "changed", "partial"}, left : Places \cup {None},
     exit : 0..ExitBusy, code : Codes]

CommandTypeOK == command \in Commands /\ recorded \in Places \cup {None}

\* Nothing has been called before the arguments are parsed, and nothing has
\* been reported before the end.
StagesInOrder ==
    /\ command.stage \in {"idle", "parse"} => command.called = {}
    /\ command.stage # "done" => command.pair = "kept" /\ command.code = "none"

\* A reconnect asks for the place it has left.
ReconnectAsks ==
    At("recommending", {"reconnect"}) =>
        /\ command.left \in Places
        /\ query = [country |-> command.left.name, city |-> command.left.cityName, host |-> NoHost]

CommandInv ==
    /\ CommandTypeOK
    /\ StagesInOrder
    /\ RefusalsTouchNothing
    /\ TokenIsWhole
    /\ AnswerIsWhole
    /\ ReconnectAsks
    /\ RecommendationInv

=============================================================================
