---------------------------- MODULE Provisioning ----------------------------
(***************************************************************************)
(* What login takes in from outside: the access token typed or piped by    *)
(* the user (tokeninput) and Nord's answer to it (nordauth.Client).  Both  *)
(* are read through an io.LimitReader, so the question is what a limit     *)
(* does to an input that is longer.                                        *)
(***************************************************************************)
EXTENDS Naturals, Sequences, SequencesExt

CONSTANTS
    MaxTokenBytes,  \* 4096
    MaxBodyBytes    \* 64 KiB

ASSUME LimitAssumption == MaxTokenBytes \in Nat \ {0} /\ MaxBodyBytes \in Nat \ {0}

\* A token's bytes: lowercase hexadecimal digits, line endings, anything else.
TokenBytes == {"hex", "cr", "lf", "other"}

\* An answer's pieces, each counted as one byte of the limit: an account with
\* a key, one with a bad id or a bad key, white space and other text.
BodyBytes == {"account", "badID", "badKey", "space", "text"}

\* io.ReadAll of an io.LimitReader.
Limited(input, n) == SubSeq(input, 1, IF Len(input) < n THEN Len(input) ELSE n)

TrimSuffix(s, byte) == IF s # <<>> /\ Last(s) = byte THEN Front(s) ELSE s

-----------------------------------------------------------------------------
(* tokeninput.  A token that is refused is the empty sequence.             *)

Refused == <<>>

\* The checks of normalize, which validateToken makes again.
ValidToken(raw) == Len(raw) \in 1..MaxTokenBytes /\ \A i \in DOMAIN raw : raw[i] = "hex"

Normalize(raw, allowLineEnding) ==
    LET token == IF allowLineEnding THEN TrimSuffix(TrimSuffix(raw, "lf"), "cr") ELSE raw
    IN  IF ValidToken(token) THEN token ELSE Refused

\* Mutant of ReadStdin: the limit leaves room for the line ending only.
ReadStdinTight(input) == Normalize(Limited(input, MaxTokenBytes + 2), TRUE)

\* One byte more than the longest token with its line ending.
ReadStdin(input) == Normalize(Limited(input, MaxTokenBytes + 3), TRUE)

\* term.ReadPassword returns a line without its ending; without a terminal,
\* or when the prompt cannot be written, nothing is read.
ReadHidden(input) == Normalize(input, FALSE)

-----------------------------------------------------------------------------
(* nordauth.                                                               *)

\* decodeProvisioning: one document and nothing after it but white space.
Decode(body) ==
    LET text == {i \in DOMAIN body : body[i] # "space"}
    IN  IF \E i \in text : text = {i} /\ body[i] = "account" THEN {} ELSE {"other"}

\* Mutant of ReadAnswer: the body is cut at the limit.
ReadAnswerCut(reply) ==
    IF ~reply.json THEN {"other"} ELSE Decode(Limited(reply.body, MaxBodyBytes))

\* A 200 answer: its content type, its length and its content.
ReadAnswer(reply) ==
    LET body == Limited(reply.body, MaxBodyBytes + 1) IN
    IF ~reply.json \/ Len(body) > MaxBodyBytes THEN {"other"} ELSE Decode(body)

\* Client.Provision: the errors it returns for a reply.  Status 0 is a request
\* that failed, also because a redirect was refused.
Provision(token, reply) ==
    CASE ~ValidToken(token) -> {"other"}
      [] ValidToken(token) /\ reply.status = 401 -> {"unauthorized"}
      [] ValidToken(token) /\ reply.status = 403 -> {"forbidden"}
      [] ValidToken(token) /\ reply.status = 429 -> {"rate_limited"}
      [] ValidToken(token) /\ reply.status = 200 -> ReadAnswer(reply)
      [] OTHER -> {"other"}

\* What the service may send.
Replies ==
    [status : {0, 401, 403, 429, 500}, json : {TRUE}, body : {<<>>}]
      \cup [status : {200}, json : BOOLEAN, body : SeqOf(BodyBytes, MaxBodyBytes + 2)]

-----------------------------------------------------------------------------
(* Properties.                                                             *)

LineEndings == {<<>>, <<"lf">>, <<"cr">>, <<"cr", "lf">>}

\* A token that is used is all of what the user piped in, but for one line
\* ending: a longer input is refused, never cut to a token.
WholeToken(input, token) == token # Refused => \E e \in LineEndings : input = token \o e

\* An answer from which a key is taken is one document, all of it within the limit.
WholeAnswer(reply) ==
    /\ reply.status = 200 /\ reply.json
    /\ Len(reply.body) <= MaxBodyBytes
    /\ \E i \in DOMAIN reply.body :
          \A k \in DOMAIN reply.body : reply.body[k] = IF k = i THEN "account" ELSE "space"

=============================================================================
