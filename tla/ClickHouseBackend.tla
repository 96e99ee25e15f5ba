-------------------------- MODULE ClickHouseBackend --------------------------
(***************************************************************************)
(* ClickHouseBackendPlugin (src/src/lib.rs, src/src/engine.rs): the        *)
(* profile registry, and the life of every call the gateway makes from its *)
(* own threads: execute, list_resources and complete_template_variable.    *)
(* A call clones its profile under the read lock, checks its input, sends  *)
(* at most one query, and ends on the answer or on its deadline, whichever *)
(* comes first.  Registration goes on while calls are in flight.           *)
(*                                                                         *)
(* The ClickHouse server, the network and the host (metrics, audit) are    *)
(* external.  The code between two awaits of a call is one action.         *)
(***************************************************************************)
EXTENDS BindingSpec

CONSTANTS
  Bindings,    \* backend names
  Specs,       \* the specs the gateway may register
  Calls,       \* calls the gateway may make, each one once
  Requests,    \* what a call may ask for
  RowCounts,   \* how many rows a statement may have on the server
  FailureTexts \* the texts of failed queries and failed parameters

\* input: the payload is not JSON (a cursor is not a number), a CEL parameter
\* fails on it, or neither; uri: the arguments carry a uri.
RequestType ==
  [binding : Bindings, kind : CallKinds,
   input : {"malformed", "unbindable", "good"}, uri : BOOLEAN]

\* A failure text is the set of token families classify_error finds in it; the
\* "timeout" tokens are retryable ones that also choose the label.
Tokens == {"rejection", "transient", "timeout"}
Texts == SUBSET Tokens

ASSUME SpecsAssumption == Specs \subseteq BindingSpecs
ASSUME RequestsAssumption == Requests \subseteq RequestType
ASSUME RowCountsAssumption == RowCounts \subseteq Nat
ASSUME FailureTextsAssumption == FailureTexts \subseteq Texts

VARIABLES
  profiles,  \* the registry: binding -> Option(profile)
  host,      \* is a host handle installed
  request,   \* what each call asks for
  phase,     \* where each call is
  span,      \* did the call open a span on the host
  snapshot,  \* the profile the call cloned
  query,     \* the query the call sent
  answer,    \* what the server said, whether or not the call still listens
  applied,   \* the server has modified data for the call
  reply,     \* what the call returns
  label,     \* the outcome label of the call
  metrics,   \* increments of the calls_total counter
  audits     \* audit events of the call

client == <<phase, span, snapshot, query, reply, label, metrics, audits>>
server == <<answer, applied>>
vars == <<profiles, host, request, client, server>>

-----------------------------------------------------------------------------
(* Data *)

MinOf(m, n) == IF m <= n THEN m ELSE n

Retryable(text) == "rejection" \notin text /\ text # {}

\* Mutant of LabelOf: the audit action in place of the label.
LabelOf_Action(text) ==
  IF "timeout" \in text THEN "request_timeout"
  ELSE IF Retryable(text) THEN "transport_error" ELSE "clickhouse_error"

LabelOf(text) ==
  IF "timeout" \in text THEN "timeout"
  ELSE IF Retryable(text) THEN "transport_error" ELSE "clickhouse_error"

Labels == {"none", "ok", "profile_not_found", "invalid_spec", "timeout",
           "transport_error", "clickhouse_error"}

\* Mutant of AuditedLabels: only the outcomes of a query are audited.
AuditedLabels_QueryOnly == {"timeout", "transport_error", "clickhouse_error"}

\* audit_action_for_outcome
AuditedLabels == {"timeout", "transport_error", "clickhouse_error", "invalid_spec"}

Queries ==
  [sql : SqlTexts, cap : Nat, limit : Option(Nat), method : {"GET", "POST"},
   settings : SUBSET {"readonly", "other"}]

\* matching: the rows of the statement before the plugin's own LIMIT.
Answers ==
  [outcome : {"rows", "refused", "failed"}, matching : Nat, rows : Nat, text : Texts]

Replies ==
  [status : {"ok", "error", "rejected"},
   body : {"envelope", "contents", "messages", "page", "values",
           "ProfileNotFound", "InvalidSpec", "Transport"},
   rows : Nat, count : Nat, truncated : BOOLEAN, retryable : BOOLEAN]

\* Mutant of Rows: a reply that just fills the cap counts as truncated.
Rows_FullIsTruncated(body, cap, read) ==
  [status |-> "ok", body |-> body, rows |-> MinOf(read, cap),
   count |-> IF body = "envelope" THEN read ELSE MinOf(read, cap),
   truncated |-> body = "envelope" /\ read >= cap, retryable |-> FALSE]

\* The reply carries the first cap of the rows read (each with the uri, or the
\* string, that a page or a completion needs); only the tool envelope has
\* room for their exact number and the truncated flag.
Rows(body, cap, read) ==
  [status |-> "ok", body |-> body, rows |-> MinOf(read, cap),
   count |-> IF body = "envelope" THEN read ELSE MinOf(read, cap),
   truncated |-> body = "envelope" /\ read > cap, retryable |-> FALSE]

\* The tool envelope with a downstreamError.
ErrorEnvelope(text) ==
  [status |-> "error", body |-> "envelope", rows |-> 0, count |-> 0,
   truncated |-> FALSE, retryable |-> Retryable(text)]

\* Err(BackendError::name)
Rejection(name) ==
  [status |-> "rejected", body |-> name, rows |-> 0, count |-> 0,
   truncated |-> FALSE, retryable |-> FALSE]

Phases == {"idle", "looking", "loaded", "waiting", "auditing", "done"}

TypeOK ==
  /\ profiles \in [Bindings -> Option(Profiles)]
  /\ host \in BOOLEAN
  /\ request \in [Calls -> RequestType]
  /\ phase \in [Calls -> Phases]
  /\ span \in [Calls -> BOOLEAN]
  /\ snapshot \in [Calls -> Option(Profiles)]
  /\ query \in [Calls -> Option(Queries)]
  /\ answer \in [Calls -> Option(Answers)]
  /\ applied \in [Calls -> BOOLEAN]
  /\ reply \in [Calls -> Option(Replies)]
  /\ label \in [Calls -> Labels]
  /\ metrics \in [Calls -> Nat]
  /\ audits \in [Calls -> Nat]

Init ==
  /\ profiles = [b \in Bindings |-> {}]
  /\ host = FALSE
  /\ request \in [Calls -> Requests]
  /\ phase = [c \in Calls |-> "idle"]
  /\ span = [c \in Calls |-> FALSE]
  /\ snapshot = [c \in Calls |-> {}]
  /\ query = [c \in Calls |-> {}]
  /\ answer = [c \in Calls |-> {}]
  /\ applied = [c \in Calls |-> FALSE]
  /\ reply = [c \in Calls |-> {}]
  /\ label = [c \in Calls |-> "none"]
  /\ metrics = [c \in Calls |-> 0]
  /\ audits = [c \in Calls |-> 0]

-----------------------------------------------------------------------------
(* The registry *)

\* register_profile; a spec it does not accept changes nothing.
Register(b, s) ==
  /\ Accepts(s)
  /\ profiles' = [profiles EXCEPT ![b] = {ProfileOf(s)}]
  /\ UNCHANGED <<host, request, client, server>>

\* The first handle stays.
SetHostHandle ==
  /\ ~host
  /\ host' = TRUE
  /\ UNCHANGED <<profiles, request, client, server>>

-----------------------------------------------------------------------------
(* A call, from the gateway's thread to its result *)

\* The outcome is emitted before the call returns: a counter increment and, for
\* a failing label, an audit event the call waits for.  Nothing without a host.
Emit(c, outcome) ==
  /\ label' = [label EXCEPT ![c] = outcome]
  /\ metrics' = [metrics EXCEPT ![c] = IF host THEN @ + 1 ELSE @]
  /\ phase' = [phase EXCEPT ![c] =
                 IF host /\ outcome \in AuditedLabels THEN "auditing" ELSE "done"]

\* Only execute emits its outcome.
Return(c, result, outcome) ==
  /\ reply' = [reply EXCEPT ![c] = {result}]
  /\ \/ /\ request[c].kind = "execute"
        /\ Emit(c, outcome)
     \/ /\ request[c].kind # "execute"
        /\ phase' = [phase EXCEPT ![c] = "done"]
        /\ UNCHANGED <<label, metrics>>
  /\ UNCHANGED <<profiles, host, request, span, snapshot, query, server, audits>>

Begin(c) ==
  /\ phase[c] = "idle"
  /\ phase' = [phase EXCEPT ![c] = "looking"]
  /\ span' = [span EXCEPT ![c] = host /\ request[c].kind = "execute"]
  /\ UNCHANGED <<profiles, host, request, snapshot, query, server,
                 reply, label, metrics, audits>>

ProfileMissing(c) ==
  /\ phase[c] = "looking"
  /\ profiles[request[c].binding] = {}
  /\ Return(c, Rejection("ProfileNotFound"), "profile_not_found")

\* Mutant of LoadProfile: a waiting call still looks at the registry's entry.
LoadProfile_ByReference(c) ==
  /\ phase[c] \in {"looking", "waiting"}
  /\ profiles[request[c].binding] # {}
  /\ snapshot' = [snapshot EXCEPT ![c] = profiles[request[c].binding]]
  /\ phase' = [phase EXCEPT ![c] = IF @ = "looking" THEN "loaded" ELSE @]
  /\ UNCHANGED <<profiles, host, request, span, query, server,
                 reply, label, metrics, audits>>

\* The clone under the read lock: from here on the call never looks at the
\* registry again.
LoadProfile(c) ==
  /\ phase[c] = "looking"
  /\ profiles[request[c].binding] # {}
  /\ snapshot' = [snapshot EXCEPT ![c] = profiles[request[c].binding]]
  /\ phase' = [phase EXCEPT ![c] = "loaded"]
  /\ UNCHANGED <<profiles, host, request, span, query, server,
                 reply, label, metrics, audits>>

\* execute: the payload is not JSON.
BadPayload(c) ==
  request[c].kind = "execute" /\ request[c].input = "malformed"

\* list_resources in offset mode: the cursor is not a number.
BadCursor(c) ==
  /\ request[c].kind = "list" /\ request[c].input = "malformed"
  /\ \E p \in snapshot[c] : \E q \in p.list_query : q.mode = "offset"

\* execute: a CEL parameter fails, or is not a scalar.  Catalog operations do
\* not evaluate any.
BadParams(c) ==
  /\ request[c].kind = "execute" /\ request[c].input = "unbindable"
  /\ \E p \in snapshot[c] : ~IsCatalog(p.operation) /\ p.params = "valid"

RejectPayload(c) ==
  /\ phase[c] = "loaded"
  /\ BadPayload(c)
  /\ Return(c, Rejection("InvalidSpec"), "invalid_spec")

\* finish_error: the text quotes the parameter's source, so any token may be in
\* it, and goes through classify_error like a server's.
RejectParams(c) ==
  /\ phase[c] = "loaded"
  /\ BadParams(c)
  /\ \E text \in FailureTexts : Return(c, ErrorEnvelope(text), "invalid_spec")

RejectCursor(c) ==
  /\ phase[c] = "loaded"
  /\ BadCursor(c)
  /\ Return(c, Rejection("InvalidSpec"), "none")

\* No list_query, or no completion for the variable: empty without a query.
NothingConfigured(c) ==
  /\ phase[c] = "loaded"
  /\ \E p \in snapshot[c] :
       /\ PlansFor(p, request[c].kind) = {}
       /\ Return(c, Rows(BodyFor(p, request[c].kind), 0, 0), "none")

QueryOf(p, plan) ==
  [sql |-> plan.sql, cap |-> plan.cap, limit |-> plan.limit,
   method |-> IF RunsReadOnly(p) THEN "GET" ELSE "POST",
   settings |-> p.settings]

Dispatch(c) ==
  /\ phase[c] = "loaded"
  /\ ~BadPayload(c) /\ ~BadCursor(c) /\ ~BadParams(c)
  /\ \E p \in snapshot[c] : \E plan \in PlansFor(p, request[c].kind) :
       query' = [query EXCEPT ![c] = {QueryOf(p, plan)}]
  /\ phase' = [phase EXCEPT ![c] = "waiting"]
  /\ UNCHANGED <<profiles, host, request, span, snapshot, server,
                 reply, label, metrics, audits>>

\* execute() (POST) reads no rows back, fetch_bytes (GET) reads them all.
RowsRead(q, a) == IF q.method = "POST" THEN 0 ELSE a.rows

\* A resource read without a static uri needs one in the arguments, and finds
\* out after the query has run.
LacksUri(c) ==
  /\ request[c].kind = "execute" /\ ~request[c].uri
  /\ \E p \in snapshot[c] : p.surface = "resource" /\ Blank(p.uri)

\* Mutant of ReceiveRows: the profile is looked up again when the rows are there.
ReceiveRows_LooksAgain(c) ==
  /\ phase[c] = "waiting"
  /\ ~LacksUri(c)
  /\ \E p \in profiles[request[c].binding], q \in query[c], a \in answer[c] :
       /\ a.outcome = "rows"
       /\ Return(c, Rows(BodyFor(p, request[c].kind), q.cap, RowsRead(q, a)), "ok")

ReceiveRows(c) ==
  /\ phase[c] = "waiting"
  /\ ~LacksUri(c)
  /\ \E p \in snapshot[c], q \in query[c], a \in answer[c] :
       /\ a.outcome = "rows"
       /\ Return(c, Rows(BodyFor(p, request[c].kind), q.cap, RowsRead(q, a)), "ok")

ReceiveRowsWithoutUri(c) ==
  /\ phase[c] = "waiting"
  /\ LacksUri(c)
  /\ \E a \in answer[c] : a.outcome = "rows"
  /\ Return(c, ErrorEnvelope({}), "clickhouse_error")

\* Mutant of Fail: the error of a POST is dropped with its (absent) rows.
Fail_DropsPostError(c, text) ==
  \/ /\ \E q \in query[c] : q.method = "POST"
     /\ Return(c, Rows("envelope", 0, 0), "ok")
  \/ /\ \E q \in query[c] : q.method = "GET"
     /\ Return(c, ErrorEnvelope(text), LabelOf(text))

\* What a failed query becomes: an error envelope, or Err(Transport).
Fail(c, text) ==
  Return(c,
         IF request[c].kind = "execute" THEN ErrorEnvelope(text)
                                        ELSE Rejection("Transport"),
         LabelOf(text))

\* Mutant of ReceiveFailure: a failure is taken whenever it arrives.
ReceiveFailure_AnyTime(c) ==
  \E a \in answer[c] : a.outcome # "rows" /\ Fail(c, a.text)

ReceiveFailure(c) ==
  /\ phase[c] = "waiting"
  /\ \E a \in answer[c] : a.outcome # "rows" /\ Fail(c, a.text)

\* Mutant of Timeout: only fetch_bytes is under the deadline.
Timeout_ReadsOnly(c) ==
  /\ phase[c] = "waiting"
  /\ \E q \in query[c] : q.method = "GET"
  /\ Fail(c, {"timeout"})

\* Mutant of Timeout: its message speaks of a lost connection, not of a timeout.
Timeout_Reworded(c) ==
  /\ phase[c] = "waiting"
  /\ Fail(c, {"transient"})

\* tokio::time::timeout drops the request; the server is not told.
Timeout(c) ==
  /\ phase[c] = "waiting"
  /\ Fail(c, {"timeout"})

\* The blocking audit task has been joined; its result is not looked at.
AuditDone(c) ==
  /\ phase[c] = "auditing"
  /\ audits' = [audits EXCEPT ![c] = @ + 1]
  /\ phase' = [phase EXCEPT ![c] = "done"]
  /\ UNCHANGED <<profiles, host, request, span, snapshot, query, server,
                 reply, label, metrics>>

-----------------------------------------------------------------------------
(* The server, and the network to it.  It goes on whether or not the call   *)
(* still waits.                                                             *)

\* A GET is read-only, and a statement that modifies is refused in read-only
\* mode; so is a readonly setting on a GET (the comment in engine.rs).
Refuses(q) ==
  \/ Modifies(q.sql) /\ (q.method = "GET" \/ "readonly" \in q.settings)
  \/ q.method = "GET" /\ "readonly" \in q.settings

Answer(c, a) ==
  /\ query[c] # {} /\ answer[c] = {}
  /\ answer' = [answer EXCEPT ![c] = {a}]
  /\ UNCHANGED <<profiles, host, request, client, applied>>

RowsSent(q, n) == IF q.limit = {} THEN {n} ELSE {MinOf(n, l) : l \in q.limit}

ServerReads(c) ==
  \E q \in query[c], n \in RowCounts :
    /\ ~Modifies(q.sql) /\ ~Refuses(q)
    /\ \E sent \in RowsSent(q, n) :
         Answer(c, [outcome |-> "rows", matching |-> n, rows |-> sent,
                    text |-> {}])

\* Also when the call has already been told of a lost connection.
ServerModifies(c) ==
  /\ \E q \in query[c] : Modifies(q.sql) /\ ~Refuses(q)
  /\ ~applied[c]
  /\ applied' = [applied EXCEPT ![c] = TRUE]
  /\ UNCHANGED <<profiles, host, request, client, answer>>

ServerAcknowledges(c) ==
  /\ applied[c]
  /\ Answer(c, [outcome |-> "rows", matching |-> 0, rows |-> 0, text |-> {}])

ServerRefuses(c) ==
  /\ \E q \in query[c] : Refuses(q)
  /\ Answer(c, [outcome |-> "refused", matching |-> 0, rows |-> 0,
                text |-> {"rejection"}])

\* The statement fails, the connection is lost, or the body cannot be parsed:
\* any text, also after the statement was applied.
ServerFails(c) ==
  \E text \in FailureTexts :
    Answer(c, [outcome |-> "failed", matching |-> 0, rows |-> 0, text |-> text])

-----------------------------------------------------------------------------
CallStep(c) ==
  \/ ProfileMissing(c) \/ LoadProfile(c)
  \/ RejectPayload(c) \/ RejectParams(c) \/ RejectCursor(c)
  \/ NothingConfigured(c) \/ Dispatch(c)
  \/ ReceiveRows(c) \/ ReceiveRowsWithoutUri(c) \/ ReceiveFailure(c)
  \/ Timeout(c) \/ AuditDone(c)

ServerStep(c) ==
  \/ ServerReads(c) \/ ServerModifies(c) \/ ServerAcknowledges(c)
  \/ ServerRefuses(c) \/ ServerFails(c)

Next ==
  \/ \E b \in Bindings, s \in Specs : Register(b, s)
  \/ SetHostHandle
  \/ \E c \in Calls : Begin(c) \/ CallStep(c) \/ ServerStep(c)

\* A call that has begun runs on the bridge's runtime and the host's blocking
\* pool until it returns; nothing is assumed of the server, of new calls or of
\* registration.
Fairness == \A c \in Calls : WF_vars(CallStep(c))

Spec == Init /\ [][Next]_vars /\ Fairness

-----------------------------------------------------------------------------
(* Safety *)

\* Every registered profile sends only real, secret-free statements, and on a
\* read-only binding only guarded ones, whatever call arrives: the checks of
\* register_profile leave no combination of operation, surface and statement
\* that fails them at call time.
RegistryIsServable ==
  \A b \in Bindings : \A p \in profiles[b] : Servable(p)

\* No query leaves with a blank statement or a bare secret reference, and a
\* read-only profile's query has passed the guard and goes out by GET, also when
\* the binding is registered again while the call is in flight.
OnlyGuardedSqlLeaves ==
  \A c \in Calls : \A p \in snapshot[c], q \in query[c] :
    /\ q.sql \notin {"blank", "cred"}
    /\ p.read_only => GuardPasses(q.sql) /\ q.method = "GET"

\* Data is modified only for a call whose profile allows writes and is not a
\* catalog operation: GET holds back what the lexical guard let through.
ReadOnlyNeverModifies ==
  \A c \in Calls : applied[c] =>
    \E p \in snapshot[c] : ~p.read_only /\ ~IsCatalog(p.operation)

\* A success reply to a modifying statement means the server has applied it:
\* execute() passes a failed POST on although it reads no rows.
AcknowledgedWriteApplied ==
  \A c \in Calls : \A r \in reply[c], q \in query[c] :
    r.status = "ok" /\ Modifies(q.sql) => applied[c]

\* The query a call sends and the body it returns come from one profile: the
\* registry as it was when the call looked, not as it is when the rows arrive.
ReplyMatchesSnapshot ==
  \A c \in Calls : \A q \in query[c] :
    \E p \in snapshot[c] :
      /\ \E plan \in PlansFor(p, request[c].kind) : q = QueryOf(p, plan)
      /\ \A r \in reply[c] :
           r.status = "ok" => r.body = BodyFor(p, request[c].kind)

\* A call that opened its span counts exactly once, and is audited exactly when
\* it failed for another reason than an unknown binding; a list or complete call
\* leaves no trace on the host.  Every early return of execute has to do this.
OneTriadPerCall ==
  \A c \in Calls : phase[c] = "done" => \A r \in reply[c] :
    /\ metrics[c] <= 1 /\ audits[c] <= metrics[c]
    /\ request[c].kind # "execute" => metrics[c] = 0
    /\ span[c] =>
         /\ metrics[c] = 1
         /\ audits[c] = IF r.status = "ok" \/ r.body = "ProfileNotFound"
                        THEN 0 ELSE 1

\* What the label of a call says of the call and its server:
\*  - profile_not_found and invalid_spec: nothing was sent, nor ever will be;
\*  - ok: the server has answered with rows;
\*  - transport_error, clickhouse_error: the server or the driver has answered; the
\*    call's own deadline is never counted as one of them;
\*  - a rejection is not masked as transport (envelope.rs:25): when the answer
\*    holds one, the caller is told to retry only if the deadline came first;
\*  - timeout: the call may be retried, but for the one case in which the label
\*    masks a rejection (lib.rs:813): an answer that speaks of a timeout as well.
\* An answer may come after the deadline, and must not make a label wrong.
Explains(outcome, c, r) ==
  /\ outcome # "none"
  /\ query[c] = {} <=> outcome \in {"profile_not_found", "invalid_spec"}
  /\ outcome = "ok" => \E a \in answer[c] : a.outcome = "rows"
  /\ outcome \in {"transport_error", "clickhouse_error"} => answer[c] # {}
  /\ \A a \in answer[c] : "rejection" \in a.text =>
       outcome # "transport_error" /\ (r.retryable => outcome = "timeout")
  /\ outcome = "timeout" /\ ~r.retryable =>
       \E a \in answer[c] : {"rejection", "timeout"} \subseteq a.text

LabelTellsWhatHappened ==
  \A c \in Calls : \A r \in reply[c] :
    request[c].kind = "execute" => Explains(label[c], c, r)

\* The envelope of a read-only query binding tells the exact number of rows and
\* whether some were cut off at max_result_rows.
RowsAreAccountedFor ==
  \A c \in Calls : \A p \in snapshot[c], a \in answer[c], r \in reply[c] :
    /\ request[c].kind = "execute"
    /\ p.operation = "query" /\ p.read_only
    /\ r.status = "ok" /\ r.body = "envelope"
    => /\ r.rows = MinOf(a.matching, p.max_rows)
       /\ r.count = a.matching
       /\ r.truncated <=> a.matching > p.max_rows

-----------------------------------------------------------------------------
(* Steps *)

\* A late answer, a second registration or a slow audit never changes what a
\* call has decided to return, nor reopens it.
RepliesAreFinal ==
  [][\A c \in Calls :
       reply[c] # {} =>
         /\ reply'[c] = reply[c] /\ label'[c] = label[c]
         /\ metrics'[c] = metrics[c]
         /\ phase'[c] \in {phase[c], "done"}]_vars

-----------------------------------------------------------------------------
(* Liveness *)

\* A call that has begun returns even if the server never answers.
EveryCallReturns ==
  \A c \in Calls : phase[c] = "looking" ~> phase[c] = "done"

-----------------------------------------------------------------------------
(* What the repository says and the code does not do: each is violated. *)

\* With the documented guardrail settings, readonly among them, a binding whose
\* statement only reads is served: the server does not refuse the call.
DocumentedSettingsServe ==
  \A c \in Calls : \A q \in query[c], a \in answer[c] :
    q.sql = "read" => a.outcome # "refused"

\* list_query "runs at list time to enumerate concrete resource URIs": a listing
\* or completion whose statement has rows returns some, on a binding with
\* read_only: false too.
ReadsReachTheCaller ==
  \A c \in Calls : \A a \in answer[c], r \in reply[c] :
    /\ request[c].kind # "execute" /\ r.status = "ok"
    /\ a.outcome = "rows" /\ a.rows > 0
    => r.rows > 0
=============================================================================
