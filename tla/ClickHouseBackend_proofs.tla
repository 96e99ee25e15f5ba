----------------------- MODULE ClickHouseBackend_proofs -----------------------
(***************************************************************************)
(* The safety properties of ClickHouseBackend for every set of bindings,   *)
(* specs, calls and requests.                                              *)
(*                                                                         *)
(* The actions that end a call differ in what they return, and the         *)
(* server's in what they answer; Ending and Answering collect what the     *)
(* invariant needs to know of them, so that its proof has one case for     *)
(* each of the two instead of twelve.                                      *)
(***************************************************************************)
EXTENDS ClickHouseBackend, BindingSpec_proofs

-----------------------------------------------------------------------------
(* The inductive invariant *)

\* A call has a snapshot, a query, an answer and a reply only once it is there.
ShapeInv ==
  \A c \in Calls :
    /\ phase[c] \in {"idle", "looking"} => snapshot[c] = {}
    /\ phase[c] \in {"idle", "looking", "loaded"} => query[c] = {}
    /\ phase[c] = "waiting" => query[c] # {}
    /\ query[c] = {} => answer[c] = {} /\ ~applied[c]
    /\ phase[c] \notin {"auditing", "done"} => reply[c] = {} /\ label[c] = "none"

\* A snapshot is a profile that was registered, and a query was built from it.
SourceInv ==
  \A c \in Calls :
    /\ \A p \in snapshot[c] : Servable(p)
    /\ \A q \in query[c] : \E p \in snapshot[c] :
         \E plan \in PlansFor(p, request[c].kind) : q = QueryOf(p, plan)

\* What the server has done for a call.
ServerInv ==
  \A c \in Calls :
    /\ applied[c] => \E q \in query[c] : q.method = "POST"
    /\ \A q \in query[c], a \in answer[c] : a.outcome = "rows" =>
         /\ Modifies(q.sql) => applied[c]
         /\ q.limit = {} => a.rows = a.matching

\* A success reply to a query was made from the server's answer.
ReplyInv ==
  \A c \in Calls : \A r \in reply[c] :
    r.status = "ok" /\ query[c] # {} =>
      \E p \in snapshot[c], q \in query[c], a \in answer[c] :
        /\ a.outcome = "rows"
        /\ r = Rows(BodyFor(p, request[c].kind), q.cap, RowsRead(q, a))

\* The outcomes execute audits.
Failed(r) == ~(r.status = "ok" \/ r.body = "ProfileNotFound")

\* What the host has seen of a call.
HostInv ==
  \A c \in Calls :
    /\ span[c] => host /\ request[c].kind = "execute"
    /\ phase[c] \notin {"auditing", "done"} => metrics[c] = 0 /\ audits[c] = 0
    /\ phase[c] = "auditing" =>
         /\ request[c].kind = "execute" /\ metrics[c] = 1 /\ audits[c] = 0
         /\ \A r \in reply[c] : Failed(r)

IInv ==
  /\ TypeOK
  /\ RegistryIsServable
  /\ ShapeInv
  /\ SourceInv
  /\ ServerInv
  /\ ReplyInv
  /\ HostInv
  /\ OneTriadPerCall
  /\ LabelTellsWhatHappened

-----------------------------------------------------------------------------
(* The data *)

LEMMA RowsType ==
  ASSUME NEW body \in {"envelope", "contents", "messages", "page", "values"},
         NEW cap \in Nat, NEW read \in Nat
  PROVE  Rows(body, cap, read) \in Replies
BY DEF Rows, Replies, MinOf

LEMMA ErrorType ==
  ASSUME NEW text \in Texts
  PROVE  /\ ErrorEnvelope(text) \in Replies
         /\ ErrorEnvelope(text).status = "error"
         /\ ErrorEnvelope(text).body = "envelope"
         /\ ErrorEnvelope(text).retryable = Retryable(text)
BY DEF ErrorEnvelope, Replies, Retryable

LEMMA RejectionType ==
  ASSUME NEW name \in {"ProfileNotFound", "InvalidSpec", "Transport"}
  PROVE  /\ Rejection(name) \in Replies
         /\ Rejection(name).status = "rejected"
         /\ Rejection(name).body = name
         /\ Rejection(name).retryable = FALSE
BY DEF Rejection, Replies

LEMMA LabelOfType ==
  ASSUME NEW text \in Texts
  PROVE  LabelOf(text) \in Labels /\ LabelOf(text) \in AuditedLabels
BY DEF LabelOf, Labels, AuditedLabels

\* What the label of a failed query says of its text.
LEMMA LabelOfText ==
  ASSUME NEW text \in Texts
  PROVE  /\ LabelOf(text) \in {"timeout", "transport_error", "clickhouse_error"}
         /\ LabelOf(text) = "timeout" <=> "timeout" \in text
         /\ LabelOf(text) = "transport_error" => "rejection" \notin text
         /\ Retryable(text) => "rejection" \notin text
         /\ "timeout" \in text /\ "rejection" \notin text => Retryable(text)
BY DEF LabelOf, Retryable

LEMMA BodyForType ==
  ASSUME NEW p \in Profiles, NEW kind \in CallKinds
  PROVE  BodyFor(p, kind) \in {"envelope", "contents", "messages", "page", "values"}
<1>1. p.surface \in Surfaces
  BY DEF Profiles
<1>2. CASE kind = "list"
  BY <1>2 DEF BodyFor
<1>3. CASE kind = "complete"
  BY <1>3 DEF BodyFor
<1>4. CASE kind = "execute"
  BY <1>1, <1>4 DEF BodyFor, Surfaces
<1>. QED
  BY <1>2, <1>3, <1>4 DEF CallKinds

LEMMA QueryOfType ==
  ASSUME NEW p \in Profiles, NEW plan \in Plans
  PROVE  QueryOf(p, plan) \in Queries
BY DEF QueryOf, Queries, Plans, Profiles

LEMMA RowsReadType ==
  ASSUME NEW q \in Queries, NEW a \in Answers
  PROVE  RowsRead(q, a) \in Nat
BY DEF RowsRead, Answers

-----------------------------------------------------------------------------
(* What the steps that end a call, and the server's steps, have in common *)

\* Call c ends with reply r and outcome o.
Ending(c, r, o) ==
  /\ phase[c] \in {"looking", "loaded", "waiting"}
  /\ r \in Replies /\ o \in Labels
  /\ r.status = "ok" /\ query[c] # {} =>
       \E p \in snapshot[c], q \in query[c], a \in answer[c] :
         /\ a.outcome = "rows"
         /\ r = Rows(BodyFor(p, request[c].kind), q.cap, RowsRead(q, a))
  /\ request[c].kind = "execute" => (o \in AuditedLabels <=> Failed(r))
  /\ request[c].kind = "execute" => Explains(o, c, r)
  /\ Return(c, r, o)

EndStep(c) ==
  \/ ProfileMissing(c) \/ RejectPayload(c) \/ RejectParams(c)
  \/ RejectCursor(c) \/ NothingConfigured(c) \/ ReceiveRows(c)
  \/ ReceiveRowsWithoutUri(c) \/ ReceiveFailure(c) \/ Timeout(c)

\* The server answers call c with a.
Answering(c, a) ==
  /\ a \in Answers
  /\ \A q \in query[c] : a.outcome = "rows" =>
       /\ Modifies(q.sql) => applied[c]
       /\ q.limit = {} => a.rows = a.matching
  /\ Answer(c, a)

AnswerStep(c) ==
  \/ ServerReads(c) \/ ServerAcknowledges(c) \/ ServerRefuses(c) \/ ServerFails(c)

\* A query fails with the text of its answer, or with the deadline's own.
LEMMA FailEnds ==
  ASSUME NEW c \in Calls, phase[c] \in {"looking", "loaded", "waiting"},
         request[c] \in RequestType, answer[c] \in Option(Answers), query[c] # {},
         NEW text \in Texts, Fail(c, text),
         \/ text = {"timeout"}
         \/ \E a \in answer[c] : text = a.text
  PROVE  \E r, o : Ending(c, r, o)
<1>1. CASE request[c].kind = "execute"
  <2>1. Return(c, ErrorEnvelope(text), LabelOf(text))
    BY <1>1 DEF Fail
  <2>2. ErrorEnvelope(text).retryable = Retryable(text)
    BY ErrorType
  <2>3. Explains(LabelOf(text), c, ErrorEnvelope(text))
    <3>1. CASE text = {"timeout"}
      <4>1. LabelOf(text) = "timeout" /\ Retryable(text)
        BY <3>1, LabelOfText
      <4>. QED
        BY <2>2, <4>1 DEF Explains
    <3>2. CASE \E a \in answer[c] : text = a.text
      <4>1. PICK a \in answer[c] : text = a.text
        BY <3>2
      <4>2. \A other \in answer[c] : other = a
        BY OptionMembers
      <4>3. LabelOf(text) = "timeout" /\ ~Retryable(text) =>
              {"rejection", "timeout"} \subseteq a.text
        BY <4>1, LabelOfText
      <4>. QED
        BY <2>2, <4>1, <4>2, <4>3, LabelOfText DEF Explains
    <3>. QED
      BY <3>1, <3>2
  <2>4. Ending(c, ErrorEnvelope(text), LabelOf(text))
    BY <1>1, <2>1, <2>3, ErrorType, LabelOfType DEF Ending, Failed
  <2>. QED
    BY <2>4
<1>2. CASE request[c].kind # "execute"
  <2>1. Return(c, Rejection("Transport"), LabelOf(text))
    BY <1>2 DEF Fail
  <2>2. Ending(c, Rejection("Transport"), LabelOf(text))
    BY <1>2, <2>1, RejectionType, LabelOfType DEF Ending
  <2>. QED
    BY <2>2
<1>. QED
  BY <1>1, <1>2

\* Before anything is sent, nothing is answered, and the label says so.
LEMMA NothingSentExplained ==
  ASSUME IInv, NEW c \in Calls, phase[c] \in {"looking", "loaded"}, NEW r,
         NEW o \in {"profile_not_found", "invalid_spec"}
  PROVE  Explains(o, c, r)
<1>1. query[c] = {} /\ answer[c] = {}
  BY DEF IInv, ShapeInv
<1>. QED
  BY <1>1 DEF Explains

\* An execute always has a query to send.
LEMMA ExecuteHasPlan ==
  ASSUME NEW p
  PROVE  PlansFor(p, "execute") # {}
<1>1. PlansFor(p, "execute") = ExecutePlans(p)
  BY DEF PlansFor
<1>2. EffectiveStatements(p) # {}
  BY DEF EffectiveStatements
<1>3. PICK sql \in EffectiveStatements(p) : TRUE
  BY <1>2
<1>4. CatalogPlan(p) \in ExecutePlans(p)
      \/ [sql |-> sql, cap |-> p.max_rows, limit |-> {}] \in ExecutePlans(p)
  BY <1>3 DEF ExecutePlans
<1>. QED
  BY <1>1, <1>4

\* Each way out of a call is an Ending.
LEMMA EndStepEnds ==
  ASSUME IInv, NEW c \in Calls, EndStep(c)
  PROVE  \E r, o : Ending(c, r, o)
<1> USE DEF IInv
<1>0. /\ request[c] \in RequestType /\ request[c].kind \in CallKinds
      /\ snapshot[c] \in Option(Profiles) /\ query[c] \in Option(Queries)
      /\ answer[c] \in Option(Answers)
  BY DEF TypeOK, RequestType
<1>1. CASE ProfileMissing(c)
  <2>1. Explains("profile_not_found", c, Rejection("ProfileNotFound"))
    BY <1>1, NothingSentExplained DEF ProfileMissing
  <2>2. Ending(c, Rejection("ProfileNotFound"), "profile_not_found")
    BY <1>1, <2>1, RejectionType
    DEF ProfileMissing, Ending, Labels, AuditedLabels, Failed
  <2>. QED
    BY <2>2
<1>2. CASE RejectPayload(c)
  <2>1. Explains("invalid_spec", c, Rejection("InvalidSpec"))
    BY <1>2, NothingSentExplained DEF RejectPayload
  <2>2. Ending(c, Rejection("InvalidSpec"), "invalid_spec")
    BY <1>2, <2>1, RejectionType
    DEF RejectPayload, Ending, Labels, AuditedLabels, Failed
  <2>. QED
    BY <2>2
<1>3. CASE RejectParams(c)
  <2>1. PICK text \in FailureTexts : Return(c, ErrorEnvelope(text), "invalid_spec")
    BY <1>3 DEF RejectParams
  <2>2. text \in Texts
    BY FailureTextsAssumption
  <2>3. Explains("invalid_spec", c, ErrorEnvelope(text))
    BY <1>3, NothingSentExplained DEF RejectParams
  <2>4. Ending(c, ErrorEnvelope(text), "invalid_spec")
    BY <1>3, <2>1, <2>2, <2>3, ErrorType
    DEF RejectParams, Ending, Labels, AuditedLabels, Failed
  <2>. QED
    BY <2>4
<1>4. CASE RejectCursor(c)
  <2>1. Ending(c, Rejection("InvalidSpec"), "none")
    BY <1>4, RejectionType DEF RejectCursor, BadCursor, Ending, Labels
  <2>. QED
    BY <2>1
<1>5. CASE NothingConfigured(c)
  <2>1. PICK p \in snapshot[c] :
          Return(c, Rows(BodyFor(p, request[c].kind), 0, 0), "none")
    BY <1>5 DEF NothingConfigured
  <2>2. p \in Profiles
    BY <1>0, OptionMembers
  <2>3. Rows(BodyFor(p, request[c].kind), 0, 0) \in Replies
    BY <1>0, <2>2, BodyForType, RowsType
  <2>4. Rows(BodyFor(p, request[c].kind), 0, 0).status = "ok"
    BY DEF Rows
  <2>5. phase[c] = "loaded" /\ query[c] = {}
    BY <1>5 DEF NothingConfigured, ShapeInv
  <2>6. request[c].kind # "execute"
    <3>1. PICK other \in snapshot[c] : PlansFor(other, request[c].kind) = {}
      BY <1>5 DEF NothingConfigured
    <3>. QED
      BY <3>1, ExecuteHasPlan
  <2>7. Ending(c, Rows(BodyFor(p, request[c].kind), 0, 0), "none")
    BY <2>1, <2>3, <2>4, <2>5, <2>6 DEF Ending, Labels
  <2>. QED
    BY <2>7
<1>6. CASE ReceiveRows(c)
  <2>1. PICK p \in snapshot[c], q \in query[c], a \in answer[c] :
          /\ a.outcome = "rows"
          /\ Return(c, Rows(BodyFor(p, request[c].kind), q.cap, RowsRead(q, a)), "ok")
    BY <1>6 DEF ReceiveRows
  <2> DEFINE r == Rows(BodyFor(p, request[c].kind), q.cap, RowsRead(q, a))
  <2>2. p \in Profiles /\ q \in Queries /\ a \in Answers
    BY <1>0, OptionMembers
  <2>3. q.cap \in Nat
    BY <2>2 DEF Queries
  <2>4. r \in Replies
    BY <1>0, <2>2, <2>3, BodyForType, RowsReadType, RowsType
  <2>5. r.status = "ok" /\ r.retryable = FALSE
    BY DEF Rows
  <2>6. Explains("ok", c, r)
    BY <2>1, <2>5 DEF Explains
  <2>7. Ending(c, r, "ok")
    BY <1>6, <2>1, <2>4, <2>5, <2>6
    DEF ReceiveRows, Ending, Labels, AuditedLabels, Failed
  <2>. QED
    BY <2>7
<1>7. CASE ReceiveRowsWithoutUri(c)
  <2>1. {} \in Texts
    BY DEF Texts
  <2>2. ErrorEnvelope({}).retryable = FALSE
    BY DEF ErrorEnvelope, Retryable
  <2>3. Explains("clickhouse_error", c, ErrorEnvelope({}))
    <3>1. answer[c] # {} /\ query[c] # {}
      BY <1>7 DEF ReceiveRowsWithoutUri, ShapeInv
    <3>. QED
      BY <2>2, <3>1 DEF Explains
  <2>4. Ending(c, ErrorEnvelope({}), "clickhouse_error")
    BY <1>7, <2>1, <2>3, ErrorType
    DEF ReceiveRowsWithoutUri, Ending, Labels, AuditedLabels, Failed
  <2>. QED
    BY <2>4
<1>8. CASE ReceiveFailure(c)
  <2>0. query[c] # {}
    BY <1>8 DEF ReceiveFailure, ShapeInv
  <2>1. PICK a \in answer[c] : Fail(c, a.text)
    BY <1>8 DEF ReceiveFailure
  <2>2. a \in Answers
    BY <1>0, OptionMembers
  <2>3. a.text \in Texts
    BY <2>2 DEF Answers
  <2>. QED
    BY <1>0, <1>8, <2>0, <2>1, <2>3, FailEnds DEF ReceiveFailure
<1>9. CASE Timeout(c)
  <2>1. {"timeout"} \in Texts
    BY DEF Texts, Tokens
  <2>2. query[c] # {}
    BY <1>9 DEF Timeout, ShapeInv
  <2>. QED
    BY <1>0, <1>9, <2>1, <2>2, FailEnds DEF Timeout
<1>. QED
  BY <1>1, <1>2, <1>3, <1>4, <1>5, <1>6, <1>7, <1>8, <1>9 DEF EndStep

\* Each answer of the server is an Answering.
LEMMA AnswerStepAnswers ==
  ASSUME IInv, NEW c \in Calls, AnswerStep(c)
  PROVE  \E a : Answering(c, a)
<1> USE DEF IInv
<1>0. query[c] \in Option(Queries)
  BY DEF TypeOK
<1>1. CASE ServerReads(c)
  <2>1. PICK q \in query[c], n \in RowCounts :
          /\ ~Modifies(q.sql)
          /\ \E sent \in RowsSent(q, n) :
               Answer(c, [outcome |-> "rows", matching |-> n, rows |-> sent,
                          text |-> {}])
    BY <1>1 DEF ServerReads
  <2>2. PICK sent \in RowsSent(q, n) :
          Answer(c, [outcome |-> "rows", matching |-> n, rows |-> sent, text |-> {}])
    BY <2>1
  <2>3. q \in Queries /\ \A other \in query[c] : other = q
    BY <1>0, OptionMembers
  <2>4. n \in Nat
    BY RowCountsAssumption
  <2>5. sent \in Nat /\ (q.limit = {} => sent = n)
    <3>1. CASE q.limit = {}
      BY <3>1, <2>4 DEF RowsSent
    <3>2. CASE q.limit # {}
      <4>1. PICK l \in q.limit : sent = MinOf(n, l)
        BY <3>2 DEF RowsSent
      <4>2. q.limit \in Option(Nat)
        BY <2>3 DEF Queries
      <4>3. l \in Nat
        BY <4>2, OptionMembers
      <4>. QED
        BY <3>2, <4>1, <4>3, <2>4 DEF MinOf
    <3>. QED
      BY <3>1, <3>2
  <2> DEFINE a == [outcome |-> "rows", matching |-> n, rows |-> sent, text |-> {}]
  <2>6. a \in Answers
    BY <2>4, <2>5 DEF Answers, Texts
  <2>7. Answering(c, a)
    BY <2>1, <2>2, <2>3, <2>5, <2>6 DEF Answering
  <2>. QED
    BY <2>7
<1>2. CASE ServerAcknowledges(c)
  <2> DEFINE a == [outcome |-> "rows", matching |-> 0, rows |-> 0, text |-> {}]
  <2>1. a \in Answers
    BY DEF Answers, Texts
  <2>2. Answering(c, a)
    BY <1>2, <2>1 DEF ServerAcknowledges, Answering
  <2>. QED
    BY <2>2
<1>3. CASE ServerRefuses(c)
  <2> DEFINE a == [outcome |-> "refused", matching |-> 0, rows |-> 0,
                   text |-> {"rejection"}]
  <2>1. a \in Answers
    BY DEF Answers, Texts, Tokens
  <2>2. Answering(c, a)
    BY <1>3, <2>1 DEF ServerRefuses, Answering
  <2>. QED
    BY <2>2
<1>4. CASE ServerFails(c)
  <2>1. PICK text \in FailureTexts :
          Answer(c, [outcome |-> "failed", matching |-> 0, rows |-> 0, text |-> text])
    BY <1>4 DEF ServerFails
  <2> DEFINE a == [outcome |-> "failed", matching |-> 0, rows |-> 0, text |-> text]
  <2>2. a \in Answers
    BY FailureTextsAssumption DEF Answers
  <2>3. Answering(c, a)
    BY <2>1, <2>2 DEF Answering
  <2>. QED
    BY <2>3
<1>. QED
  BY <1>1, <1>2, <1>3, <1>4 DEF AnswerStep

\* The steps of the specification, with the ends of a call and the answers of the
\* server collected.
Step ==
  \/ \E b \in Bindings, s \in Specs : Register(b, s)
  \/ SetHostHandle
  \/ \E c \in Calls :
       \/ Begin(c) \/ LoadProfile(c) \/ Dispatch(c) \/ AuditDone(c)
       \/ \E r, o : Ending(c, r, o)
       \/ ServerModifies(c)
       \/ \E a : Answering(c, a)
  \/ UNCHANGED vars

LEMMA NextIsStep ==
  ASSUME IInv, [Next]_vars
  PROVE  Step
<1>1. ASSUME NEW c \in Calls, CallStep(c)
      PROVE  Step
  <2>1. LoadProfile(c) \/ Dispatch(c) \/ AuditDone(c) \/ EndStep(c)
    BY <1>1 DEF CallStep, EndStep
  <2>. QED
    BY <2>1, EndStepEnds DEF Step
<1>2. ASSUME NEW c \in Calls, ServerStep(c)
      PROVE  Step
  <2>1. ServerModifies(c) \/ AnswerStep(c)
    BY <1>2 DEF ServerStep, AnswerStep
  <2>. QED
    BY <2>1, AnswerStepAnswers DEF Step
<1>. QED
  BY <1>1, <1>2 DEF Next, Step

-----------------------------------------------------------------------------
(* The invariant is inductive: one lemma per conjunct, one case per step. *)

LEMMA TypeStep ==
  ASSUME IInv, Step
  PROVE  TypeOK'
<1> USE DEF IInv, TypeOK, client, server, vars
<1>1. ASSUME NEW b \in Bindings, NEW s \in Specs, Register(b, s)
      PROVE  TypeOK'
  <2>1. {ProfileOf(s)} \in Option(Profiles)
    BY SpecsAssumption, ProfileOfType, SingletonIsOption
  <2>. QED
    BY <1>1, <2>1 DEF Register
<1>2. CASE SetHostHandle
  BY <1>2 DEF SetHostHandle
<1>3. ASSUME NEW c \in Calls, Begin(c)
      PROVE  TypeOK'
  <2>1. (host /\ request[c].kind = "execute") \in BOOLEAN
    OBVIOUS
  <2>. QED
    BY <1>3, <2>1 DEF Begin, Phases
<1>4. ASSUME NEW c \in Calls, LoadProfile(c)
      PROVE  TypeOK'
  <2>1. profiles[request[c].binding] \in Option(Profiles)
    BY DEF RequestType
  <2>. QED
    BY <1>4, <2>1 DEF LoadProfile, Phases
<1>5. ASSUME NEW c \in Calls, Dispatch(c)
      PROVE  TypeOK'
  <2>1. PICK p \in snapshot[c] : \E plan \in PlansFor(p, request[c].kind) :
          query' = [query EXCEPT ![c] = {QueryOf(p, plan)}]
    BY <1>5 DEF Dispatch
  <2>2. PICK plan \in PlansFor(p, request[c].kind) :
          query' = [query EXCEPT ![c] = {QueryOf(p, plan)}]
    BY <2>1
  <2>3. p \in Profiles /\ request[c].kind \in CallKinds
    BY OptionMembers DEF RequestType
  <2>4. {QueryOf(p, plan)} \in Option(Queries)
    BY <2>3, PlansForType, QueryOfType, SingletonIsOption
  <2>. QED
    BY <1>5, <2>2, <2>4 DEF Dispatch, Phases
<1>6. ASSUME NEW c \in Calls, AuditDone(c)
      PROVE  TypeOK'
  BY <1>6 DEF AuditDone, Phases
<1>7. ASSUME NEW c \in Calls, NEW r, NEW o, Ending(c, r, o)
      PROVE  TypeOK'
  <2>1. {r} \in Option(Replies) /\ o \in Labels
    BY <1>7, SingletonIsOption DEF Ending
  <2>2. Return(c, r, o)
    BY <1>7 DEF Ending
  <2>3. /\ reply' \in [Calls -> Option(Replies)]
        /\ UNCHANGED <<profiles, host, request, span, snapshot, query,
                       answer, applied, audits>>
    BY <2>1, <2>2 DEF Return
  <2>4. /\ label' \in [Calls -> Labels]
        /\ metrics' \in [Calls -> Nat]
        /\ phase' \in [Calls -> Phases]
    <3>1. CASE request[c].kind = "execute"
      <4>1. Emit(c, o)
        BY <2>2, <3>1 DEF Return
      <4>. QED
        BY <2>1, <4>1 DEF Emit, Phases
    <3>2. CASE request[c].kind # "execute"
      BY <2>2, <3>2 DEF Return, Phases
    <3>. QED
      BY <3>1, <3>2
  <2>. QED
    BY <2>3, <2>4
<1>8. ASSUME NEW c \in Calls, ServerModifies(c)
      PROVE  TypeOK'
  BY <1>8 DEF ServerModifies
<1>9. ASSUME NEW c \in Calls, NEW a, Answering(c, a)
      PROVE  TypeOK'
  <2>1. {a} \in Option(Answers)
    BY <1>9, SingletonIsOption DEF Answering
  <2>. QED
    BY <1>9, <2>1 DEF Answering, Answer
<1>10. CASE UNCHANGED vars
  BY <1>10
<1>. QED
  BY <1>1, <1>2, <1>3, <1>4, <1>5, <1>6, <1>7, <1>8, <1>9, <1>10 DEF Step

LEMMA RegistryStep ==
  ASSUME IInv, Step
  PROVE  RegistryIsServable'
<1> USE DEF IInv, TypeOK, RegistryIsServable, client, server, vars
<1>1. ASSUME NEW b \in Bindings, NEW s \in Specs, Register(b, s)
      PROVE  RegistryIsServable'
  <2>1. Servable(ProfileOf(s))
    BY <1>1, SpecsAssumption, AcceptedSpecIsServable DEF Register
  <2>. QED
    BY <1>1, <2>1 DEF Register
<1>2. CASE UNCHANGED profiles
  BY <1>2
<1>3. (\E b \in Bindings, s \in Specs : Register(b, s)) \/ UNCHANGED profiles
  BY DEF Step, SetHostHandle, Begin, LoadProfile, Dispatch, AuditDone,
         Ending, Return, ServerModifies, Answering, Answer
<1>. QED
  BY <1>1, <1>2, <1>3

\* What an Ending does to the call it ends, and to no other.
LEMMA EndingEffect ==
  ASSUME TypeOK, NEW c \in Calls, NEW r, NEW o, Ending(c, r, o)
  PROVE  /\ \A d \in Calls : d # c =>
              /\ phase'[d] = phase[d] /\ reply'[d] = reply[d]
              /\ label'[d] = label[d] /\ metrics'[d] = metrics[d]
         /\ reply'[c] = {r}
         /\ phase'[c] = IF request[c].kind = "execute" /\ host /\ o \in AuditedLabels
                        THEN "auditing" ELSE "done"
         /\ label'[c] = IF request[c].kind = "execute" THEN o ELSE label[c]
         /\ metrics'[c] = IF request[c].kind = "execute" /\ host
                          THEN metrics[c] + 1 ELSE metrics[c]
         /\ UNCHANGED <<profiles, host, request, span, snapshot, query,
                        answer, applied, audits>>
<1> USE DEF TypeOK
<1>1. Return(c, r, o)
  BY DEF Ending
<1>2. CASE request[c].kind = "execute"
  <2>1. Emit(c, o)
    BY <1>1, <1>2 DEF Return
  <2>. QED
    BY <1>1, <1>2, <2>1 DEF Return, Emit, server
<1>3. CASE request[c].kind # "execute"
  BY <1>1, <1>3 DEF Return, server
<1>. QED
  BY <1>2, <1>3

LEMMA ShapeStep ==
  ASSUME IInv, Step
  PROVE  ShapeInv'
<1> USE DEF IInv, TypeOK, ShapeInv, client, server, vars
<1>1. ASSUME NEW b \in Bindings, NEW s \in Specs, Register(b, s)
      PROVE  ShapeInv'
  BY <1>1 DEF Register
<1>2. CASE SetHostHandle
  BY <1>2 DEF SetHostHandle
<1>3. ASSUME NEW c \in Calls, Begin(c)
      PROVE  ShapeInv'
  BY <1>3 DEF Begin
<1>4. ASSUME NEW c \in Calls, LoadProfile(c)
      PROVE  ShapeInv'
  BY <1>4 DEF LoadProfile
<1>5. ASSUME NEW c \in Calls, Dispatch(c)
      PROVE  ShapeInv'
  <2>1. /\ phase[c] = "loaded" /\ phase' = [phase EXCEPT ![c] = "waiting"]
        /\ UNCHANGED <<snapshot, answer, applied, reply, label>>
    BY <1>5 DEF Dispatch
  <2>2. PICK q : query' = [query EXCEPT ![c] = {q}]
    BY <1>5 DEF Dispatch
  <2>3. query[c] = {} /\ answer[c] = {} /\ ~applied[c] /\ reply[c] = {} /\ label[c] = "none"
    BY <2>1
  <2>. QED
    BY <2>1, <2>2, <2>3
<1>6. ASSUME NEW c \in Calls, AuditDone(c)
      PROVE  ShapeInv'
  BY <1>6 DEF AuditDone
<1>7. ASSUME NEW c \in Calls, NEW r, NEW o, Ending(c, r, o)
      PROVE  ShapeInv'
  <2>1. phase'[c] \in {"auditing", "done"}
    BY <1>7, EndingEffect
  <2>. QED
    BY <1>7, <2>1, EndingEffect
<1>8. ASSUME NEW c \in Calls, ServerModifies(c)
      PROVE  ShapeInv'
  BY <1>8 DEF ServerModifies
<1>9. ASSUME NEW c \in Calls, NEW a, Answering(c, a)
      PROVE  ShapeInv'
  BY <1>9 DEF Answering, Answer
<1>10. CASE UNCHANGED vars
  BY <1>10
<1>. QED
  BY <1>1, <1>2, <1>3, <1>4, <1>5, <1>6, <1>7, <1>8, <1>9, <1>10 DEF Step

LEMMA SourceStep ==
  ASSUME IInv, Step
  PROVE  SourceInv'
<1> USE DEF IInv, TypeOK, SourceInv, client, server, vars
<1>1. ASSUME NEW c \in Calls, LoadProfile(c)
      PROVE  SourceInv'
  <2>1. query[c] = {}
    BY <1>1 DEF LoadProfile, ShapeInv
  <2>2. \A p \in profiles[request[c].binding] : Servable(p)
    BY DEF RegistryIsServable, RequestType
  <2>. QED
    BY <1>1, <2>1, <2>2 DEF LoadProfile
<1>2. ASSUME NEW c \in Calls, Dispatch(c)
      PROVE  SourceInv'
  <2>1. PICK p \in snapshot[c] : \E plan \in PlansFor(p, request[c].kind) :
          query' = [query EXCEPT ![c] = {QueryOf(p, plan)}]
    BY <1>2 DEF Dispatch
  <2>2. PICK plan \in PlansFor(p, request[c].kind) :
          query' = [query EXCEPT ![c] = {QueryOf(p, plan)}]
    BY <2>1
  <2>3. UNCHANGED <<snapshot, request>>
    BY <1>2 DEF Dispatch
  <2>4. \A d \in Calls : \A q \in query'[d] : \E p2 \in snapshot[d] :
          \E plan2 \in PlansFor(p2, request[d].kind) : q = QueryOf(p2, plan2)
    <3> SUFFICES ASSUME NEW d \in Calls, NEW q \in query'[d]
                 PROVE  \E p2 \in snapshot[d] :
                          \E plan2 \in PlansFor(p2, request[d].kind) :
                            q = QueryOf(p2, plan2)
      OBVIOUS
    <3>1. CASE d = c
      BY <2>1, <2>2, <3>1
    <3>2. CASE d # c
      BY <2>2, <3>2
    <3>. QED
      BY <3>1, <3>2
  <2>. QED
    BY <2>3, <2>4
<1>3. CASE UNCHANGED <<snapshot, query, request>>
  BY <1>3
<1>4. \/ \E c \in Calls : LoadProfile(c) \/ Dispatch(c)
      \/ UNCHANGED <<snapshot, query, request>>
  BY DEF Step, Register, SetHostHandle, Begin, AuditDone, Ending, Return,
         ServerModifies, Answering, Answer
<1>. QED
  BY <1>1, <1>2, <1>3, <1>4

LEMMA ServerStepInv ==
  ASSUME IInv, Step
  PROVE  ServerInv'
<1> USE DEF IInv, TypeOK, ServerInv, client, server, vars
<1>1. ASSUME NEW c \in Calls, Dispatch(c)
      PROVE  ServerInv'
  <2>1. PICK q : query' = [query EXCEPT ![c] = {q}]
    BY <1>1 DEF Dispatch
  <2>2. query[c] = {} /\ UNCHANGED <<answer, applied>>
    BY <1>1 DEF Dispatch, ShapeInv
  <2>3. answer[c] = {} /\ ~applied[c]
    BY <2>2 DEF ShapeInv
  <2>. QED
    BY <2>1, <2>2, <2>3
<1>2. ASSUME NEW c \in Calls, ServerModifies(c)
      PROVE  ServerInv'
  <2>1. PICK q \in query[c] : Modifies(q.sql) /\ ~Refuses(q)
    BY <1>2 DEF ServerModifies
  <2>2. q \in Queries
    BY OptionMembers
  <2>3. q.method = "POST"
    BY <2>1, <2>2 DEF Refuses, Queries
  <2>. QED
    BY <1>2, <2>3 DEF ServerModifies
<1>3. ASSUME NEW c \in Calls, NEW a, Answering(c, a)
      PROVE  ServerInv'
  <2>1. answer' = [answer EXCEPT ![c] = {a}] /\ UNCHANGED <<query, applied>>
    BY <1>3 DEF Answering, Answer
  <2>2. \A q \in query[c] : a.outcome = "rows" =>
          /\ Modifies(q.sql) => applied[c]
          /\ q.limit = {} => a.rows = a.matching
    BY <1>3 DEF Answering
  <2>. QED
    BY <2>1, <2>2
<1>4. CASE UNCHANGED <<query, answer, applied>>
  BY <1>4
<1>5. \/ \E c \in Calls : \/ Dispatch(c) \/ ServerModifies(c)
                         \/ \E a : Answering(c, a)
      \/ UNCHANGED <<query, answer, applied>>
  BY DEF Step, Register, SetHostHandle, Begin, LoadProfile, AuditDone, Ending, Return
<1>. QED
  BY <1>1, <1>2, <1>3, <1>4, <1>5

LEMMA ReplyStep ==
  ASSUME IInv, Step
  PROVE  ReplyInv'
<1> USE DEF IInv, TypeOK, ReplyInv, client, server, vars
<1>1. ASSUME NEW c \in Calls, LoadProfile(c)
      PROVE  ReplyInv'
  <2>1. reply[c] = {}
    BY <1>1 DEF LoadProfile, ShapeInv
  <2>. QED
    BY <1>1, <2>1 DEF LoadProfile
<1>2. ASSUME NEW c \in Calls, Dispatch(c)
      PROVE  ReplyInv'
  <2>1. PICK q : query' = [query EXCEPT ![c] = {q}]
    BY <1>2 DEF Dispatch
  <2>2. reply[c] = {} /\ UNCHANGED <<snapshot, request, answer, reply>>
    BY <1>2 DEF Dispatch, ShapeInv
  <2>. QED
    BY <2>1, <2>2
<1>3. ASSUME NEW c \in Calls, NEW r, NEW o, Ending(c, r, o)
      PROVE  ReplyInv'
  <2>1. /\ reply'[c] = {r} /\ \A d \in Calls : d # c => reply'[d] = reply[d]
        /\ UNCHANGED <<snapshot, query, answer, request>>
    BY <1>3, EndingEffect
  <2>2. r.status = "ok" /\ query[c] # {} =>
          \E p \in snapshot[c], q \in query[c], a \in answer[c] :
            /\ a.outcome = "rows"
            /\ r = Rows(BodyFor(p, request[c].kind), q.cap, RowsRead(q, a))
    BY <1>3 DEF Ending
  <2>. QED
    BY <2>1, <2>2
<1>4. ASSUME NEW c \in Calls, NEW a, Answering(c, a)
      PROVE  ReplyInv'
  <2>1. /\ answer[c] = {} /\ answer' = [answer EXCEPT ![c] = {a}]
        /\ UNCHANGED <<snapshot, query, reply, request>>
    BY <1>4 DEF Answering, Answer
  <2>2. \A r \in reply[c] : ~(r.status = "ok" /\ query[c] # {})
    BY <2>1
  <2>. QED
    BY <2>1, <2>2
<1>5. CASE UNCHANGED <<snapshot, query, answer, reply, request>>
  BY <1>5
<1>6. \/ \E c \in Calls : \/ LoadProfile(c) \/ Dispatch(c)
                         \/ \E r, o : Ending(c, r, o)
                         \/ \E a : Answering(c, a)
      \/ UNCHANGED <<snapshot, query, answer, reply, request>>
  BY DEF Step, Register, SetHostHandle, Begin, AuditDone, ServerModifies
<1>. QED
  BY <1>1, <1>2, <1>3, <1>4, <1>5, <1>6

LEMMA HostStep ==
  ASSUME IInv, Step
  PROVE  HostInv' /\ OneTriadPerCall'
<1> USE DEF IInv, TypeOK, HostInv, OneTriadPerCall, client, server, vars
<1>1. CASE SetHostHandle
  BY <1>1 DEF SetHostHandle
<1>2. ASSUME NEW c \in Calls, Begin(c)
      PROVE  HostInv' /\ OneTriadPerCall'
  BY <1>2 DEF Begin
<1>3. ASSUME NEW c \in Calls, LoadProfile(c)
      PROVE  HostInv' /\ OneTriadPerCall'
  BY <1>3 DEF LoadProfile
<1>4. ASSUME NEW c \in Calls, Dispatch(c)
      PROVE  HostInv' /\ OneTriadPerCall'
  <2>1. /\ phase[c] = "loaded" /\ phase' = [phase EXCEPT ![c] = "waiting"]
        /\ UNCHANGED <<host, request, span, reply, metrics, audits>>
    BY <1>4 DEF Dispatch
  <2>. QED
    BY <2>1
<1>5. ASSUME NEW c \in Calls, AuditDone(c)
      PROVE  HostInv' /\ OneTriadPerCall'
  <2>1. /\ phase[c] = "auditing" /\ phase' = [phase EXCEPT ![c] = "done"]
        /\ audits' = [audits EXCEPT ![c] = @ + 1]
        /\ UNCHANGED <<host, request, span, reply, metrics>>
    BY <1>5 DEF AuditDone
  <2>2. /\ request[c].kind = "execute" /\ metrics[c] = 1 /\ audits[c] = 0
        /\ \A r \in reply[c] : Failed(r)
    BY <2>1
  <2>. QED
    BY <2>1, <2>2 DEF Failed
<1>6. ASSUME NEW c \in Calls, NEW r, NEW o, Ending(c, r, o)
      PROVE  HostInv' /\ OneTriadPerCall'
  <2>1. /\ \A d \in Calls : d # c =>
             phase'[d] = phase[d] /\ reply'[d] = reply[d] /\ metrics'[d] = metrics[d]
        /\ reply'[c] = {r}
        /\ phase'[c] = IF request[c].kind = "execute" /\ host /\ o \in AuditedLabels
                       THEN "auditing" ELSE "done"
        /\ metrics'[c] = IF request[c].kind = "execute" /\ host
                         THEN metrics[c] + 1 ELSE metrics[c]
        /\ UNCHANGED <<host, request, span, audits>>
    BY <1>6, EndingEffect
  <2>2. /\ metrics[c] = 0 /\ audits[c] = 0
        /\ request[c].kind = "execute" => (o \in AuditedLabels <=> Failed(r))
    BY <1>6 DEF Ending
  <2>. QED
    BY <2>1, <2>2 DEF Failed
<1>7. CASE UNCHANGED <<phase, reply, host, request, span, metrics, audits>>
  BY <1>7
<1>8. \/ SetHostHandle
      \/ \E c \in Calls : \/ Begin(c) \/ LoadProfile(c) \/ Dispatch(c) \/ AuditDone(c)
                         \/ \E r, o : Ending(c, r, o)
      \/ UNCHANGED <<phase, reply, host, request, span, metrics, audits>>
  BY DEF Step, Register, ServerModifies, Answering, Answer
<1>. QED
  BY <1>1, <1>2, <1>3, <1>4, <1>5, <1>6, <1>7, <1>8

LEMMA LabelStep ==
  ASSUME IInv, Step
  PROVE  LabelTellsWhatHappened'
<1> USE DEF IInv, TypeOK, LabelTellsWhatHappened, client, server, vars
<1>1. ASSUME NEW c \in Calls, NEW r, NEW o, Ending(c, r, o)
      PROVE  LabelTellsWhatHappened'
  <2>1. /\ \A d \in Calls : d # c => reply'[d] = reply[d] /\ label'[d] = label[d]
        /\ reply'[c] = {r}
        /\ label'[c] = IF request[c].kind = "execute" THEN o ELSE label[c]
        /\ UNCHANGED <<request, query, answer>>
    BY <1>1, EndingEffect
  <2>2. request[c].kind = "execute" => Explains(o, c, r)
    BY <1>1 DEF Ending
  <2>. QED
    BY <2>1, <2>2 DEF Explains
<1>2. ASSUME NEW c \in Calls, Dispatch(c)
      PROVE  LabelTellsWhatHappened'
  <2>1. PICK q : query' = [query EXCEPT ![c] = {q}]
    BY <1>2 DEF Dispatch
  <2>2. reply[c] = {} /\ UNCHANGED <<request, answer, reply, label>>
    BY <1>2 DEF Dispatch, ShapeInv
  <2>. QED
    BY <2>1, <2>2 DEF Explains
<1>3. ASSUME NEW c \in Calls, NEW a, Answering(c, a)
      PROVE  LabelTellsWhatHappened'
  <2>1. /\ answer[c] = {} /\ query[c] # {} /\ answer' = [answer EXCEPT ![c] = {a}]
        /\ UNCHANGED <<request, query, reply, label>>
    BY <1>3 DEF Answering, Answer
  <2>2. ASSUME NEW r \in reply[c], request[c].kind = "execute"
        PROVE  Explains(label[c], c, r)'
    \* Only the deadline ends a call that has a query and no answer.
    <3>1. label[c] = "timeout" /\ r.retryable
      BY <2>1, <2>2 DEF Explains, Labels
    <3>. QED
      BY <2>1, <3>1 DEF Explains
  <2>3. ASSUME NEW d \in Calls, d # c, NEW r \in reply[d], request[d].kind = "execute"
        PROVE  Explains(label[d], d, r)'
    BY <2>1, <2>3 DEF Explains
  <2>. QED
    BY <2>1, <2>2, <2>3
<1>4. CASE UNCHANGED <<request, query, answer, reply, label>>
  BY <1>4 DEF Explains
<1>5. \/ \E c \in Calls : \/ Dispatch(c) \/ \E r, o : Ending(c, r, o)
                         \/ \E a : Answering(c, a)
      \/ UNCHANGED <<request, query, answer, reply, label>>
  BY DEF Step, Register, SetHostHandle, Begin, LoadProfile, AuditDone, ServerModifies
<1>. QED
  BY <1>1, <1>2, <1>3, <1>4, <1>5

LEMMA InitIInv == Init => IInv
<1> SUFFICES ASSUME Init
             PROVE  IInv
  OBVIOUS
<1> USE DEF Init
<1>1. TypeOK
  BY RequestsAssumption, SingletonIsOption DEF TypeOK, Option, Phases, Labels
<1>2. RegistryIsServable /\ ShapeInv /\ SourceInv /\ ServerInv /\ ReplyInv
  BY DEF RegistryIsServable, ShapeInv, SourceInv, ServerInv, ReplyInv
<1>3. HostInv /\ OneTriadPerCall /\ LabelTellsWhatHappened
  BY DEF HostInv, OneTriadPerCall, LabelTellsWhatHappened
<1>. QED
  BY <1>1, <1>2, <1>3 DEF IInv

LEMMA IInvStep == IInv /\ [Next]_vars => IInv'
<1> SUFFICES ASSUME IInv, [Next]_vars
             PROVE  IInv'
  OBVIOUS
<1>1. Step
  BY NextIsStep
<1>. QED
  BY <1>1, TypeStep, RegistryStep, ShapeStep, SourceStep, ServerStepInv,
     ReplyStep, HostStep, LabelStep
  DEF IInv

\* The inductive invariant holds in every reachable state.
THEOREM Invariance == Spec => []IInv
BY InitIInv, IInvStep, PTL DEF Spec

-----------------------------------------------------------------------------
(* What follows from it *)

\* The query of a call was built from the one profile the call cloned.
LEMMA QueryOrigin ==
  ASSUME IInv, NEW c \in Calls, NEW p \in snapshot[c], NEW q \in query[c]
  PROVE  \E plan \in PlansFor(p, request[c].kind) : q = QueryOf(p, plan)
<1>1. PICK p2 \in snapshot[c] :
        \E plan \in PlansFor(p2, request[c].kind) : q = QueryOf(p2, plan)
  BY DEF IInv, SourceInv
<1>2. p2 = p
  BY OptionMembers DEF IInv, TypeOK
<1>. QED
  BY <1>1, <1>2

LEMMA GuardedFromIInv == IInv => OnlyGuardedSqlLeaves
<1> SUFFICES ASSUME IInv, NEW c \in Calls, NEW p \in snapshot[c], NEW q \in query[c]
             PROVE  /\ q.sql \notin {"blank", "cred"}
                    /\ p.read_only => GuardPasses(q.sql) /\ q.method = "GET"
  BY DEF OnlyGuardedSqlLeaves
<1>1. PICK plan \in PlansFor(p, request[c].kind) : q = QueryOf(p, plan)
  BY QueryOrigin
<1>2. Servable(p) /\ request[c].kind \in CallKinds
  BY DEF IInv, SourceInv, TypeOK, RequestType
<1>3. /\ plan.sql \notin {"blank", "cred"}
      /\ p.read_only => GuardPasses(plan.sql)
  BY <1>2 DEF Servable
<1>4. q.sql = plan.sql /\ (p.read_only => q.method = "GET")
  BY <1>1 DEF QueryOf, RunsReadOnly
<1>. QED
  BY <1>3, <1>4

LEMMA ReadOnlyFromIInv == IInv => ReadOnlyNeverModifies
<1> SUFFICES ASSUME IInv, NEW c \in Calls, applied[c]
             PROVE  \E p \in snapshot[c] : ~p.read_only /\ ~IsCatalog(p.operation)
  BY DEF ReadOnlyNeverModifies
<1>1. PICK q \in query[c] : q.method = "POST"
  BY DEF IInv, ServerInv
<1>2. PICK p \in snapshot[c] :
        \E plan \in PlansFor(p, request[c].kind) : q = QueryOf(p, plan)
  BY DEF IInv, SourceInv
<1>3. ~RunsReadOnly(p)
  BY <1>1, <1>2 DEF QueryOf
<1>. QED
  BY <1>2, <1>3 DEF RunsReadOnly, IInv, TypeOK

LEMMA AcknowledgedFromIInv == IInv => AcknowledgedWriteApplied
<1> SUFFICES ASSUME IInv, NEW c \in Calls, NEW r \in reply[c], NEW q \in query[c],
                    r.status = "ok", Modifies(q.sql)
             PROVE  applied[c]
  BY DEF AcknowledgedWriteApplied
<1>1. PICK a \in answer[c] : a.outcome = "rows"
  BY DEF IInv, ReplyInv
<1>. QED
  BY <1>1 DEF IInv, ServerInv

LEMMA SnapshotFromIInv == IInv => ReplyMatchesSnapshot
<1> SUFFICES ASSUME IInv, NEW c \in Calls, NEW q \in query[c]
             PROVE  \E p \in snapshot[c] :
                      /\ \E plan \in PlansFor(p, request[c].kind) : q = QueryOf(p, plan)
                      /\ \A r \in reply[c] :
                           r.status = "ok" => r.body = BodyFor(p, request[c].kind)
  BY DEF ReplyMatchesSnapshot
<1>1. PICK p \in snapshot[c] :
        \E plan \in PlansFor(p, request[c].kind) : q = QueryOf(p, plan)
  BY DEF IInv, SourceInv
<1>2. ASSUME NEW r \in reply[c], r.status = "ok"
      PROVE  r.body = BodyFor(p, request[c].kind)
  <2>1. PICK p2 \in snapshot[c], q2 \in query[c], a \in answer[c] :
          r = Rows(BodyFor(p2, request[c].kind), q2.cap, RowsRead(q2, a))
    BY <1>2 DEF IInv, ReplyInv
  <2>2. p2 = p
    BY OptionMembers DEF IInv, TypeOK
  <2>. QED
    BY <2>1, <2>2 DEF Rows
<1>. QED
  BY <1>1, <1>2

LEMMA AccountedFromIInv == IInv => RowsAreAccountedFor
<1> SUFFICES ASSUME IInv, NEW c \in Calls, NEW p \in snapshot[c],
                    NEW a \in answer[c], NEW r \in reply[c],
                    request[c].kind = "execute",
                    p.operation = "query", p.read_only,
                    r.status = "ok", r.body = "envelope"
             PROVE  /\ r.rows = MinOf(a.matching, p.max_rows)
                    /\ r.count = a.matching
                    /\ r.truncated <=> a.matching > p.max_rows
  BY DEF RowsAreAccountedFor
<1>1. query[c] # {}
  BY DEF IInv, ShapeInv
<1>2. PICK p2 \in snapshot[c], q \in query[c], a2 \in answer[c] :
        /\ a2.outcome = "rows"
        /\ r = Rows(BodyFor(p2, request[c].kind), q.cap, RowsRead(q, a2))
  BY <1>1 DEF IInv, ReplyInv
<1>3. a2 = a /\ a \in Answers /\ p \in Profiles
  BY OptionMembers DEF IInv, TypeOK
<1>4. PICK plan \in PlansFor(p, request[c].kind) : q = QueryOf(p, plan)
  BY QueryOrigin
<1>5. plan.cap = p.max_rows /\ plan.limit = {}
  <2>1. plan \in ExecutePlans(p)
    BY <1>4 DEF PlansFor
  <2>2. ~IsCatalog(p.operation)
    BY DEF IsCatalog
  <2>3. PICK sql \in EffectiveStatements(p) :
          plan = [sql |-> sql, cap |-> p.max_rows, limit |-> {}]
    BY <2>1, <2>2 DEF ExecutePlans
  <2>. QED
    BY <2>3
<1>6. q.cap = p.max_rows /\ q.limit = {} /\ q.method = "GET"
  BY <1>4, <1>5 DEF QueryOf, RunsReadOnly
<1>7. a.rows = a.matching
  BY <1>2, <1>3, <1>6 DEF IInv, ServerInv
<1>8. RowsRead(q, a2) = a.matching
  BY <1>3, <1>6, <1>7 DEF RowsRead
<1>9. a.matching \in Nat /\ p.max_rows \in Nat
  BY <1>3 DEF Answers, Profiles
<1>10. r = Rows(BodyFor(p2, request[c].kind), p.max_rows, a.matching)
  BY <1>2, <1>6, <1>8
<1>11. BodyFor(p2, request[c].kind) = "envelope"
  BY <1>10 DEF Rows
<1>12. r = Rows("envelope", p.max_rows, a.matching)
  BY <1>10, <1>11
<1>. QED
  BY <1>9, <1>12 DEF Rows, MinOf

\* A reply that is there stays, and so do the label and the count.
LEMMA FinalStep ==
  ASSUME IInv, Step, NEW c \in Calls, reply[c] # {}
  PROVE  /\ reply'[c] = reply[c] /\ label'[c] = label[c]
         /\ metrics'[c] = metrics[c]
         /\ phase'[c] \in {phase[c], "done"}
<1> USE DEF IInv, TypeOK, client, server, vars
<1>1. phase[c] \in {"auditing", "done"}
  BY DEF ShapeInv
<1>2. ASSUME NEW d \in Calls, NEW r, NEW o, Ending(d, r, o)
      PROVE  d # c /\ reply'[c] = reply[c] /\ label'[c] = label[c]
             /\ metrics'[c] = metrics[c] /\ phase'[c] = phase[c]
  <2>1. d # c
    BY <1>1, <1>2 DEF Ending
  <2>. QED
    BY <1>2, <2>1, EndingEffect
<1>3. ASSUME NEW d \in Calls, Begin(d) \/ LoadProfile(d) \/ Dispatch(d)
      PROVE  phase'[c] = phase[c] /\ UNCHANGED <<reply, label, metrics>>
  BY <1>1, <1>3 DEF Begin, LoadProfile, Dispatch
<1>4. ASSUME NEW d \in Calls, AuditDone(d)
      PROVE  phase'[c] \in {phase[c], "done"} /\ UNCHANGED <<reply, label, metrics>>
  BY <1>1, <1>4 DEF AuditDone
<1>5. CASE UNCHANGED <<phase, reply, label, metrics>>
  BY <1>5
<1>6. \/ \E d \in Calls : \/ Begin(d) \/ LoadProfile(d) \/ Dispatch(d)
                         \/ AuditDone(d) \/ \E r, o : Ending(d, r, o)
      \/ UNCHANGED <<phase, reply, label, metrics>>
  BY DEF Step, Register, SetHostHandle, ServerModifies, Answering, Answer
<1>. QED
  BY <1>2, <1>3, <1>4, <1>5, <1>6

-----------------------------------------------------------------------------
(* The theorems *)

\* Every variable keeps its type, for any instance.
THEOREM TypeCorrect == Spec => []TypeOK
BY Invariance, PTL DEF IInv

\* register_profile never stores a profile that could send an empty, secret-bearing
\* or, on a read-only binding, unguarded statement.
THEOREM RegistrySafe == Spec => []RegistryIsServable
BY Invariance, PTL DEF IInv

\* No call sends such a statement, however registration and calls interleave, and
\* a read-only profile always sends by GET.
THEOREM GuardedSql == Spec => []OnlyGuardedSqlLeaves
BY Invariance, GuardedFromIInv, PTL

\* The server never modifies data for a read-only or a catalog binding.
THEOREM ReadOnlySafe == Spec => []ReadOnlyNeverModifies
BY Invariance, ReadOnlyFromIInv, PTL

\* A success reply to a modifying statement is never given before it is applied.
THEOREM WritesAcknowledged == Spec => []AcknowledgedWriteApplied
BY Invariance, AcknowledgedFromIInv, PTL

\* Re-registration never mixes two profiles in one call.
THEOREM OneSnapshot == Spec => []ReplyMatchesSnapshot
BY Invariance, SnapshotFromIInv, PTL

\* Each finished call has been counted and audited as often as it should.
THEOREM TriadOnce == Spec => []OneTriadPerCall
BY Invariance, PTL DEF IInv

\* The envelope's rows, count and truncated agree with what the server had.
THEOREM RowsAccounted == Spec => []RowsAreAccountedFor
BY Invariance, AccountedFromIInv, PTL

\* The label of every call is true of what was sent for it and what was answered,
\* and stays true when an answer comes after the deadline; a rejection that was
\* received is never advised for a retry.
THEOREM LabelsAreTrue == Spec => []LabelTellsWhatHappened
BY Invariance, PTL DEF IInv

\* Nothing that happens after a call has decided its reply changes it.
THEOREM ReplyFinality == Spec => RepliesAreFinal
<1>1. IInv /\ [Next]_vars =>
        [\A c \in Calls :
           reply[c] # {} =>
             /\ reply'[c] = reply[c] /\ label'[c] = label[c]
             /\ metrics'[c] = metrics[c]
             /\ phase'[c] \in {phase[c], "done"}]_vars
  BY NextIsStep, FinalStep
<1>. QED
  BY <1>1, Invariance, PTL DEF Spec, RepliesAreFinal
=============================================================================
