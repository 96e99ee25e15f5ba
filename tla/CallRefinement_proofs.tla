------------------------ MODULE CallRefinement_proofs ------------------------
(***************************************************************************)
(* ClickHouseBackend implements CallContract, for every instance.          *)
(***************************************************************************)
EXTENDS CallRefinement, ClickHouseBackend_proofs

\* What the contract allows call c to return now.
Permitted(c, r) ==
  \/ r.status = "ok" /\ Contract!MaySucceed(c, r.body)
  \/ r.status = "error" /\ Contract!MayFail(c, r.body)
  \/ r.status = "rejected" /\ Contract!MayReject(c, r.body)

\* While a call waits for its audit, what it will return stays permitted: a
\* registration in between cannot make it wrong.
AuditInv ==
  \A c \in Calls : phase[c] = "auditing" =>
    /\ reply[c] # {} /\ snapshot[c] # {}
    /\ \A r \in reply[c] :
         \/ r.status = "error" /\ r.body = "envelope"
         \/ r.status = "rejected" /\ r.body = "InvalidSpec" /\ query[c] = {}

\* A call that has looked and is not done has its profile.
ProgressInv ==
  \A c \in Calls :
    phase[c] \in {"loaded", "waiting"} => snapshot[c] # {}

RInv == IInv /\ ProgressInv /\ AuditInv

-----------------------------------------------------------------------------
(* The result of every way out of a call is permitted. *)

LEMMA SentEmpty ==
  ASSUME NEW c \in Calls
  PROVE  Sent[c] = {} <=> query[c] = {}
BY DEF Sent

LEMMA AskedFields ==
  ASSUME NEW c \in Calls
  PROVE  Asked[c].kind = request[c].kind /\ Asked[c].binding = request[c].binding
BY DEF Asked

LEMMA EnvelopePermitted ==
  ASSUME NEW c \in Calls, NEW text \in Texts,
         request[c].kind = "execute", snapshot[c] # {}
  PROVE  Permitted(c, ErrorEnvelope(text))
BY ErrorType, AskedFields DEF Permitted, Contract!MayFail

LEMMA FailPermitted ==
  ASSUME NEW c \in Calls, NEW text \in Texts, Fail(c, text), TypeOK,
         snapshot[c] # {}, query[c] # {}
  PROVE  \A r \in reply'[c] : Permitted(c, r)
<1>1. CASE request[c].kind = "execute"
  <2>1. reply'[c] = {ErrorEnvelope(text)}
    BY <1>1 DEF Fail, Return, TypeOK
  <2>. QED
    BY <1>1, <2>1, EnvelopePermitted
<1>2. CASE request[c].kind # "execute"
  <2>1. reply'[c] = {Rejection("Transport")}
    BY <1>2 DEF Fail, Return, TypeOK
  <2>2. Sent[c] # {} /\ Asked[c].kind # "execute"
    BY <1>2, SentEmpty, AskedFields
  <2>3. Permitted(c, Rejection("Transport"))
    BY <2>2, RejectionType DEF Permitted, Contract!MayReject
  <2>. QED
    BY <2>1, <2>3
<1>. QED
  BY <1>1, <1>2

LEMMA EndStepPermitted ==
  ASSUME RInv, NEW c \in Calls, EndStep(c)
  PROVE  \A r \in reply'[c] : Permitted(c, r)
<1>0. /\ TypeOK /\ request[c].kind \in CallKinds /\ answer[c] \in Option(Answers)
      /\ snapshot[c] \in Option(Profiles) /\ query[c] \in Option(Queries)
  BY DEF RInv, IInv, TypeOK, RequestType
<1>1. CASE ProfileMissing(c)
  <2>1. reply'[c] = {Rejection("ProfileNotFound")}
    BY <1>0, <1>1 DEF ProfileMissing, Return, TypeOK
  <2>2. snapshot[c] = {} /\ profiles[Asked[c].binding] = {}
    BY <1>1, AskedFields DEF ProfileMissing, RInv, IInv, ShapeInv
  <2>3. Permitted(c, Rejection("ProfileNotFound"))
    BY <2>2, RejectionType DEF Permitted, Contract!MayReject
  <2>. QED
    BY <2>1, <2>3
<1>2. CASE RejectPayload(c) \/ RejectCursor(c)
  <2>1. reply'[c] = {Rejection("InvalidSpec")}
    BY <1>0, <1>2 DEF RejectPayload, RejectCursor, Return, TypeOK
  <2>2. snapshot[c] # {} /\ Sent[c] = {}
    BY <1>2, SentEmpty
    DEF RejectPayload, RejectCursor, RInv, IInv, ShapeInv, ProgressInv
  <2>3. Permitted(c, Rejection("InvalidSpec"))
    BY <2>2, RejectionType DEF Permitted, Contract!MayReject
  <2>. QED
    BY <2>1, <2>3
<1>3. CASE RejectParams(c)
  <2>1. PICK text \in FailureTexts : Return(c, ErrorEnvelope(text), "invalid_spec")
    BY <1>3 DEF RejectParams
  <2>2. text \in Texts /\ reply'[c] = {ErrorEnvelope(text)}
    BY <1>0, <2>1, FailureTextsAssumption DEF Return, TypeOK
  <2>3. request[c].kind = "execute" /\ snapshot[c] # {}
    BY <1>3 DEF RejectParams, BadParams
  <2>. QED
    BY <2>2, <2>3, EnvelopePermitted
<1>4. CASE NothingConfigured(c)
  <2>1. PICK p \in snapshot[c] :
          /\ PlansFor(p, request[c].kind) = {}
          /\ Return(c, Rows(BodyFor(p, request[c].kind), 0, 0), "none")
    BY <1>4 DEF NothingConfigured
  <2> DEFINE r == Rows(BodyFor(p, request[c].kind), 0, 0)
  <2>2. reply'[c] = {r} /\ r.status = "ok" /\ r.body = BodyFor(p, Asked[c].kind)
    BY <1>0, <2>1, AskedFields DEF Return, TypeOK, Rows
  <2>3. Sent[c] = {} /\ ~Offers(p, Asked[c].kind)
    BY <1>4, <2>1, SentEmpty, AskedFields
    DEF NothingConfigured, RInv, IInv, ShapeInv, Offers
  <2>4. Permitted(c, r)
    BY <2>2, <2>3 DEF Permitted, Contract!MaySucceed
  <2>. QED
    BY <2>2, <2>4
<1>5. CASE ReceiveRows(c)
  <2>1. PICK p \in snapshot[c], q \in query[c], a \in answer[c] :
          /\ a.outcome = "rows"
          /\ Return(c, Rows(BodyFor(p, request[c].kind), q.cap, RowsRead(q, a)), "ok")
    BY <1>5 DEF ReceiveRows
  <2> DEFINE r == Rows(BodyFor(p, request[c].kind), q.cap, RowsRead(q, a))
  <2>2. reply'[c] = {r} /\ r.status = "ok" /\ r.body = BodyFor(p, Asked[c].kind)
    BY <1>0, <2>1, AskedFields DEF Return, TypeOK, Rows
  <2>3. \A other \in query[c] : other = q
    BY <1>0, OptionMembers
  <2>4. Sent[c] # {} /\ \A sql \in Sent[c] : sql = q.sql
    BY <2>3 DEF Sent
  <2>5. Modifies(q.sql) => applied[c]
    BY <2>1 DEF RInv, IInv, ServerInv
  <2>6. Permitted(c, r)
    BY <2>2, <2>4, <2>5 DEF Permitted, Contract!MaySucceed
  <2>. QED
    BY <2>2, <2>6
<1>6. CASE ReceiveRowsWithoutUri(c)
  <2>1. reply'[c] = {ErrorEnvelope({})} /\ {} \in Texts
    BY <1>0, <1>6 DEF ReceiveRowsWithoutUri, Return, TypeOK, Texts
  <2>2. request[c].kind = "execute" /\ snapshot[c] # {}
    BY <1>6 DEF ReceiveRowsWithoutUri, LacksUri
  <2>. QED
    BY <2>1, <2>2, EnvelopePermitted
<1>7. CASE ReceiveFailure(c)
  <2>1. PICK a \in answer[c] : Fail(c, a.text)
    BY <1>7 DEF ReceiveFailure
  <2>2. a \in Answers
    BY <1>0, OptionMembers
  <2>3. a.text \in Texts /\ snapshot[c] # {} /\ query[c] # {}
    BY <1>7, <2>2 DEF Answers, ReceiveFailure, RInv, IInv, ShapeInv, ProgressInv
  <2>. QED
    BY <1>0, <2>1, <2>3, FailPermitted
<1>8. CASE Timeout(c)
  <2>1. {"timeout"} \in Texts /\ Fail(c, {"timeout"})
    BY <1>8 DEF Texts, Tokens, Timeout
  <2>2. snapshot[c] # {} /\ query[c] # {}
    BY <1>8 DEF Timeout, RInv, IInv, ShapeInv, ProgressInv
  <2>. QED
    BY <1>0, <2>1, <2>2, FailPermitted
<1>. QED
  BY <1>1, <1>2, <1>3, <1>4, <1>5, <1>6, <1>7, <1>8 DEF EndStep

\* What an end of a call changes: its reply, permitted, and its phase; while the
\* audit is written the reply is one that stays permitted.
LEMMA EndStepEffect ==
  ASSUME RInv, NEW c \in Calls, EndStep(c)
  PROVE  /\ \A d \in Calls : d # c => phase'[d] = phase[d] /\ reply'[d] = reply[d]
         /\ phase[c] \in {"looking", "loaded", "waiting"}
         /\ phase'[c] \in {"auditing", "done"}
         /\ \E r \in Replies :
              /\ reply'[c] = {r} /\ Permitted(c, r)
              /\ phase'[c] = "auditing" => request[c].kind = "execute" /\ Failed(r)
         /\ UNCHANGED <<profiles, host, request, span, snapshot, query, answer, applied>>
<1>1. PICK r, o : Ending(c, r, o)
  BY EndStepEnds DEF RInv
<1>2. TypeOK
  BY DEF RInv, IInv
<1>3. /\ \A d \in Calls : d # c => phase'[d] = phase[d] /\ reply'[d] = reply[d]
      /\ reply'[c] = {r}
      /\ phase'[c] = IF request[c].kind = "execute" /\ host /\ o \in AuditedLabels
                     THEN "auditing" ELSE "done"
      /\ UNCHANGED <<profiles, host, request, span, snapshot, query, answer, applied>>
  BY <1>1, <1>2, EndingEffect
<1>4. /\ r \in Replies /\ phase[c] \in {"looking", "loaded", "waiting"}
      /\ request[c].kind = "execute" => (o \in AuditedLabels <=> Failed(r))
  BY <1>1 DEF Ending
<1>5. Permitted(c, r)
  BY <1>3, EndStepPermitted
<1>6. phase'[c] \in {"auditing", "done"}
  BY <1>3
<1>7. phase'[c] = "auditing" => request[c].kind = "execute" /\ Failed(r)
  BY <1>3, <1>4
<1>. QED
  BY <1>3, <1>4, <1>5, <1>6, <1>7

LEMMA NextCases ==
  ASSUME [Next]_vars
  PROVE  \/ \E b \in Bindings, s \in Specs : Register(b, s)
         \/ SetHostHandle
         \/ \E c \in Calls : \/ Begin(c) \/ LoadProfile(c) \/ Dispatch(c) \/ AuditDone(c)
                             \/ EndStep(c) \/ ServerModifies(c) \/ AnswerStep(c)
         \/ UNCHANGED vars
BY DEF Next, CallStep, ServerStep, EndStep, AnswerStep

-----------------------------------------------------------------------------
(* The invariant of the refinement *)

LEMMA InitRInv == Init => RInv
<1>1. Init => IInv
  BY InitIInv
<1>2. Init => ProgressInv /\ AuditInv
  BY DEF Init, ProgressInv, AuditInv
<1>. QED
  BY <1>1, <1>2 DEF RInv

LEMMA RInvStep ==
  ASSUME RInv, [Next]_vars
  PROVE  ProgressInv' /\ AuditInv'
<1> USE DEF RInv, IInv, TypeOK, ProgressInv, AuditInv, client, server, vars
<1>1. ASSUME NEW c \in Calls, LoadProfile(c)
      PROVE  ProgressInv' /\ AuditInv'
  BY <1>1 DEF LoadProfile
<1>2. ASSUME NEW c \in Calls, Dispatch(c)
      PROVE  ProgressInv' /\ AuditInv'
  <2>1. PICK q : query' = [query EXCEPT ![c] = {q}]
    BY <1>2 DEF Dispatch
  <2>2. /\ phase[c] = "loaded" /\ phase' = [phase EXCEPT ![c] = "waiting"]
        /\ UNCHANGED <<snapshot, reply>>
    BY <1>2 DEF Dispatch
  <2>. QED
    BY <2>1, <2>2
<1>3. ASSUME NEW c \in Calls, Begin(c) \/ AuditDone(c)
      PROVE  ProgressInv' /\ AuditInv'
  BY <1>3 DEF Begin, AuditDone
<1>4. ASSUME NEW c \in Calls, EndStep(c)
      PROVE  ProgressInv' /\ AuditInv'
  <2>1. PICK r \in Replies :
          /\ reply'[c] = {r} /\ Permitted(c, r)
          /\ phase'[c] = "auditing" => request[c].kind = "execute" /\ Failed(r)
    BY <1>4, EndStepEffect
  <2>2. /\ \A d \in Calls : d # c => phase'[d] = phase[d] /\ reply'[d] = reply[d]
        /\ phase'[c] \in {"auditing", "done"}
        /\ UNCHANGED <<snapshot, query>>
    BY <1>4, EndStepEffect
  <2>3. phase'[c] = "auditing" =>
          /\ snapshot[c] # {}
          /\ \/ r.status = "error" /\ r.body = "envelope"
             \/ r.status = "rejected" /\ r.body = "InvalidSpec" /\ query[c] = {}
    BY <2>1, SentEmpty, AskedFields
    DEF Permitted, Failed, Contract!MayFail, Contract!MayReject
  <2>. QED
    BY <2>1, <2>2, <2>3
<1>5. CASE UNCHANGED <<phase, snapshot, query, reply>>
  BY <1>5
<1>6. \/ \E c \in Calls : \/ LoadProfile(c) \/ Dispatch(c) \/ EndStep(c)
                         \/ Begin(c) \/ AuditDone(c)
      \/ UNCHANGED <<phase, snapshot, query, reply>>
  BY NextCases
  DEF Register, SetHostHandle, ServerModifies, AnswerStep, ServerReads,
      ServerAcknowledges, ServerRefuses, ServerFails, Answer
<1>. QED
  BY <1>1, <1>2, <1>3, <1>4, <1>5, <1>6

LEMMA RInvariance == Spec => []RInv
<1>1. Init => RInv
  BY InitRInv
<1>2. RInv /\ [Next]_vars => RInv'
  <2>1. IInv /\ [Next]_vars => IInv'
    BY IInvStep
  <2>. QED
    BY <2>1, RInvStep DEF RInv
<1>. QED
  BY <1>1, <1>2, PTL DEF Spec

-----------------------------------------------------------------------------
(* Every step is a step of the contract, or no step of it. *)

LEMMA InitRefines == Init => Contract!Init
BY DEF Init, Contract!Init, Opened, Sent, Returned

\* What the contract sees depends on a few variables only.
LEMMA SameView ==
  ASSUME UNCHANGED <<profiles, request, snapshot, query, applied>>,
         Opened' = Opened, Returned' = Returned
  PROVE  UNCHANGED Contract!vars
BY DEF Contract!vars, Asked, Sent

LEMMA PublishStep ==
  ASSUME NEW b \in Bindings, NEW s \in Specs, Register(b, s), RInv
  PROVE  Contract!Publish(b)
<1>1. /\ profiles' = [profiles EXCEPT ![b] = {ProfileOf(s)}]
      /\ UNCHANGED <<request, snapshot, query, applied, phase, reply>>
  BY DEF Register, client, server
<1>2. ProfileOf(s) \in Profiles /\ Servable(ProfileOf(s))
  BY SpecsAssumption, ProfileOfType, AcceptedSpecIsServable DEF Register
<1>3. profiles'[b] = {ProfileOf(s)}
  BY <1>1 DEF RInv, IInv, TypeOK
<1>4. UNCHANGED <<Asked, Opened, snapshot, Sent, applied, Returned>>
  BY <1>1 DEF Asked, Opened, Sent, Returned
<1>. QED
  BY <1>1, <1>2, <1>3, <1>4 DEF Contract!Publish

LEMMA OpenCall ==
  ASSUME NEW c \in Calls, phase[c] \in {"looking", "loaded", "waiting", "auditing"}
  PROVE  Contract!Open(c)
BY DEF Contract!Open, Opened, Returned

LEMMA CallOpens ==
  ASSUME NEW c \in Calls, Begin(c), RInv
  PROVE  Contract!Call(c)
<1>1. /\ phase[c] = "idle" /\ phase' = [phase EXCEPT ![c] = "looking"]
      /\ UNCHANGED <<profiles, request, snapshot, query, applied, reply>>
  BY DEF Begin, server
<1>2. c \notin Opened /\ Opened' = Opened \cup {c}
  BY <1>1 DEF Opened, RInv, IInv, TypeOK
<1>3. Returned' = Returned
  BY <1>1 DEF Returned, RInv, IInv, TypeOK
<1>4. UNCHANGED <<Asked, Sent>>
  BY <1>1 DEF Asked, Sent
<1>. QED
  BY <1>1, <1>2, <1>3, <1>4 DEF Contract!Call

LEMMA TakeStep ==
  ASSUME NEW c \in Calls, LoadProfile(c), RInv
  PROVE  Contract!Take(c)
<1>1. /\ phase[c] = "looking" /\ phase' = [phase EXCEPT ![c] = "loaded"]
      /\ snapshot' = [snapshot EXCEPT ![c] = profiles[request[c].binding]]
      /\ UNCHANGED <<profiles, request, query, applied, reply>>
  BY DEF LoadProfile, server
<1>2. Contract!Open(c) /\ snapshot[c] = {}
  BY <1>1, OpenCall DEF RInv, IInv, ShapeInv
<1>3. UNCHANGED <<Asked, Sent, Opened, Returned>>
  BY <1>1 DEF Asked, Sent, Opened, Returned, RInv, IInv, TypeOK
<1>. QED
  BY <1>1, <1>2, <1>3, AskedFields DEF Contract!Take

LEMMA SendStep ==
  ASSUME NEW c \in Calls, Dispatch(c), RInv
  PROVE  Contract!Send(c)
<1>1. PICK p \in snapshot[c] : \E plan \in PlansFor(p, request[c].kind) :
        query' = [query EXCEPT ![c] = {QueryOf(p, plan)}]
  BY DEF Dispatch
<1>2. PICK plan \in PlansFor(p, request[c].kind) :
        query' = [query EXCEPT ![c] = {QueryOf(p, plan)}]
  BY <1>1
<1>3. /\ phase[c] = "loaded" /\ phase' = [phase EXCEPT ![c] = "waiting"]
      /\ UNCHANGED <<profiles, request, snapshot, applied, reply>>
  BY DEF Dispatch, server
<1>4. Contract!Open(c) /\ Sent[c] = {} /\ Offers(p, Asked[c].kind)
  BY <1>2, <1>3, OpenCall, SentEmpty, AskedFields DEF RInv, IInv, ShapeInv, Offers
<1>5. UNCHANGED <<Asked, Opened, Returned>>
  BY <1>3 DEF Asked, Opened, Returned, RInv, IInv, TypeOK
<1> DEFINE sql == QueryOf(p, plan).sql
<1>6. Sent' = [Sent EXCEPT ![c] = {sql}]
  <2>1. \A d \in Calls : query'[d] = IF d = c THEN {QueryOf(p, plan)} ELSE query[d]
    BY <1>2 DEF RInv, IInv, TypeOK
  <2>2. \A d \in Calls : Sent'[d] = IF d = c THEN {sql} ELSE Sent[d]
    BY <2>1 DEF Sent
  <2>. QED
    BY <2>2 DEF Sent
<1>7. Sent'[c] = {sql}
  BY <1>6 DEF Sent
<1>. QED
  BY <1>3, <1>4, <1>5, <1>6, <1>7 DEF Contract!Send

LEMMA ModifyStep ==
  ASSUME NEW c \in Calls, ServerModifies(c), RInv
  PROVE  Contract!Modify(c)
<1>1. PICK q \in query[c] : Modifies(q.sql)
  BY DEF ServerModifies
<1>2. q.sql \in Sent[c]
  BY DEF Sent
<1>3. PICK p \in snapshot[c] :
        \E plan \in PlansFor(p, request[c].kind) : q = QueryOf(p, plan)
  BY DEF RInv, IInv, SourceInv
<1>4. ~RunsReadOnly(p)
  <2>1. ~(Modifies(q.sql) /\ q.method = "GET")
    <3>1. PICK q2 \in query[c] : Modifies(q2.sql) /\ ~Refuses(q2)
      BY DEF ServerModifies
    <3>2. q2 = q
      BY OptionMembers DEF RInv, IInv, TypeOK
    <3>. QED
      BY <3>1, <3>2 DEF Refuses
  <2>. QED
    BY <1>1, <1>3, <2>1 DEF QueryOf
<1>5. /\ ~applied[c] /\ applied' = [applied EXCEPT ![c] = TRUE]
      /\ UNCHANGED <<profiles, request, snapshot, query, phase, reply>>
  BY DEF ServerModifies, client
<1>6. UNCHANGED <<Asked, Opened, Sent, Returned>>
  BY <1>5 DEF Asked, Opened, Sent, Returned
<1>. QED
  BY <1>1, <1>2, <1>4, <1>5, <1>6 DEF Contract!Modify

\* A permitted reply of a call that reaches "done" is a result of the contract.
LEMMA FinishStep ==
  ASSUME NEW c \in Calls, NEW r \in Replies, Permitted(c, r), reply'[c] = {r},
         phase[c] \in {"looking", "loaded", "waiting", "auditing"}, phase'[c] = "done",
         \A d \in Calls : d # c => phase'[d] = phase[d] /\ reply'[d] = reply[d],
         UNCHANGED <<profiles, request, snapshot, query, applied>>
  PROVE  Contract!Finish(c)
<1> DEFINE result == [status |-> r.status, body |-> r.body]
<1>1. result \in Contract!Results
  BY DEF Contract!Results, Replies
<1>2. Returned' = [Returned EXCEPT ![c] = {result}]
  <2>1. Returned'[c] = {result}
    BY DEF Returned
  <2>2. \A d \in Calls : d # c => Returned'[d] = Returned[d]
    BY DEF Returned
  <2>. QED
    BY <2>1, <2>2 DEF Returned
<1>3. UNCHANGED <<Asked, Sent, Opened>>
  BY DEF Asked, Sent, Opened
<1>4. result.status = r.status /\ result.body = r.body
  OBVIOUS
<1>. QED
  BY <1>1, <1>2, <1>3, <1>4, OpenCall DEF Contract!Finish, Permitted

LEMMA EndRefines ==
  ASSUME NEW c \in Calls, EndStep(c), RInv
  PROVE  Contract!Finish(c) \/ UNCHANGED Contract!vars
<1>1. PICK r \in Replies : reply'[c] = {r} /\ Permitted(c, r)
  BY EndStepEffect
<1>2. /\ \A d \in Calls : d # c => phase'[d] = phase[d] /\ reply'[d] = reply[d]
      /\ phase[c] \in {"looking", "loaded", "waiting"}
      /\ phase'[c] \in {"auditing", "done"}
      /\ UNCHANGED <<profiles, request, snapshot, query, applied>>
  BY EndStepEffect
<1>3. CASE phase'[c] = "done"
  BY <1>1, <1>2, <1>3, FinishStep
<1>4. CASE phase'[c] = "auditing"
  <2>1. Opened' = Opened /\ Returned' = Returned
    BY <1>2, <1>4 DEF Opened, Returned
  <2>. QED
    BY <1>2, <2>1, SameView
<1>. QED
  BY <1>2, <1>3, <1>4

LEMMA AuditRefines ==
  ASSUME NEW c \in Calls, AuditDone(c), RInv
  PROVE  Contract!Finish(c)
<1>1. /\ phase[c] = "auditing" /\ phase' = [phase EXCEPT ![c] = "done"]
      /\ UNCHANGED <<profiles, request, snapshot, query, applied, reply>>
  BY DEF AuditDone, server
<1>2. PICK r \in reply[c] : TRUE
  BY <1>1 DEF RInv, AuditInv
<1>3. reply'[c] = {r} /\ r \in Replies
  BY <1>1, <1>2, OptionMembers DEF RInv, IInv, TypeOK
<1>4. Permitted(c, r)
  <2>1. /\ request[c].kind = "execute" /\ snapshot[c] # {}
        /\ \/ r.status = "error" /\ r.body = "envelope"
           \/ r.status = "rejected" /\ r.body = "InvalidSpec" /\ query[c] = {}
    BY <1>1 DEF RInv, AuditInv, IInv, HostInv
  <2>. QED
    BY <2>1, SentEmpty, AskedFields DEF Permitted, Contract!MayFail, Contract!MayReject
<1>5. phase'[c] = "done" /\ \A d \in Calls : d # c => phase'[d] = phase[d]
  BY <1>1 DEF RInv, IInv, TypeOK
<1>. QED
  BY <1>1, <1>3, <1>4, <1>5, FinishStep

LEMMA StepRefines ==
  ASSUME RInv, [Next]_vars
  PROVE  [Contract!Next]_(Contract!vars)
<1>1. ASSUME NEW b \in Bindings, NEW s \in Specs, Register(b, s)
      PROVE  Contract!Next
  BY <1>1, PublishStep DEF Contract!Next
<1>2. ASSUME NEW c \in Calls, \/ Begin(c) \/ LoadProfile(c) \/ Dispatch(c)
                             \/ ServerModifies(c) \/ AuditDone(c)
      PROVE  Contract!Next
  BY <1>2, CallOpens, TakeStep, SendStep, ModifyStep, AuditRefines DEF Contract!Next
<1>3. ASSUME NEW c \in Calls, EndStep(c)
      PROVE  [Contract!Next]_(Contract!vars)
  BY <1>3, EndRefines DEF Contract!Next
<1>4. ASSUME UNCHANGED <<profiles, request, snapshot, query, applied, phase, reply>>
      PROVE  UNCHANGED Contract!vars
  <2>1. Opened' = Opened /\ Returned' = Returned
    BY <1>4 DEF Opened, Returned
  <2>. QED
    BY <1>4, <2>1, SameView
<1>5. ASSUME NEW c \in Calls, AnswerStep(c)
      PROVE  UNCHANGED <<profiles, request, snapshot, query, applied, phase, reply>>
  BY <1>5 DEF AnswerStep, ServerReads, ServerAcknowledges, ServerRefuses, ServerFails,
              Answer, client
<1>6. ASSUME SetHostHandle \/ UNCHANGED vars
      PROVE  UNCHANGED <<profiles, request, snapshot, query, applied, phase, reply>>
  BY <1>6 DEF SetHostHandle, vars, client, server
<1>. QED
  BY <1>1, <1>2, <1>3, <1>4, <1>5, <1>6, NextCases

\* Whatever registrations, deadlines, late answers and audits come between, a call
\* is what the contract says: one registered profile, one statement it offers, at
\* most one effect, and one result, a success only with the effect in place.
THEOREM Refinement == Spec => ImplementsContract
<1>1. Init => Contract!Init
  BY InitRefines
<1>2. RInv /\ [Next]_vars => [Contract!Next]_(Contract!vars)
  BY StepRefines
<1>. QED
  BY <1>1, <1>2, RInvariance, PTL DEF Spec, ImplementsContract, Contract!Spec
=============================================================================
