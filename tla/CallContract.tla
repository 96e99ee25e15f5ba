---------------------------- MODULE CallContract ----------------------------
(***************************************************************************)
(* What the plugin promises the gateway about its calls, without threads,  *)
(* locks, deadlines, audits or a network: a call runs under one profile    *)
(* that was registered at one moment, sends at most one statement, has at  *)
(* most one effect on the data, and ends with one result.  A success is    *)
(* the surface's own body and means that the effect is there; any other    *)
(* result of a call that has sent its statement leaves it open whether the *)
(* effect is there, or still comes.                                        *)
(*                                                                         *)
(* The trait BackendPlugin of the protocol crate is the interface; what    *)
(* its calls promise here is read off their implementation in              *)
(* src/src/lib.rs.  CallRefinement shows that ClickHouseBackend keeps it.  *)
(***************************************************************************)
CONSTANTS
  Bindings, Calls,
  Profiles,        \* what a binding may be registered with
  Servable(_),     \* a profile every call can be made against
  Offers(_, _),    \* a profile has a statement for a kind of call
  BodyFor(_, _),   \* the body of a success, by profile and kind
  Modifies(_),     \* a statement modifies data
  RunsReadOnly(_)  \* a profile may not modify data

VARIABLES
  registry,  \* binding -> Option(profile)
  asked,     \* call -> the binding and the kind of the call
  opened,    \* the calls the gateway has made
  taken,     \* call -> Option(the profile it runs under)
  sent,      \* call -> Option(the statement it has sent)
  effect,    \* call -> data has been modified for it
  result     \* call -> Option(what it returned)

vars == <<registry, asked, opened, taken, sent, effect, result>>

Results ==
  [status : {"ok", "error", "rejected"},
   body : {"envelope", "contents", "messages", "page", "values",
           "ProfileNotFound", "InvalidSpec", "Transport"}]

Init ==
  /\ registry = [b \in Bindings |-> {}]
  /\ opened = {}
  /\ taken = [c \in Calls |-> {}]
  /\ sent = [c \in Calls |-> {}]
  /\ effect = [c \in Calls |-> FALSE]
  /\ result = [c \in Calls |-> {}]

Open(c) == c \in opened /\ result[c] = {}

\* A binding gets a profile, or another one; it never loses it.
Publish(b) ==
  /\ \E p \in registry'[b] :
       /\ registry' = [registry EXCEPT ![b] = {p}]
       /\ p \in Profiles /\ Servable(p)
  /\ UNCHANGED <<asked, opened, taken, sent, effect, result>>

Call(c) ==
  /\ c \notin opened
  /\ opened' = opened \cup {c}
  /\ UNCHANGED <<registry, asked, taken, sent, effect, result>>

Take(c) ==
  /\ Open(c) /\ taken[c] = {}
  /\ taken' = [taken EXCEPT ![c] = registry[asked[c].binding]]
  /\ UNCHANGED <<registry, asked, opened, sent, effect, result>>

\* Once, and only what the profile offers for this kind of call.
Send(c) ==
  /\ Open(c) /\ sent[c] = {}
  /\ \E p \in taken[c] : Offers(p, asked[c].kind)
  /\ \E sql \in sent'[c] : sent' = [sent EXCEPT ![c] = {sql}]
  /\ UNCHANGED <<registry, asked, opened, taken, effect, result>>

\* The effect: once, also after the call has ended.
Modify(c) ==
  /\ ~effect[c]
  /\ \E p \in taken[c], sql \in sent[c] : ~RunsReadOnly(p) /\ Modifies(sql)
  /\ effect' = [effect EXCEPT ![c] = TRUE]
  /\ UNCHANGED <<registry, asked, opened, taken, sent, result>>

\* A success has sent its statement, unless there was none to send.
MaySucceed(c, body) ==
  /\ \E p \in taken[c] :
       /\ body = BodyFor(p, asked[c].kind)
       /\ sent[c] = {} => ~Offers(p, asked[c].kind)
  /\ \A sql \in sent[c] : Modifies(sql) => effect[c]

\* The error envelope is execute's; a rejection says how far the call came.
MayFail(c, body) ==
  /\ body = "envelope" /\ asked[c].kind = "execute" /\ taken[c] # {}

MayReject(c, body) ==
  \/ body = "ProfileNotFound" /\ taken[c] = {} /\ registry[asked[c].binding] = {}
  \/ body = "InvalidSpec" /\ taken[c] # {} /\ sent[c] = {}
  \/ body = "Transport" /\ sent[c] # {} /\ asked[c].kind # "execute"

Finish(c) ==
  /\ Open(c)
  /\ \E r \in Results :
       /\ result' = [result EXCEPT ![c] = {r}]
       /\ \/ r.status = "ok" /\ MaySucceed(c, r.body)
          \/ r.status = "error" /\ MayFail(c, r.body)
          \/ r.status = "rejected" /\ MayReject(c, r.body)
  /\ UNCHANGED <<registry, asked, opened, taken, sent, effect>>

Next ==
  \/ \E b \in Bindings : Publish(b)
  \/ \E c \in Calls : Call(c) \/ Take(c) \/ Send(c) \/ Modify(c) \/ Finish(c)

Spec == Init /\ [][Next]_vars
=============================================================================
