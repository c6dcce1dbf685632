------------------------ MODULE ProjectWebhook_proofs ------------------------
(***************************************************************************)
(* The webhook's safety properties, for any users, groups, manifests and   *)
(* role bindings.                                                          *)
(***************************************************************************)
EXTENDS ProjectWebhook, TLAPS

\* What is known of a request that was sent.
WellFormed(u) ==
    /\ request[u] \in Requests
    /\ request[u].new = NoProject <=> request[u].operation = "delete"
    /\ old[u] = NoProject <=> request[u].operation = "create"
    /\ ~moved[u] => old[u] = project

\* The answer was computed from the new project and the old one.
AnswerJustified(u) ==
    /\ Allowed(u) => request[u].new = NoProject \/ Valid(request[u].new)
    /\ stage[u] = "admitted" /\ old[u] # NoProject => Exempt(u, old[u])
    /\ stage[u] = "review" => /\ u \notin ServiceAccounts
                              /\ request[u].new = NoProject \/ Valid(request[u].new)

OperatorsRequest ==
    stage[Operator] # "idle" =>
        request[Operator].operation = "update" /\ Valid(request[Operator].new)

WebhookInv ==
    /\ WebhookTypeOK
    /\ TTLParseable
    /\ OperatorNotDenied
    /\ OperatorsRequest
    /\ \A u \in Users : stage[u] # "idle" => WellFormed(u) /\ AnswerJustified(u)
-----------------------------------------------------------------------------
LEMMA WebhookInitInv == WebhookInit => WebhookInv
  BY WebhookAssumption
  DEF WebhookInit, WebhookInv, WebhookTypeOK, TTLParseable, Exists, OperatorNotDenied,
      OperatorsRequest, Stages

\* A step of u's request that leaves the projects, the request and its version
\* alone only has to justify the stage it reaches.
LEMMA AdvanceInv ==
    ASSUME WebhookInv, NEW u \in Users, NEW to \in Stages \ {"idle"},
           stage[u] # "idle", Advance(u, to),
           u = Operator => to # "denied",
           to \in {"admitted", "granted", "review"} =>
                request[u].new = NoProject \/ Valid(request[u].new),
           to = "review" => u \notin ServiceAccounts,
           to = "admitted" /\ old[u] # NoProject => Exempt(u, old[u])
    PROVE  WebhookInv'
  <1> USE DEF WebhookInv, Advance, WebhookTypeOK
  <1>1. WebhookTypeOK'
    OBVIOUS
  <1>2. TTLParseable' /\ OperatorsRequest'
    BY WebhookAssumption DEF TTLParseable, OperatorsRequest, Exists
  <1>3. OperatorNotDenied'
    BY WebhookAssumption DEF OperatorNotDenied
  <1>4. ASSUME NEW v \in Users, stage'[v] # "idle"
        PROVE  WellFormed(v)' /\ AnswerJustified(v)'
    <2>1. stage[v] # "idle" /\ WellFormed(v) /\ AnswerJustified(v)
      BY <1>4
    <2>2. WellFormed(v)'
      BY <2>1 DEF WellFormed
    <2>3. request' = request /\ old' = old /\ stage'[v] = (IF v = u THEN to ELSE stage[v])
      OBVIOUS
    <2>4. Allowed(v)' => request'[v].new = NoProject \/ Valid(request'[v].new)
      BY <2>1, <2>3 DEF AnswerJustified, Allowed
    <2>5. stage'[v] = "admitted" /\ old'[v] # NoProject => Exempt(v, old'[v])
      BY <2>1, <2>3 DEF AnswerJustified
    <2>6. stage'[v] = "review" =>
            v \notin ServiceAccounts /\ (request'[v].new = NoProject \/ Valid(request'[v].new))
      BY <2>1, <2>3 DEF AnswerJustified
    <2>7. AnswerJustified(v)'
      BY <2>4, <2>5, <2>6 DEF AnswerJustified, Valid, Exempt
    <2> QED BY <2>2, <2>7
  <1> QED BY <1>1, <1>2, <1>3, <1>4

LEMMA SendInv ==
    ASSUME WebhookInv, NEW u \in Users, SendAny(u)
    PROVE  WebhookInv'
  <1> USE DEF WebhookInv
  <1>1. PICK op \in Operations, new \in Projects \cup {NoProject} :
            /\ Send(u, op, new)
            /\ new = NoProject <=> op = "delete"
            /\ u = Operator => op = "update" /\ Valid(new)
    <2>1. CASE u = Operator
      <3>1. Send(u, "update", project)
        BY <2>1 DEF SendAny
      <3>2. project # NoProject
        BY <3>1 DEF Send, Exists
      <3> QED BY <3>1, <3>2 DEF TTLParseable, Exists, WebhookTypeOK, Operations
    <2>2. CASE u # Operator
      BY <2>2, WebhookAssumption DEF SendAny, Operations
    <2> QED BY <2>1, <2>2
  <1>2. WebhookTypeOK'
    BY <1>1 DEF Send, WebhookTypeOK, Stages, Requests
  <1>3. TTLParseable' /\ OperatorNotDenied'
    BY <1>1, WebhookAssumption DEF Send, TTLParseable, OperatorNotDenied, Exists, WebhookTypeOK
  <1>4. OperatorsRequest'
    <2>1. CASE u = Operator
      BY <2>1, <1>1, WebhookAssumption DEF Send, OperatorsRequest, WebhookTypeOK
    <2>2. CASE u # Operator
      BY <2>2, <1>1, WebhookAssumption DEF Send, OperatorsRequest, WebhookTypeOK
    <2> QED BY <2>1, <2>2
  <1>5. ASSUME NEW v \in Users, stage'[v] # "idle"
        PROVE  WellFormed(v)' /\ AnswerJustified(v)'
    <2>1. CASE v = u
      <3>1. request'[v] = [operation |-> op, new |-> new] /\ old'[v] = project
            /\ stage'[v] = "admission" /\ ~moved'[v] /\ project' = project
            /\ (op = "create" <=> ~Exists)
        BY <2>1, <1>1 DEF Send, WebhookTypeOK
      <3> QED BY <3>1, <1>1 DEF WellFormed, AnswerJustified, Allowed, Requests, Exists
    <2>2. CASE v # u
      <3>1. /\ request'[v] = request[v] /\ old'[v] = old[v] /\ moved'[v] = moved[v]
            /\ stage'[v] = stage[v] /\ project' = project
        BY <2>2, <1>1 DEF Send, WebhookTypeOK
      <3> QED BY <3>1, <1>5 DEF WellFormed, AnswerJustified, Allowed
    <2> QED BY <2>1, <2>2
  <1> QED BY <1>2, <1>3, <1>4, <1>5

LEMMA HandleInv ==
    ASSUME WebhookInv, NEW u \in Users, Handle(u) \/ CallFails(u)
    PROVE  WebhookInv'
  <1>1. stage[u] # "idle"
    BY DEF Handle, CallFails, ValidateCreate, ValidateUpdate, ValidateDelete, Review, Asked
  <1>2. WellFormed(u) /\ OperatorsRequest
    BY <1>1 DEF WebhookInv
  <1>3. CASE ValidateCreate(u)
    <2>1. old[u] = NoProject /\ u # Operator
      BY <1>1, <1>2, <1>3 DEF ValidateCreate, Asked, WellFormed, OperatorsRequest
    <2>2. CASE Valid(request[u].new)
      BY <2>1, <2>2, <1>1, <1>3, AdvanceInv DEF ValidateCreate, Stages
    <2>3. CASE ~Valid(request[u].new)
      BY <2>1, <2>3, <1>1, <1>3, AdvanceInv DEF ValidateCreate, Stages
    <2> QED BY <2>2, <2>3
  <1>4. ASSUME NEW p, p = old[u], Authorize(u, p),
               request[u].new = NoProject \/ Valid(request[u].new)
        PROVE  WebhookInv'
    <2>1. CASE Exempt(u, p)
      BY <2>1, <1>1, <1>4, AdvanceInv DEF Authorize, Stages
    <2>2. CASE ~Exempt(u, p)
      <3>1. u \notin ServiceAccounts
        BY <2>2 DEF Exempt
      <3> QED BY <3>1, <2>2, <1>1, <1>4, AdvanceInv DEF Authorize, Stages
    <2> QED BY <2>1, <2>2
  <1>5. CASE ValidateUpdate(u)
    <2>1. CASE Valid(request[u].new)
      BY <2>1, <1>4, <1>5 DEF ValidateUpdate
    <2>2. CASE ~Valid(request[u].new)
      <3>1. u # Operator
        BY <2>2, <1>1, <1>2 DEF OperatorsRequest
      <3> QED BY <3>1, <2>2, <1>1, <1>5, AdvanceInv DEF ValidateUpdate, Stages
    <2> QED BY <2>1, <2>2
  <1>6. CASE ValidateDelete(u)
    BY <1>2, <1>4, <1>6 DEF ValidateDelete, Asked, WellFormed
  <1>7. CASE Review(u)
    <2>1. /\ u \notin ServiceAccounts
          /\ request[u].new = NoProject \/ Valid(request[u].new)
      BY <1>1, <1>7 DEF Review, WebhookInv, AnswerJustified
    <2>2. u # Operator
      BY <2>1, WebhookAssumption
    <2>3. CASE Granted(u, ReviewVerb[request[u].operation])
      BY <2>1, <2>3, <1>1, <1>7, AdvanceInv DEF Review, Stages
    <2>4. CASE ~Granted(u, ReviewVerb[request[u].operation])
      BY <2>2, <2>4, <1>1, <1>7, AdvanceInv DEF Review, Stages
    <2> QED BY <2>3, <2>4
  <1>8. CASE CallFails(u)
    BY <1>8, <1>1, AdvanceInv DEF CallFails, Stages
  <1> QED BY <1>3, <1>5, <1>6, <1>7, <1>8 DEF Handle

\* A request that is over: nothing is left to be known of it, and the others
\* see at most that the project moved.
LEMMA DoneInv ==
    ASSUME WebhookInv, NEW u \in Users, Persist(u) \/ Refuse(u)
    PROVE  WebhookInv'
  <1> USE DEF WebhookInv
  <1>1. CASE Persist(u)
    <2> DEFINE new == request[u].new
    <2>1. WellFormed(u) /\ AnswerJustified(u) /\ Allowed(u)
      BY <1>1 DEF Persist, Allowed
    <2>2. /\ project' = new /\ new \in Projects \cup {NoProject}
          /\ new # NoProject => Valid(new)
      BY <1>1, <2>1 DEF Persist, WellFormed, AnswerJustified, Requests
    <2>3. WebhookTypeOK'
      BY <1>1, <2>2 DEF Persist, Done, WebhookTypeOK, Stages
    <2>4. TTLParseable'
      BY <2>2 DEF TTLParseable, Exists, Valid
    <2>5. ASSUME NEW v \in Users, stage'[v] # "idle"
          PROVE  /\ v # u /\ stage'[v] = stage[v] /\ request'[v] = request[v]
                 /\ old'[v] = old[v] /\ moved'[v]
      BY <1>1, <2>5 DEF Persist, Done, WebhookTypeOK
    <2>6. OperatorNotDenied' /\ OperatorsRequest'
      BY <2>5, <1>1, WebhookAssumption
      DEF OperatorNotDenied, OperatorsRequest, WebhookTypeOK, Persist, Done
    <2>7. ASSUME NEW v \in Users, stage'[v] # "idle"
          PROVE  WellFormed(v)' /\ AnswerJustified(v)'
      <3>1. WellFormed(v) /\ AnswerJustified(v) /\ stage[v] # "idle"
        BY <2>5, <2>7
      <3>2. WellFormed(v)'
        BY <3>1, <2>5, <2>7 DEF WellFormed
      <3>3. AnswerJustified(v)'
        BY <3>1, <2>5, <2>7 DEF AnswerJustified, Allowed, Valid, Exempt
      <3> QED BY <3>2, <3>3
    <2> QED BY <2>3, <2>4, <2>6, <2>7
  <1>2. CASE Refuse(u)
    <2>1. WebhookTypeOK'
      BY <1>2 DEF Refuse, Done, WebhookTypeOK, Stages
    <2>2. TTLParseable'
      BY <1>2 DEF Refuse, TTLParseable, Exists, Valid
    <2>3. ASSUME NEW v \in Users, stage'[v] # "idle"
          PROVE  /\ v # u /\ stage'[v] = stage[v] /\ request'[v] = request[v]
                 /\ old'[v] = old[v] /\ moved'[v] = moved[v] /\ project' = project
      BY <1>2, <2>3 DEF Refuse, Done, WebhookTypeOK
    <2>4. OperatorNotDenied' /\ OperatorsRequest'
      BY <2>3, <1>2, WebhookAssumption
      DEF OperatorNotDenied, OperatorsRequest, WebhookTypeOK, Refuse, Done
    <2>5. ASSUME NEW v \in Users, stage'[v] # "idle"
          PROVE  WellFormed(v)' /\ AnswerJustified(v)'
      <3>1. WellFormed(v) /\ AnswerJustified(v) /\ stage[v] # "idle"
        BY <2>3, <2>5
      <3>2. WellFormed(v)'
        BY <3>1, <2>3, <2>5 DEF WellFormed
      <3>3. AnswerJustified(v)'
        BY <3>1, <2>3, <2>5 DEF AnswerJustified, Allowed, Valid, Exempt
      <3> QED BY <3>2, <3>3
    <2> QED BY <2>1, <2>2, <2>4, <2>5
  <1> QED BY <1>1, <1>2

LEMMA AdmitAgainInv ==
    ASSUME WebhookInv, NEW u \in Users, AdmitAgain(u)
    PROVE  WebhookInv'
  <1> USE DEF WebhookInv, AdmitAgain
  <1>1. stage[u] # "idle" /\ u # Operator
    BY DEF Allowed
  <1>2. WebhookTypeOK'
    BY DEF WebhookTypeOK, Stages
  <1>3. TTLParseable'
    BY DEF TTLParseable, Exists, Valid
  <1>4. OperatorNotDenied' /\ OperatorsRequest'
    BY <1>1, WebhookAssumption DEF OperatorNotDenied, OperatorsRequest, WebhookTypeOK, Valid
  <1>5. ASSUME NEW v \in Users, stage'[v] # "idle"
        PROVE  WellFormed(v)' /\ AnswerJustified(v)'
    <2>1. CASE v = u
      <3>1. /\ stage'[v] = "admission" /\ request'[v] = request[v]
            /\ old'[v] = project /\ project' = project /\ project # NoProject
        BY <2>1 DEF WebhookTypeOK, Exists
      <3>2. WellFormed(v) /\ request[v].operation # "create"
        BY <2>1, <1>1
      <3> QED BY <3>1, <3>2 DEF WellFormed, AnswerJustified, Allowed
    <2>2. CASE v # u
      <3>1. /\ stage'[v] = stage[v] /\ request'[v] = request[v] /\ old'[v] = old[v]
            /\ moved'[v] = moved[v] /\ project' = project
        BY <2>2 DEF WebhookTypeOK
      <3>2. WellFormed(v) /\ AnswerJustified(v)
        BY <3>1, <1>5
      <3>3. WellFormed(v)'
        BY <3>1, <3>2 DEF WellFormed
      <3>4. AnswerJustified(v)'
        BY <3>1, <3>2 DEF AnswerJustified, Allowed, Valid, Exempt
      <3> QED BY <3>3, <3>4
    <2> QED BY <2>1, <2>2
  <1> QED BY <1>2, <1>3, <1>4, <1>5

\* Neither the role bindings nor a step that changes nothing is of concern.
LEMMA RulesInv ==
    ASSUME WebhookInv, (\E u \in Users : ChangeRules(u)) \/ UNCHANGED webhookVars
    PROVE  WebhookInv'
  <1>1. /\ UNCHANGED <<project, request, old, moved, stage>>
        /\ rules' \in [Persons -> Rules]
    BY DEF ChangeRules, webhookVars, WebhookInv, WebhookTypeOK
  <1>2. WebhookTypeOK'
    BY <1>1 DEF WebhookInv, WebhookTypeOK
  <1>3. TTLParseable' /\ OperatorNotDenied' /\ OperatorsRequest'
    BY <1>1 DEF WebhookInv, TTLParseable, OperatorNotDenied, OperatorsRequest, Exists, Valid
  <1>4. ASSUME NEW v \in Users, stage'[v] # "idle"
        PROVE  WellFormed(v)' /\ AnswerJustified(v)'
    BY <1>1, <1>4 DEF WebhookInv, WellFormed, AnswerJustified, Allowed, Valid, Exempt
  <1> QED BY <1>2, <1>3, <1>4 DEF WebhookInv

LEMMA WebhookStepInv == WebhookInv /\ [WebhookNext]_webhookVars => WebhookInv'
  <1> SUFFICES ASSUME WebhookInv, [WebhookNext]_webhookVars PROVE WebhookInv'
    OBVIOUS
  <1>1. CASE UNCHANGED webhookVars
    BY <1>1, RulesInv
  <1>2. ASSUME NEW u \in Users, SendAny(u)      PROVE WebhookInv'
    BY <1>2, SendInv
  <1>3. ASSUME NEW u \in Users, Handle(u)       PROVE WebhookInv'
    BY <1>3, HandleInv
  <1>4. ASSUME NEW u \in Users, CallFails(u)    PROVE WebhookInv'
    BY <1>4, HandleInv
  <1>5. ASSUME NEW u \in Users, Answer(u)       PROVE WebhookInv'
    BY <1>5, DoneInv, AdmitAgainInv DEF Answer
  <1>6. ASSUME NEW u \in Users, ChangeRules(u)  PROVE WebhookInv'
    BY <1>6, RulesInv
  <1> QED BY <1>1, <1>2, <1>3, <1>4, <1>5, <1>6 DEF WebhookNext
-----------------------------------------------------------------------------
\* The webhook's requests and the stored project are well typed, whoever sends
\* what and whichever calls fail.
THEOREM WebhookTypeCorrect == WebhookSpec => []WebhookTypeOK
  <1>1. WebhookInv => WebhookTypeOK
    BY DEF WebhookInv
  <1> QED BY <1>1, WebhookInitInv, WebhookStepInv, PTL DEF WebhookSpec

\* The stored TTL annotation can always be parsed, as the reconciler assumes.
THEOREM TTLAlwaysParseable == WebhookSpec => []TTLParseable
  <1>1. WebhookInv => TTLParseable
    BY DEF WebhookInv
  <1> QED BY <1>1, WebhookInitInv, WebhookStepInv, PTL DEF WebhookSpec

\* The operator's own requests are never denied.
THEOREM OperatorNeverDenied == WebhookSpec => []OperatorNotDenied
  <1>1. WebhookInv => OperatorNotDenied
    BY DEF WebhookInv
  <1> QED BY <1>1, WebhookInitInv, WebhookStepInv, PTL DEF WebhookSpec

\* A project is only changed or deleted by who may: however requests overlap,
\* the project a request was admitted against is the one it takes effect on.
THEOREM EntitledChanges == WebhookSpec => OnlyEntitledChange
  <1> DEFINE Entitled ==
        \A u \in Users :
            Exists /\ stage[u] = "admitted" /\ stage'[u] = "idle" /\ project' # project
                => Exempt(u, project)
  <1>1. WebhookInv /\ [WebhookNext]_webhookVars => [Entitled]_webhookVars
    <2> SUFFICES ASSUME WebhookInv, WebhookNext, NEW u \in Users, Exists,
                        stage[u] = "admitted", stage'[u] = "idle", project' # project
                 PROVE  Exempt(u, project)
      OBVIOUS
    <2>1. PICK v \in Users : Persist(v)
      BY DEF WebhookNext, SendAny, Send, Handle, ValidateCreate, ValidateUpdate,
             ValidateDelete, Review, Authorize, Advance, CallFails, Answer, AdmitAgain,
             Refuse, ChangeRules
    <2>2. v = u
      BY <2>1 DEF Persist, Done, WebhookInv, WebhookTypeOK
    <2>3. WellFormed(u) /\ AnswerJustified(u) /\ ~moved[u]
      BY <2>1, <2>2 DEF WebhookInv, Persist
    <2> QED BY <2>3 DEF WellFormed, AnswerJustified, Exists
  <1> QED BY <1>1, WebhookInitInv, WebhookStepInv, PTL DEF WebhookSpec, OnlyEntitledChange
=============================================================================
