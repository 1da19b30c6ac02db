--------------------------- MODULE Platform_proofs ---------------------------
(***************************************************************************)
(* Whatever the game asks, whichever requests fail and whoever signs in    *)
(* meanwhile, the broker answers for one account and its present app; and  *)
(* the shim and the relay around it change nothing of that.                *)
(***************************************************************************)
EXTENDS Platform, TLAPS

-----------------------------------------------------------------------------
(* The broker.                                                             *)

\* What is being asked of Meta was begun for the pinned account and for the
\* app of the request, which no declaration has replaced since.
Served ==
  serving # None =>
    /\ loaded /\ account \in SignIns /\ serving.by = account
    /\ app \in Valid
    /\ serving.req.app # None => app = serving.req.app
    /\ serving.stage \in {"exchange", "me"} => serving.req.op # "entitlement"
    /\ serving.stage \in {"user_proof", "org_scoped_id"}
         => token \in Token /\ token.app = app /\ token.by = account

Replied ==
  answer # None /\ answer.error = "none" =>
    /\ loaded /\ account \in SignIns /\ answer.by = account
    /\ answer.app \in Valid
    /\ answer.req.app # None => answer.app = answer.req.app

Settled ==
  /\ serving \in Serving \union {None} /\ Served
  /\ answer \in Answer \union {None} /\ Replied

BrokerInv == BrokerTypeOK /\ TokenIsCurrent /\ Served /\ Replied

LEMMA BrokerInitial == BrokerInit => BrokerInv
  BY BrokerAssumption
  DEF BrokerInit, BrokerInv, BrokerTypeOK, TokenIsCurrent, Served, Replied, Errors

LEMMA FailureType ==
  ASSUME NEW r \in Request, NEW e \in Errors
  PROVE  Failure(r, e) \in Answer /\ (Failure(r, e).error = e)
  BY DEF Failure, Answer

LEMMA SuccessType ==
  ASSUME NEW r \in Request, NEW a \in Valid, NEW s \in SignIns
  PROVE  /\ Success(r, a, s) \in Answer
         /\ Success(r, a, s).req = r /\ Success(r, a, s).app = a /\ Success(r, a, s).by = s
  BY BrokerAssumption DEF Success, Answer, Errors

\* Refusing a request, whatever its declaration changed.
LEMMA Refuses ==
  ASSUME NEW r \in Request, NEW e \in Errors \ {"none"},
         Reply(Failure(r, e))
  PROVE  answer' \in Answer /\ serving' = None /\ Served' /\ Replied'
<1>1. answer' \in Answer /\ answer'.error # "none"
  BY FailureType DEF Reply
<1> QED BY <1>1 DEF Reply, Served, Replied

\* Declaring an app id leaves no token of another one.
LEMMA Declared ==
  ASSUME BrokerInv, NEW r \in Request, r.app = None \/ r.app \in Valid, Declare(r)
  PROVE  /\ app' \in Apps \union {None}
         /\ r.app # None => app' = r.app
         /\ token' = None \/ (token' = token /\ app' = app)
         /\ token' \in Token \union {None}
         /\ refusal' \in Errors
  BY BrokerAssumption DEF BrokerInv, BrokerTypeOK, Declare, Request, Errors

\* With a token of the present app, the answer is of that app, or Meta is
\* asked with that token.
LEMMA Queried ==
  ASSUME NEW r \in Request, NEW t \in Token,
         token' = t, loaded', account' \in SignIns, t.by = account', t.app = app',
         r.app # None => app' = r.app,
         r.op # "entitlement",
         Query(r, account', t)
  PROVE  /\ answer' \in Answer \union {None, answer} /\ serving' \in Serving \union {None}
         /\ Served' /\ (Replied' \/ answer' = answer)
<1>1. t.app \in Valid /\ t.by \in SignIns
  BY DEF Token
<1>2. CASE r.op = "credentials"
  <2>1. answer' = Success(r, t.app, t.by) /\ serving' = None
    BY <1>2 DEF Query, Reply
  <2> QED BY <2>1, <1>1, SuccessType DEF Served, Replied
<1>3. CASE r.op # "credentials" /\ r.op = "org_scoped_id" /\ ~r.named
  <2>1. Reply(Failure(r, "invalid_argument"))
    BY <1>3 DEF Query
  <2> QED BY <2>1, Refuses DEF Errors
<1>4. CASE r.op # "credentials" /\ ~(r.op = "org_scoped_id" /\ ~r.named)
  <2>1. Ask(r, account', r.op)
    BY <1>4 DEF Query
  <2>2. r.op \in {"user_proof", "org_scoped_id"}
    BY <1>4 DEF Request, Ops
  <2>3. /\ serving' = [req |-> r, by |-> account', stage |-> r.op, tries |-> 0]
        /\ answer' = answer
    BY <2>1 DEF Ask
  <2>4. serving' \in Serving
    BY <2>2, <2>3 DEF Serving, Stages
  <2> QED BY <1>1, <2>2, <2>3, <2>4 DEF Served
<1> QED BY <1>2, <1>3, <1>4

\* A request that stays in handle() is about nothing else than the account.
LEMMA BrokerServes ==
  ASSUME BrokerInv, NEW r \in Request, Serve(r)
  PROVE  BrokerInv'
<1>1. CASE Misdeclared(r)
  <2>1. Reply(Failure(r, "invalid_argument")) /\ "invalid_argument" \in Errors \ {"none"}
    BY <1>1 DEF Misdeclared, Errors
  <2>2. answer' \in Answer /\ serving' = None /\ Served' /\ Replied'
    BY <2>1, Refuses
  <2> QED BY <1>1, <2>2 DEF Misdeclared, BrokerInv, BrokerTypeOK, TokenIsCurrent
<1>2. CASE Unreadable(r)
  <2>1. Reply(Failure(r, "unavailable")) /\ "unavailable" \in Errors \ {"none"}
    BY <1>2 DEF Unreadable, Errors
  <2>2. answer' \in Answer /\ serving' = None /\ Served' /\ Replied'
    BY <2>1, Refuses
  <2>3. /\ app' \in Apps \union {None} /\ token' \in Token \union {None}
        /\ refusal' \in Errors
        /\ token' = None \/ (token' = token /\ app' = app)
    BY <1>2, Declared DEF Unreadable
  <2> QED BY <1>2, <2>2, <2>3 DEF Unreadable, BrokerInv, BrokerTypeOK, TokenIsCurrent
<1>3. ASSUME NEW current \in SignIns \union {None}, Handle(r, current)
      PROVE  BrokerInv'
  <2>1. /\ app' \in Apps \union {None} /\ token' \in Token \union {None}
        /\ refusal' \in Errors
        /\ token' = None \/ (token' = token /\ app' = app)
        /\ r.app # None => app' = r.app
    BY <1>3, Declared DEF Handle
  <2>2. loaded' = TRUE /\ account' \in SignIns \union {None} /\ (loaded => account' = account)
    BY <1>3 DEF Handle, Pinned, BrokerInv, BrokerTypeOK
  <2>3. TokenIsCurrent'
    BY <2>1, <2>2 DEF BrokerInv, TokenIsCurrent
  <2>4. SUFFICES Settled'
    BY <2>1, <2>2, <2>3 DEF BrokerInv, BrokerTypeOK, Settled
  <2>5. answer = None
    BY <1>3 DEF Handle
  <2>6. ASSUME NEW e \in Errors \ {"none"}, Reply(Failure(r, e)) PROVE Settled'
    BY <2>6, Refuses DEF Settled
  <2>7. ASSUME account' \in SignIns, NEW stage \in {"library", "exchange"},
               app' \in Valid, stage = "exchange" => r.op # "entitlement", Ask(r, account', stage)
        PROVE  Settled'
    <3>1. /\ serving' = [req |-> r, by |-> account', stage |-> stage, tries |-> 0]
          /\ answer' = None
      BY <2>5, <2>7 DEF Ask
    <3>2. serving' \in Serving
      BY <2>7, <3>1 DEF Serving, Stages
    <3> QED BY <2>1, <2>2, <2>7, <3>1, <3>2 DEF Served, Replied, Settled
  <2> USE DEF Errors
  <2>8. CASE account' = None
    BY <1>3, <2>6, <2>8 DEF Handle
  <2>9. CASE account' # None /\ current # account'
    BY <1>3, <2>6, <2>9 DEF Handle
  <2>10. CASE account' # None /\ current = account'
    <3>1. Begin(r, account') /\ account' \in SignIns
      BY <1>3, <2>2, <2>10 DEF Handle
    <3>2. CASE r.op = "entitlement"
      BY <2>6, <2>7, <3>1, <3>2 DEF Begin
    <3>3. CASE r.op # "entitlement" /\ token' # None
      <4>1. Query(r, account', token') /\ token' \in Token
        BY <2>1, <3>1, <3>3 DEF Begin
      <4>2. token'.by = account' /\ token'.app = app'
        BY <2>3, <3>3 DEF TokenIsCurrent
      <4>3. /\ answer' \in Answer \union {None, answer} /\ serving' \in Serving \union {None}
            /\ Served' /\ (Replied' \/ answer' = answer)
        BY <2>1, <2>2, <3>1, <3>3, <4>1, <4>2, Queried
      <4> QED BY <2>5, <4>3 DEF Replied, Settled
    <3>4. CASE r.op # "entitlement" /\ token' = None
      BY <2>1, <2>6, <2>7, <3>1, <3>4 DEF Begin
    <3> QED BY <3>2, <3>3, <3>4
  <2> QED BY <2>8, <2>9, <2>10
<1> QED BY <1>1, <1>2, <1>3 DEF Serve

LEMMA BrokerSends ==
  ASSUME BrokerInv, NEW o \in Outcomes, Send(o)
  PROVE  BrokerInv'
<1>1. /\ serving \in Serving
      /\ serving' = [serving EXCEPT !.tries = @ + 1]
  BY DEF Send, Retries, BrokerInv, BrokerTypeOK
<1>2. /\ serving' \in Serving /\ serving'.req = serving.req /\ serving'.by = serving.by
      /\ serving'.stage = serving.stage
  BY <1>1 DEF Serving
<1>3. Served'
  BY <1>2 DEF Send, BrokerInv, Served
<1> QED BY <1>2, <1>3 DEF Send, BrokerInv, BrokerTypeOK, TokenIsCurrent, Replied

LEMMA BrokerReceives ==
  ASSUME BrokerInv, NEW o \in Outcomes, Receive(o)
  PROVE  BrokerInv'
<1> DEFINE s == serving
<1>1. /\ s # None /\ s \in Serving /\ s.req \in Request /\ s.by = account /\ s.by \in SignIns
      /\ loaded /\ app \in Valid
      /\ s.req.app # None => app = s.req.app
      /\ UNCHANGED <<loaded, account, app>>
  BY DEF Receive, BrokerInv, BrokerTypeOK, Served, Serving
<1>2. Classified(o) \in Errors \ {"none"}
  BY DEF Classified, Errors
<1>3. ASSUME NEW e \in Errors \ {"none"}, Reply(Failure(s.req, e)) PROVE Settled'
  BY <1>1, <1>3, Refuses DEF Settled
<1>4. ASSUME NEW t \in SignIns, t = account, Reply(Success(s.req, app, t)) PROVE Settled'
  BY <1>1, <1>4, SuccessType DEF Reply, Settled, Served, Replied
<1>5. ASSUME NEW stage \in {"me", "builds"}, Ask(s.req, s.by, stage),
             stage = "me" => s.stage = "exchange"
      PROVE  Settled'
  <2>1. /\ serving' = [req |-> s.req, by |-> s.by, stage |-> stage, tries |-> 0]
        /\ UNCHANGED answer
    BY <1>5 DEF Ask
  <2>2. serving' \in Serving
    BY <1>1, <2>1 DEF Serving, Stages
  <2> QED BY <1>1, <1>5, <2>1, <2>2 DEF Settled, Served, Replied, BrokerInv, BrokerTypeOK
<1> SUFFICES /\ Settled' /\ TokenIsCurrent'
             /\ token' \in Token \union {None} /\ refusal' \in Errors
  BY <1>1 DEF BrokerInv, BrokerTypeOK, Settled
<1>6. CASE Authenticated(s, o)
  <2>1. CASE o = "ok" /\ s.stage = "exchange"
    BY <1>1, <1>5, <1>6, <2>1 DEF Authenticated, BrokerInv, BrokerTypeOK, TokenIsCurrent
  <2>2. CASE o = "ok" /\ s.stage = "me"
    <3> s.req.op # "entitlement"
      BY <2>2 DEF Receive, BrokerInv, Served
    <3>1. /\ token' = [app |-> app, by |-> s.by] /\ Query(s.req, s.by, token')
          /\ UNCHANGED refusal
      BY <1>6, <2>2 DEF Authenticated
    <3>2. token' \in Token /\ token'.app = app /\ token'.by = account
      BY <1>1, <3>1 DEF Token
    <3>3. /\ answer' \in Answer \union {None, answer} /\ serving' \in Serving \union {None}
          /\ Served' /\ (Replied' \/ answer' = answer)
      BY <1>1, <3>1, <3>2, Queried
    <3> QED BY <1>1, <3>1, <3>2, <3>3
            DEF Settled, BrokerInv, BrokerTypeOK, TokenIsCurrent, Replied
  <2>3. CASE o # "ok"
    <3>1. /\ Reply(Failure(s.req, Classified(o))) /\ UNCHANGED token
          /\ refusal' \in {Classified(o), refusal}
      BY <1>6, <2>3 DEF Authenticated
    <3> QED BY <1>1, <1>2, <1>3, <3>1 DEF BrokerInv, BrokerTypeOK, TokenIsCurrent
  <2> QED BY <1>6, <2>1, <2>2, <2>3 DEF Authenticated
<1>7. CASE Entitlement(s, o)
  <2>1. Settled'
    <3>1. "not_entitled" \in Errors \ {"none"}
      BY DEF Errors
    <3> QED BY <1>1, <1>2, <1>3, <1>4, <1>5, <1>7, <3>1 DEF Entitlement
  <2> QED BY <1>1, <1>7, <2>1 DEF Entitlement, BrokerInv, BrokerTypeOK, TokenIsCurrent
<1>8. CASE Asked(s, o)
  <2>1. token \in Token /\ token.app = app /\ token.by = account
    BY <1>8 DEF Asked, BrokerInv, Served, Receive
  <2>2. Settled'
    BY <1>1, <1>2, <1>3, <1>4, <1>8, <2>1 DEF Asked
  <2> QED BY <1>1, <1>8, <2>2 DEF Asked, Expired, BrokerInv, BrokerTypeOK, TokenIsCurrent
<1> QED BY <1>6, <1>7, <1>8 DEF Receive

LEMMA BrokerGives == BrokerInv /\ Take => BrokerInv'
  BY DEF Take, BrokerInv, BrokerTypeOK, TokenIsCurrent, Served, Replied

LEMMA BrokerStep == BrokerInv /\ [BrokerNext]_brokerVars => BrokerInv'
<1> SUFFICES ASSUME BrokerInv, [BrokerNext]_brokerVars PROVE BrokerInv'
  OBVIOUS
<1>1. CASE UNCHANGED brokerVars
  BY <1>1 DEF brokerVars, BrokerInv, BrokerTypeOK, TokenIsCurrent, Served, Replied
<1>2. CASE BrokerNext
  BY <1>2, BrokerServes, BrokerSends, BrokerReceives, BrokerGives DEF BrokerNext, Meta
<1> QED BY <1>1, <1>2

\* What the broker promises the game is in its invariant.
LEMMA BrokerPromises ==
  BrokerInv => /\ BrokerTypeOK /\ TokenIsCurrent
               /\ AnsweredForAccount
  BY BrokerAssumption
  DEF BrokerInv, Replied, Served, AnsweredForAccount

\* The account is pinned by the first request and stays.
LEMMA PinnedStays ==
  ASSUME BrokerInv, [BrokerNext]_brokerVars, loaded
  PROVE  loaded' /\ account' = account
<1>1. CASE UNCHANGED brokerVars
  BY <1>1 DEF brokerVars
<1>2. CASE BrokerNext
  BY <1>2 DEF BrokerNext, Serve, Misdeclared, Unreadable, Handle, Pinned, Meta, Send,
              Receive, Take
<1> QED BY <1>1, <1>2

-----------------------------------------------------------------------------
(* Arithmetic of the ring.                                                 *)

LEMMA SuccWraps ==
  ASSUME NEW i \in 0..Ring - 1
  PROVE  Succ(i) = IF i = Ring - 1 THEN 0 ELSE i + 1
  BY ShimAssumption DEF Succ

\* The slots from one index up to another, around the ring.
Slots(h, t) == {i \in 0..Ring - 1 : IF h <= t THEN h <= i /\ i < t ELSE h <= i \/ i < t}

LEMMA Around ==
  ASSUME NEW h \in 0..Ring - 1, NEW t \in 0..Ring - 1
  PROVE  {i \in 0..Ring - 1 : (i + Ring - h) % Ring < (t + Ring - h) % Ring} = Slots(h, t)
<1>1. ASSUME NEW i \in 0..Ring - 1
      PROVE  (i + Ring - h) % Ring = IF h <= i THEN i - h ELSE i + Ring - h
  BY ShimAssumption
<1>2. ASSUME NEW i \in 0..Ring - 1
      PROVE  (i + Ring - h) % Ring < (t + Ring - h) % Ring
               <=> IF h <= t THEN h <= i /\ i < t ELSE h <= i \/ i < t
  <2>1. (i + Ring - h) % Ring = IF h <= i THEN i - h ELSE i + Ring - h
    BY <1>1
  <2>2. (t + Ring - h) % Ring = IF h <= t THEN t - h ELSE t + Ring - h
    BY <1>1
  <2> QED BY <2>1, <2>2, ShimAssumption
<1> QED BY <1>2 DEF Slots

LEMMA WaitingSlots ==
  ASSUME head \in 0..Ring - 1, tail \in 0..Ring - 1 PROVE Waiting = Slots(head, tail)
  BY Around DEF Waiting

LEMMA WaitingSlotsNext ==
  ASSUME head' \in 0..Ring - 1, tail' \in 0..Ring - 1 PROVE Waiting' = Slots(head', tail')
<1>1. Waiting' = {i \in 0..Ring - 1 : (i + Ring - head') % Ring < (tail' + Ring - head') % Ring}
  BY DEF Waiting
<1> QED BY <1>1, Around

LEMMA PopWaits ==
  ASSUME head \in 0..Ring - 1, tail \in 0..Ring - 1, head # tail,
         head' = Succ(head), tail' = tail
  PROVE  head \in Waiting /\ Waiting' = Waiting \ {head} /\ head' \in 0..Ring - 1
<1>1. head' = IF head = Ring - 1 THEN 0 ELSE head + 1
  BY SuccWraps
<1>2. head' \in 0..Ring - 1 /\ tail' \in 0..Ring - 1
  BY <1>1, ShimAssumption
<1>3. Waiting = Slots(head, tail) /\ Waiting' = Slots(head', tail')
  BY <1>2, WaitingSlots, WaitingSlotsNext
<1> QED BY <1>1, <1>2, <1>3, ShimAssumption DEF Slots

\* A full ring gives up its oldest message.
LEMMA PushWaits ==
  ASSUME head \in 0..Ring - 1, tail \in 0..Ring - 1, NEW m, Push(m)
  PROVE  /\ tail \notin Waiting
         /\ Full => head \in Waiting /\ dropped' = dropped \union {ring[head].id}
         /\ ~Full => dropped' = dropped
         /\ Waiting' = (IF Full THEN Waiting \ {head} ELSE Waiting) \union {tail}
         /\ head' \in 0..Ring - 1 /\ tail' \in 0..Ring - 1
<1>1. tail' = (IF tail = Ring - 1 THEN 0 ELSE tail + 1)
  BY SuccWraps DEF Push
<1>2. head' = IF Full THEN IF head = Ring - 1 THEN 0 ELSE head + 1 ELSE head
  BY SuccWraps DEF Push
<1>3. Full <=> tail' = head
  BY DEF Full, Push
<1>4. head' \in 0..Ring - 1 /\ tail' \in 0..Ring - 1
  BY <1>1, <1>2, ShimAssumption
<1>5. Waiting = Slots(head, tail) /\ Waiting' = Slots(head', tail')
  BY <1>4, WaitingSlots, WaitingSlotsNext
<1>6. tail \notin Slots(head, tail)
  BY ShimAssumption DEF Slots
<1>7. Full => head \in Slots(head, tail)
  BY <1>1, <1>3, ShimAssumption DEF Slots
<1>8. Slots(head', tail') = (IF Full THEN Slots(head, tail) \ {head} ELSE Slots(head, tail))
                              \union {tail}
  BY <1>1, <1>2, <1>3, <1>4, ShimAssumption DEF Slots
<1> QED BY <1>4, <1>5, <1>6, <1>7, <1>8 DEF Push

-----------------------------------------------------------------------------
(* The messages.                                                           *)

Done == {c \in Requests : At(c, "done") /\ calls[c].kind \notin Silent}
Ids  == {ring[i].id : i \in Waiting}

\* Waiting messages are there, each once, and account for what is done.
Kept ==
  /\ Done = Ids \union popped \union dropped
  /\ Ids \intersect popped = {} /\ dropped \intersect (Ids \union popped) = {}
  /\ \A i \in Waiting : ring[i] # None
  /\ \A i, j \in Waiting : ring[i].id = ring[j].id => i = j

QueueType ==
  /\ ring \in [0..Ring - 1 -> Message \union {None}]
  /\ head \in 0..Ring - 1 /\ tail \in 0..Ring - 1
  /\ popped \subseteq Requests /\ dropped \subseteq Requests

LEMMA KeptAlone ==
  ASSUME Kept, UNCHANGED queue, Done' = Done
  PROVE  Kept'
<1>1. Waiting' = Waiting /\ Ids' = Ids
  BY DEF queue, Waiting, Ids
<1> QED BY <1>1 DEF Kept, queue

LEMMA KeptByPush ==
  ASSUME Kept, QueueType, NEW m \in Message, m.id \notin Done, Push(m),
         Done' = Done \union {m.id}
  PROVE  Kept' /\ QueueType'
<1>1. /\ tail \notin Waiting /\ head' \in 0..Ring - 1 /\ tail' \in 0..Ring - 1
      /\ Full => head \in Waiting /\ dropped' = dropped \union {ring[head].id}
      /\ ~Full => dropped' = dropped
      /\ Waiting' = (IF Full THEN Waiting \ {head} ELSE Waiting) \union {tail}
  BY PushWaits DEF QueueType
<1>2. /\ ring' \in [0..Ring - 1 -> Message \union {None}] /\ popped' = popped
      /\ ring'[tail] = m /\ \A i \in Waiting : ring'[i] = ring[i]
  BY <1>1 DEF Push, QueueType, Waiting
<1>3. m # None /\ m.id \in Requests
  BY ShimAssumption DEF Message
<1>4. \A i \in Waiting : ring[i] \in Message /\ ring[i].id \in Requests /\ ring[i].id # m.id
  BY DEF Kept, QueueType, Waiting, Message, Ids
<1>5. Ids' = (IF Full THEN Ids \ {ring[head].id} ELSE Ids) \union {m.id}
  <2>1. Ids' = {ring'[i].id : i \in Waiting'}
    BY DEF Ids
  <2>2. CASE Full
    <3>1. {ring[i].id : i \in Waiting \ {head}} = Ids \ {ring[head].id}
      BY <1>1, <2>2 DEF Kept, Ids
    <3>2. Waiting' = (Waiting \ {head}) \union {tail} /\ tail \notin Waiting
      BY <1>1, <2>2
    <3>3. {ring'[i].id : i \in Waiting \ {head}} = {ring[i].id : i \in Waiting \ {head}}
      BY <1>2
    <3>4. Ids' = {ring'[i].id : i \in Waiting \ {head}} \union {m.id}
      BY <1>2, <2>1, <3>2
    <3> QED BY <2>2, <3>1, <3>3, <3>4
  <2>3. CASE ~Full
    BY <1>1, <1>2, <2>1, <2>3 DEF Ids
  <2> QED BY <2>2, <2>3
<1>6. Full => ring[head].id \in Ids
  BY <1>1 DEF Ids
<1>7. m.id \notin Ids \union popped \union dropped
  BY DEF Kept
<1>8. /\ Done' = Ids' \union popped' \union dropped'
      /\ Ids' \intersect popped' = {} /\ dropped' \intersect (Ids' \union popped') = {}
  <2>1. CASE Full
    BY <1>1, <1>2, <1>5, <1>6, <1>7, <2>1 DEF Kept
  <2>2. CASE ~Full
    BY <1>1, <1>2, <1>5, <1>7, <2>2 DEF Kept
  <2> QED BY <2>1, <2>2
<1>9. \A i \in Waiting' : ring'[i] # None
  BY <1>1, <1>2, <1>3 DEF Kept
<1>10. \A i, j \in Waiting' : ring'[i].id = ring'[j].id => i = j
  BY <1>1, <1>2, <1>4 DEF Kept
<1>11. dropped' \subseteq Requests
  BY <1>1, <1>4 DEF QueueType
<1> QED BY <1>1, <1>2, <1>8, <1>9, <1>10, <1>11 DEF Kept, QueueType

LEMMA KeptByPop ==
  ASSUME Kept, QueueType, PopMessage
  PROVE  Kept' /\ QueueType' /\ ring[head] # None
<1>1. head \in Waiting /\ Waiting' = Waiting \ {head} /\ head' \in 0..Ring - 1
  BY PopWaits DEF PopMessage, QueueType
<1>2. /\ ring' \in [0..Ring - 1 -> Message \union {None}]
      /\ \A i \in Waiting' : ring'[i] = ring[i]
  BY <1>1 DEF PopMessage, QueueType, Waiting
<1>3. ring[head] \in Message /\ ring[head].id \in Requests /\ ring[head].id \in Ids
  BY <1>1 DEF Kept, QueueType, Message, Ids
<1>4. Ids' = Ids \ {ring[head].id}
  <2>1. Ids' = {ring[i].id : i \in Waiting \ {head}}
    BY <1>1, <1>2 DEF Ids
  <2> QED BY <1>1, <2>1 DEF Kept, Ids
<1>5. Done' = Done
  BY DEF PopMessage, Done, At
<1>6. /\ Done' = Ids' \union popped' \union dropped'
      /\ Ids' \intersect popped' = {} /\ dropped' \intersect (Ids' \union popped') = {}
  BY <1>3, <1>4, <1>5 DEF Kept, PopMessage
<1> QED BY <1>1, <1>2, <1>3, <1>6 DEF Kept, QueueType, PopMessage

-----------------------------------------------------------------------------
(* The calls and the identity.                                             *)

\* A reply is the one to the call that holds it, for the pinned account.
CallOwn(c) ==
  /\ calls[c].phase # "done" => calls[c].kind # "local"
  /\ calls[c].phase \in {"replied", "stored"} =>
       /\ calls[c].reply \in Answer /\ calls[c].reply.req.id = c
       /\ Good(c) => /\ loaded /\ account \in SignIns
                     /\ calls[c].reply.by = account /\ calls[c].reply.app \in Valid
  /\ calls[c].phase = "stored" =>
       calls[c].kind \notin Silent /\ (Good(c) => identity # None)

CallsOwn == \A c \in Requests : calls[c] # None => CallOwn(c)

Known == identity # None => loaded /\ identity.by = account

MessageOwn(m) ==
  /\ m.from = m.id
  /\ m.ok /\ m.kind # "local" => loaded /\ m.by = account
  /\ m.ok /\ m.kind \in {"login", "user"} => identity # None

RingOwn == \A i \in 0..Ring - 1 : ring[i] # None => MessageOwn(ring[i])

\* A fetch that a getter began is under way, or failed less than 30 s ago, or
\* got the identity.
Paced == asks \in {0, 1} /\ (asks = 1 => fetcher # None \/ ~retryDue \/ identity # None)

ShimType ==
  /\ declared \in Apps \union {None} /\ identity \in Identity \union {None}
  /\ retryDue \in BOOLEAN /\ fetcher \in Requests \union {None}
  /\ calls \in [Requests -> Call \union {None}]
  /\ backlog \in Seq(Request) /\ starts \in 0..MaxStarts

\* Everything but the queue.
CallInv == ShimType /\ CallsOwn /\ Known /\ Paced

Inv == BrokerInv /\ QueueType /\ Kept /\ RingOwn /\ CallInv

\* One call changes.
LEMMA OneCall ==
  ASSUME ShimType, NEW c \in Requests, NEW n \in Call, calls' = [calls EXCEPT ![c] = n]
  PROVE  /\ calls' \in [Requests -> Call \union {None}]
         /\ calls'[c] = n /\ n # None
         /\ \A d \in Requests \ {c} : calls'[d] = calls[d]
         /\ n.phase = "done" /\ n.kind \notin Silent => Done' = Done \union {c}
         /\ ~(n.phase = "done" /\ n.kind \notin Silent) => Done' = Done \ {c}
<1>1. /\ calls' \in [Requests -> Call \union {None}]
      /\ calls'[c] = n /\ n # None
      /\ \A d \in Requests \ {c} : calls'[d] = calls[d]
  BY ShimAssumption DEF ShimType
<1> QED BY <1>1 DEF Done, At

LEMMA NewCall ==
  ASSUME NEW k \in Kinds, NEW u \in Identity \union {None}
  PROVE  /\ New(k, u) \in Call /\ New(k, u).kind = k /\ New(k, u).phase = "called"
         /\ [New(k, u) EXCEPT !.phase = "done"] \in Call
         /\ [New(k, u) EXCEPT !.phase = "done"].kind = k
         /\ [New(k, u) EXCEPT !.phase = "done"].phase = "done"
  BY DEF New, Call, Phases

\* A call moves on: its kind, its user and its reply stay.
LEMMA MovedCall ==
  ASSUME ShimType, NEW c \in Requests, NEW p \in Phases, calls[c] # None, Moves(c, p)
  PROVE  \E n \in Call : /\ calls' = [calls EXCEPT ![c] = n]
                         /\ n.kind = calls[c].kind /\ n.phase = p
                         /\ n.reply = calls[c].reply /\ n.user = calls[c].user
<1>1. calls[c] \in Call
  BY DEF ShimType
<1>2. [calls[c] EXCEPT !.phase = p] \in Call
  BY <1>1 DEF Call
<1> QED BY <1>1, <1>2 DEF Moves, ShimType, Call

LEMMA EndedCall ==
  ASSUME ShimType, NEW c \in Requests, calls[c] # None, Ends(c)
  PROVE  \E n \in Call : /\ calls' = [calls EXCEPT ![c] = n]
                         /\ n.kind = calls[c].kind /\ n.phase = "done"
<1>1. calls[c] \in Call /\ calls[c].kind \in Kinds
  BY DEF ShimType, Call
<1>2. [New(calls[c].kind, None) EXCEPT !.phase = "done"] \in Call
  BY <1>1, NewCall
<1>3. [New(calls[c].kind, None) EXCEPT !.phase = "done"].phase = "done"
  BY <1>1, NewCall
<1>4. [New(calls[c].kind, None) EXCEPT !.phase = "done"].kind = calls[c].kind
  BY <1>1, NewCall
<1> QED BY <1>2, <1>3, <1>4 DEF Ends, ShimType

\* While the account, the identity and all calls but one stay, so does what
\* the calls hold.
LEMMA OtherCalls ==
  ASSUME CallsOwn, NEW c \in Requests, UNCHANGED <<loaded, account>>,
         identity # None => identity' # None,
         \A d \in Requests \ {c} : calls'[d] = calls[d],
         CallOwn(c)'
  PROVE  CallsOwn'
<1>1. ASSUME NEW d \in Requests \ {c}, calls'[d] # None PROVE CallOwn(d)'
  BY <1>1 DEF CallsOwn, CallOwn, Good
<1> QED BY <1>1 DEF CallsOwn

LEMMA BrokerAlone == BrokerInv /\ UNCHANGED brokerVars => BrokerInv'
  BY BrokerStep

LEMMA Initially == Init => Inv
<1> SUFFICES ASSUME Init PROVE Inv
  OBVIOUS
<1>1. BrokerInv
  BY BrokerInitial DEF Init
<1>2. CallInv
  BY ShimAssumption DEF Init, CallInv, ShimType, CallsOwn, Known, Paced
<1>3. QueueType /\ RingOwn
  BY ShimAssumption DEF Init, QueueType, RingOwn
<1>4. Waiting = {}
  BY <1>3, WaitingSlots DEF QueueType, Slots, Init
<1>5. Done = {}
  BY DEF Done, At, Init
<1>6. Kept
  BY <1>4, <1>5 DEF Kept, Ids, Init
<1> QED BY <1>1, <1>2, <1>3, <1>6 DEF Inv

\* The game pops a message.
LEMMA Pops == Inv /\ PopMessage => Inv'
<1> SUFFICES ASSUME Inv, PopMessage PROVE Inv'
  OBVIOUS
<1>1. BrokerInv'
  BY BrokerAlone DEF Inv, PopMessage
<1>2. CallInv'
  BY DEF Inv, PopMessage, CallInv, ShimType, CallsOwn, CallOwn, Good, Known, Paced, brokerVars
<1>3. Kept' /\ QueueType'
  BY KeptByPop DEF Inv
<1>4. RingOwn'
  BY DEF Inv, PopMessage, RingOwn, MessageOwn, QueueType, brokerVars
<1> QED BY <1>1, <1>2, <1>3, <1>4 DEF Inv

\* A step that leaves the messages, the account and the identity alone, and
\* ends no call.
LEMMA Quietly ==
  ASSUME Inv, UNCHANGED queue, BrokerInv', Done' = Done, loaded => loaded' /\ account' = account,
         identity # None => identity' # None
  PROVE  QueueType' /\ Kept' /\ RingOwn'
<1>1. Kept'
  BY KeptAlone DEF Inv
<1>2. QueueType'
  BY DEF Inv, QueueType, queue
<1>3. ring' = ring
  BY DEF queue
<1>4. \A i \in 0..Ring - 1 : MessageOwn(ring[i]) => MessageOwn(ring[i])'
  BY <1>3 DEF MessageOwn
<1> QED BY <1>1, <1>2, <1>3, <1>4 DEF Inv, RingOwn

LEMMA Elapses == Inv /\ Elapse => Inv'
<1> SUFFICES ASSUME Inv, Elapse PROVE Inv'
  OBVIOUS
<1>1. BrokerInv'
  BY BrokerAlone DEF Inv, Elapse
<1>2. CallInv'
  BY ShimAssumption
     DEF Inv, Elapse, CallInv, ShimType, CallsOwn, CallOwn, Good, Known, Paced, brokerVars
<1>3. Done' = Done
  BY DEF Elapse, Done, At
<1> QED BY <1>1, <1>2, <1>3, Quietly DEF Inv, Elapse, brokerVars

LEMMA Initializes ==
  ASSUME Inv, NEW c \in Requests, NEW a \in Declares, Initialize(c, a)
  PROVE  Inv'
<1> DEFINE n == [New("prefetch", None) EXCEPT !.phase =
                   IF identity = None THEN "called" ELSE "done"]
<1>1. n \in Call /\ n.kind = "prefetch" /\ n.phase \in {"called", "done"}
  BY NewCall DEF Initialize, New, Call, Phases
<1>2. /\ calls' = [calls EXCEPT ![c] = n] /\ c \notin Done
      /\ UNCHANGED <<loaded, account, identity>>
  BY DEF Initialize, Fresh, Unused, Done, At, brokerVars
<1> HIDE DEF n
<1>3. /\ calls' \in [Requests -> Call \union {None}] /\ calls'[c] = n
      /\ \A d \in Requests \ {c} : calls'[d] = calls[d]
      /\ Done' = Done \ {c}
  BY <1>1, <1>2, OneCall DEF Inv, CallInv, Silent
<1>4. CallsOwn'
  BY <1>1, <1>2, <1>3, OtherCalls DEF Inv, CallInv, CallOwn
<1>5. CallInv'
  BY <1>3, <1>4, ShimAssumption DEF Inv, CallInv, Initialize, ShimType, Known, Paced, brokerVars
<1>6. BrokerInv'
  BY BrokerAlone DEF Inv, Initialize
<1> QED BY <1>2, <1>3, <1>5, <1>6, Quietly DEF Inv, Initialize

LEMMA Starts ==
  ASSUME Inv, NEW c \in Requests, NEW k \in Kinds, Start(c, k)
  PROVE  Inv'
<1> DEFINE n == New(k, IF k = "user" THEN identity ELSE None)
<1>1. n \in Call /\ n.kind = k /\ n.phase = "called"
  <2>1. (IF k = "user" THEN identity ELSE None) \in Identity \union {None}
    BY DEF Inv, CallInv, ShimType
  <2> QED BY <2>1, NewCall
<1>2. /\ calls' = [calls EXCEPT ![c] = n] /\ c \notin Done
      /\ UNCHANGED <<loaded, account, identity>> /\ k # "local"
  BY DEF Start, MayCall, Fresh, Unused, Done, At, brokerVars
<1> HIDE DEF n
<1>3. /\ calls' \in [Requests -> Call \union {None}] /\ calls'[c] = n
      /\ \A d \in Requests \ {c} : calls'[d] = calls[d]
      /\ Done' = Done \ {c}
  BY <1>1, <1>2, OneCall DEF Inv, CallInv
<1>4. CallsOwn'
  BY <1>1, <1>2, <1>3, OtherCalls DEF Inv, CallInv, CallOwn
<1>5. CallInv'
  BY <1>3, <1>4 DEF Inv, CallInv, Start, ShimType, Known, Paced, brokerVars
<1>6. BrokerInv'
  BY BrokerAlone DEF Inv, Start
<1> QED BY <1>2, <1>3, <1>5, <1>6, Quietly DEF Inv, Start

LEMMA Enqueues ==
  ASSUME Inv, NEW c \in Requests, Enqueue(c), "local" \in Kinds
  PROVE  Inv'
<1> DEFINE n == [New("local", None) EXCEPT !.phase = "done"]
           m == [id |-> c, kind |-> "local", ok |-> TRUE, from |-> c, by |-> None]
<1>1. n \in Call /\ n.kind = "local" /\ n.phase = "done" /\ n.kind \notin Silent
  BY NewCall DEF Silent
<1>2. m \in Message /\ m.id = c /\ m.from = c /\ m.kind = "local"
  BY DEF Message
<1>3. /\ calls' = [calls EXCEPT ![c] = n] /\ c \notin Done /\ Push(m)
      /\ UNCHANGED <<loaded, account, identity>>
  BY DEF Enqueue, Fresh, Unused, Done, At, brokerVars
<1> HIDE DEF n, m
<1>4. /\ calls' \in [Requests -> Call \union {None}] /\ calls'[c] = n
      /\ \A d \in Requests \ {c} : calls'[d] = calls[d]
      /\ Done' = Done \union {c}
  <2>1. ShimType
    BY DEF Inv, CallInv
  <2> QED BY <1>1, <1>3, <2>1, OneCall
<1>5. CallsOwn'
  BY <1>1, <1>3, <1>4, OtherCalls DEF Inv, CallInv, CallOwn
<1>6. CallInv'
  BY <1>4, <1>5 DEF Inv, CallInv, Enqueue, ShimType, Known, Paced, brokerVars
<1>7. BrokerInv'
  BY BrokerAlone DEF Inv, Enqueue
<1>8. Kept' /\ QueueType'
  BY <1>2, <1>3, <1>4, KeptByPush DEF Inv
<1>9. RingOwn'
  BY <1>2, <1>3 DEF Inv, Push, RingOwn, MessageOwn, QueueType
<1> QED BY <1>6, <1>7, <1>8, <1>9 DEF Inv

\* The thread of a call takes a step that leaves the messages alone and
\* moves the call on to a phase that is not the last, or silently ends it.
LEMMA Moved ==
  ASSUME Inv, NEW c \in Requests, calls[c] # None, calls[c].phase # "done",
         NEW p \in Phases \ {"done"}, Moves(c, p), UNCHANGED <<loaded, account>>,
         identity # None => identity' # None,
         p \in {"replied", "stored"} => calls[c].phase \in {"replied", "stored"},
         p = "stored" => calls[c].kind \notin Silent /\ (Good(c) => identity' # None)
  PROVE  calls' \in [Requests -> Call \union {None}] /\ CallsOwn' /\ Done' = Done
<1>1. PICK n \in Call : /\ calls' = [calls EXCEPT ![c] = n]
                        /\ n.kind = calls[c].kind /\ n.phase = p
                        /\ n.reply = calls[c].reply
  BY MovedCall DEF Inv, CallInv
<1>2. /\ calls' \in [Requests -> Call \union {None}] /\ calls'[c] = n
      /\ \A d \in Requests \ {c} : calls'[d] = calls[d]
      /\ Done' = Done \ {c}
  BY <1>1, OneCall DEF Inv, CallInv
<1>3. c \notin Done
  BY DEF Done, At
<1>4. CallOwn(c)'
  BY <1>1, <1>2 DEF Inv, CallInv, CallsOwn, CallOwn, Good
<1> QED BY <1>2, <1>3, <1>4, OtherCalls DEF Inv, CallInv

LEMMA Silenced ==
  ASSUME Inv, NEW c \in Requests, calls[c] # None, calls[c].phase # "done",
         Ends(c), calls[c].kind \in Silent, UNCHANGED <<loaded, account>>,
         identity # None => identity' # None
  PROVE  calls' \in [Requests -> Call \union {None}] /\ CallsOwn' /\ Done' = Done
<1>1. PICK n \in Call : /\ calls' = [calls EXCEPT ![c] = n]
                        /\ n.kind = calls[c].kind /\ n.phase = "done"
  BY EndedCall DEF Inv, CallInv
<1>2. /\ calls' \in [Requests -> Call \union {None}] /\ calls'[c] = n
      /\ \A d \in Requests \ {c} : calls'[d] = calls[d]
      /\ Done' = Done \ {c}
  BY <1>1, OneCall DEF Inv, CallInv
<1>3. c \notin Done
  BY DEF Done, At
<1>4. CallOwn(c)'
  BY <1>1, <1>2 DEF CallOwn
<1> QED BY <1>2, <1>3, <1>4, OtherCalls DEF Inv, CallInv

LEMMA Locks ==
  ASSUME Inv, NEW c \in Requests, Lock(c)
  PROVE  Inv'
<1>1. /\ calls[c] # None /\ calls[c].phase = "called"
      /\ UNCHANGED <<loaded, account, identity, queue>>
  BY DEF Lock, At, brokerVars
<1>2. BrokerInv'
  BY BrokerAlone DEF Inv, Lock
<1>3. CASE calls[c].kind = "getter" /\ ~MayFetch
  <2>1. calls' \in [Requests -> Call \union {None}] /\ CallsOwn' /\ Done' = Done
    BY <1>1, <1>3, Silenced DEF Lock, Silent
  <2>2. CallInv'
    BY <1>3, <2>1 DEF Inv, CallInv, Lock, ShimType, Known, Paced, brokerVars
  <2> QED BY <1>1, <1>2, <2>1, <2>2, Quietly DEF Inv
<1>4. CASE ~(calls[c].kind = "getter" /\ ~MayFetch)
  <2>1. Moves(c, "locked") /\ fetcher' = c /\ "locked" \in Phases \ {"done"}
    BY <1>4 DEF Lock, Phases
  <2>2. calls' \in [Requests -> Call \union {None}] /\ CallsOwn' /\ Done' = Done
    BY <1>1, <2>1, Moved
  <2>3. fetcher' # None
    BY <2>1, BrokerAssumption
  <2>4. asks' \in {0, 1}
    BY <1>4 DEF Inv, CallInv, Paced, Lock, MayFetch
  <2>5. CallInv'
    BY <2>1, <2>2, <2>3, <2>4 DEF Inv, CallInv, Lock, ShimType, Known, Paced, brokerVars
  <2> QED BY <1>1, <1>2, <2>2, <2>5, Quietly DEF Inv
<1> QED BY <1>3, <1>4

LEMMA Connects ==
  ASSUME Inv, NEW c \in Requests, Connect(c)
  PROVE  Inv'
<1>1. /\ calls[c] # None /\ calls[c].phase \in {"called", "locked"}
      /\ UNCHANGED <<loaded, account, identity, queue>>
      /\ Moves(c, "asked") /\ "asked" \in Phases \ {"done"}
  BY DEF Connect, At, brokerVars, Phases
<1>2. BrokerInv'
  BY BrokerAlone DEF Inv, Connect
<1>3. calls' \in [Requests -> Call \union {None}] /\ CallsOwn' /\ Done' = Done
  BY <1>1, Moved
<1>4. calls[c].kind \in Kinds /\ calls[c].kind # "local"
  BY <1>1 DEF Inv, CallInv, ShimType, Call, CallsOwn, CallOwn
<1>5. Op(calls[c].kind) \in Ops
  BY <1>4, ShimAssumption DEF Op, Ops, AllKinds, Fetching, Silent
<1>6. PICK named \in BOOLEAN :
        backlog' = Append(backlog, [id |-> c, op |-> Op(calls[c].kind),
                                    app |-> declared, named |-> named])
  BY DEF Connect
<1>7. [id |-> c, op |-> Op(calls[c].kind), app |-> declared, named |-> named] \in Request
  BY <1>5 DEF Request, Inv, CallInv, ShimType
<1>8. backlog' \in Seq(Request)
  BY <1>6, <1>7 DEF Inv, CallInv, ShimType
<1>9. CallInv'
  BY <1>3, <1>8 DEF Inv, CallInv, Connect, ShimType, Known, Paced, brokerVars
<1> QED BY <1>1, <1>2, <1>3, <1>9, Quietly DEF Inv

LEMMA GivesUp ==
  ASSUME Inv, NEW c \in Requests, GiveUp(c)
  PROVE  Inv'
<1> DEFINE f == [id |-> c, op |-> Op(calls[c].kind), app |-> None, named |-> FALSE]
           r == Failure(f, "unavailable")
           n == [calls[c] EXCEPT !.phase = "replied", !.reply = r]
<1>1. /\ calls[c] \in Call /\ calls[c].phase = "asked" /\ calls[c].kind # "local"
      /\ UNCHANGED <<loaded, account, identity, queue>>
      /\ calls[c] # None
  BY DEF GiveUp, At, brokerVars, Inv, CallInv, ShimType, CallsOwn, CallOwn
<1>2. Op(calls[c].kind) \in Ops
  BY <1>1, ShimAssumption DEF Op, Ops, AllKinds, Fetching, Silent, Call
<1>3. f \in Request /\ f.id = c
  BY <1>2 DEF Request
<1>4. r \in Answer /\ r.error = "unavailable" /\ r.req = f
  BY <1>3, FailureType DEF Errors, Failure
<1> HIDE DEF f, r
<1>5. n \in Call /\ n.phase = "replied" /\ n.reply = r /\ n.kind = calls[c].kind
  BY <1>1, <1>4 DEF Call, Phases
<1>6. calls' = [calls EXCEPT ![c] = n]
  BY <1>1 DEF GiveUp, Inv, CallInv, ShimType, r, f
<1> HIDE DEF n
<1>7. /\ calls' \in [Requests -> Call \union {None}] /\ calls'[c] = n
      /\ \A d \in Requests \ {c} : calls'[d] = calls[d]
      /\ Done' = Done \ {c}
  BY <1>5, <1>6, OneCall DEF Inv, CallInv
<1>8. c \notin Done
  BY <1>1 DEF Done, At
<1>9. CallOwn(c)'
  BY <1>1, <1>3, <1>4, <1>5, <1>7 DEF CallOwn, Good
<1>10. CallInv'
  BY <1>1, <1>7, <1>9, OtherCalls
     DEF Inv, CallInv, GiveUp, ShimType, Known, Paced, brokerVars
<1>11. BrokerInv'
  BY BrokerAlone DEF Inv, GiveUp
<1> QED BY <1>1, <1>7, <1>8, <1>10, <1>11, Quietly DEF Inv

\* The identity is stored, if it came, and the next fetch may begin.
LEMMA Stores ==
  ASSUME Inv, NEW c \in Requests, Store(c)
  PROVE  Inv'
<1>1. /\ calls[c] # None /\ calls[c].phase = "replied" /\ calls[c].kind \in Fetching
      /\ UNCHANGED <<loaded, account, queue>>
  BY DEF Store, At, brokerVars
<1>2. Good(c) => /\ Given(c) \in Identity /\ Given(c) # None
                 /\ loaded /\ Given(c).by = account
  BY <1>1, ShimAssumption DEF Inv, CallInv, CallsOwn, CallOwn, Given, Identity
<1>3. /\ Good(c) => identity' = Given(c)
      /\ ~Good(c) => identity' = identity
  BY DEF Store
<1>4. /\ identity' \in Identity \union {None} /\ Known'
      /\ identity # None => identity' # None
      /\ Good(c) => identity' # None
  BY <1>1, <1>2, <1>3 DEF Inv, CallInv, ShimType, Known
<1>5. calls' \in [Requests -> Call \union {None}] /\ CallsOwn' /\ Done' = Done
  <2>1. CASE calls[c].kind \in Silent
    BY <1>1, <1>4, <2>1, Silenced DEF Store
  <2>2. CASE calls[c].kind \notin Silent
    BY <1>1, <1>4, <2>2, Moved DEF Store, Phases
  <2> QED BY <2>1, <2>2
<1>6. Paced'
  BY <1>4 DEF Inv, CallInv, ShimType, Paced, Store
<1>7. CallInv'
  BY <1>4, <1>5, <1>6 DEF Inv, CallInv, Store, ShimType
<1>8. BrokerInv'
  BY BrokerAlone DEF Inv, Store
<1> QED BY <1>1, <1>4, <1>5, <1>7, <1>8, Quietly DEF Inv

LEMMA Finishes ==
  ASSUME Inv, NEW c \in Requests, Finish(c)
  PROVE  Inv'
<1> DEFINE r == calls[c].reply
           ok == Good(c) /\ (calls[c].kind = "user" => identity = calls[c].user)
           m == [id |-> c, kind |-> calls[c].kind, ok |-> ok, from |-> r.req.id, by |-> r.by]
<1>1. /\ calls[c] \in Call /\ calls[c] # None /\ Ends(c)
      /\ calls[c].phase = "stored"
         \/ (calls[c].phase = "replied" /\ calls[c].kind \notin Fetching)
      /\ UNCHANGED <<loaded, account, identity>>
  BY DEF Finish, At, brokerVars, Inv, CallInv, ShimType
<1>2. /\ r \in Answer /\ r.req.id = c
      /\ Good(c) => loaded /\ account \in SignIns /\ r.by = account
      /\ calls[c].kind \in Fetching /\ Good(c) => identity # None
  BY <1>1 DEF Inv, CallInv, CallsOwn, CallOwn
<1>3. c \notin Done
  BY <1>1 DEF Done, At
<1>4. PICK n \in Call : /\ calls' = [calls EXCEPT ![c] = n]
                        /\ n.kind = calls[c].kind /\ n.phase = "done"
  BY <1>1, EndedCall DEF Inv, CallInv
<1>5. /\ calls' \in [Requests -> Call \union {None}] /\ calls'[c] = n
      /\ \A d \in Requests \ {c} : calls'[d] = calls[d]
      /\ calls[c].kind \notin Silent => Done' = Done \union {c}
  BY <1>4, OneCall DEF Inv, CallInv
<1>6. CallOwn(c)'
  BY <1>4, <1>5 DEF CallOwn
<1>7. CallInv'
  BY <1>1, <1>5, <1>6, OtherCalls
     DEF Inv, CallInv, Finish, ShimType, Known, Paced, brokerVars
<1>8. BrokerInv'
  BY BrokerAlone DEF Inv, Finish
<1>9. CASE calls[c].kind \in Silent
  <2>1. Done' = Done
    BY <1>1, <1>9, Silenced DEF Inv, CallInv, CallsOwn, CallOwn
  <2> QED BY <1>1, <1>7, <1>8, <1>9, <2>1, Quietly DEF Inv, Finish
<1>10. CASE calls[c].kind \notin Silent
  <2>1. m \in Message
    BY <1>1, <1>2 DEF Message, Call, Answer, Request
  <2>2. m.id = c /\ m.from = c /\ m.kind = calls[c].kind /\ m.by = r.by /\ m.ok = ok
    BY <1>2
  <2>3. Push(m)
    BY <1>10 DEF Finish
  <2> HIDE DEF m
  <2>4. Kept' /\ QueueType'
    BY <1>3, <1>5, <1>10, <2>1, <2>2, <2>3, KeptByPush DEF Inv
  <2>5. MessageOwn(m)
    <3>1. m.ok => Good(c)
      BY <2>2
    <3> QED BY <1>2, <2>2, <3>1 DEF MessageOwn, Fetching
  <2>6. RingOwn'
    <3>1. \A i \in 0..Ring - 1 : ring'[i] = m \/ ring'[i] = ring[i]
      BY <2>3 DEF Push, Inv, QueueType
    <3> QED BY <1>1, <2>2, <2>5, <3>1 DEF Inv, RingOwn, MessageOwn
  <2> QED BY <1>7, <1>8, <2>4, <2>6 DEF Inv
<1> QED BY <1>9, <1>10

-----------------------------------------------------------------------------
(* The relay, and the theorems.                                            *)

\* The broker takes a step that leaves the shim's state alone, but for the
\* connections that wait.
LEMMA BrokerSteps ==
  ASSUME Inv, BrokerNext,
         UNCHANGED <<declared, identity, retryDue, fetcher, calls, queue, starts, asks>>,
         backlog' \in Seq(Request)
  PROVE  Inv'
<1>1. BrokerInv'
  BY BrokerStep DEF Inv
<1>2. loaded => loaded' /\ account' = account
  BY PinnedStays DEF Inv
<1>3. Done' = Done
  BY DEF Done, At
<1>4. CallsOwn'
  <2>1. ASSUME NEW c \in Requests, calls'[c] # None PROVE CallOwn(c)'
    <3>1. CallOwn(c) /\ calls'[c] = calls[c]
      BY <2>1 DEF Inv, CallInv, CallsOwn
    <3> QED BY <1>2, <3>1 DEF CallOwn, Good
  <2> QED BY <2>1 DEF CallsOwn
<1>5. Known'
  BY <1>2 DEF Inv, CallInv, Known
<1>6. CallInv'
  BY <1>4, <1>5 DEF Inv, CallInv, ShimType, Paced
<1> QED BY <1>1, <1>2, <1>3, <1>6, Quietly DEF Inv

\* A connection is served in its turn.
LEMMA Forwards == Inv /\ Forward => Inv'
<1> SUFFICES ASSUME Inv, Forward PROVE Inv'
  OBVIOUS
<1>1. Head(backlog) \in Request /\ backlog' \in Seq(Request)
  BY DEF Inv, CallInv, ShimType, Forward
<1>2. BrokerNext
  BY <1>1 DEF Forward, BrokerNext
<1> QED BY <1>1, <1>2, BrokerSteps DEF Forward

\* The reply goes to the call it answers, if that still waits.
LEMMA Delivers == Inv /\ Deliver => Inv'
<1> SUFFICES ASSUME Inv, Deliver PROVE Inv'
  OBVIOUS
<1>1. BrokerNext /\ answer # None /\ answer \in Answer
  BY DEF Deliver, BrokerNext, Take, Inv, BrokerInv, BrokerTypeOK
<1>2. CASE ~\E c \in Requests : Asker(c, answer)
  BY <1>1, <1>2, BrokerSteps DEF Deliver, Inv, CallInv, ShimType
<1>3. CASE \E c \in Requests : Asker(c, answer)
  <2> DEFINE c == CHOOSE d \in Requests : Asker(d, answer)
             n == [calls[c] EXCEPT !.phase = "replied", !.reply = answer]
  <2>1. c \in Requests /\ Asker(c, answer)
    BY <1>3
  <2>2. calls' = [calls EXCEPT ![c].phase = "replied", ![c].reply = answer]
    BY <1>3 DEF Deliver
  <2>3. /\ UNCHANGED <<loaded, account, identity, queue>>
    BY DEF Deliver, Take
  <2> HIDE DEF c
  <2>4. /\ calls[c] \in Call /\ calls[c] # None /\ calls[c].phase = "asked"
        /\ calls[c].kind # "local" /\ c = answer.req.id
    BY <2>1 DEF Asker, At, Inv, CallInv, ShimType, CallsOwn, CallOwn
  <2>5. n \in Call /\ n.phase = "replied" /\ n.reply = answer /\ n.kind = calls[c].kind
    BY <1>1, <2>4 DEF Call, Phases
  <2>6. calls' = [calls EXCEPT ![c] = n]
    BY <2>1, <2>2, <2>4 DEF Inv, CallInv, ShimType
  <2> HIDE DEF n
  <2>7. /\ calls' \in [Requests -> Call \union {None}] /\ calls'[c] = n
        /\ \A d \in Requests \ {c} : calls'[d] = calls[d]
        /\ Done' = Done \ {c}
    BY <2>1, <2>5, <2>6, OneCall DEF Inv, CallInv
  <2>8. Done' = Done
    BY <2>4, <2>7 DEF Done, At
  <2>9. calls'[c].reply.error = "none" =>
          /\ loaded' /\ account' \in SignIns
          /\ calls'[c].reply.by = account' /\ calls'[c].reply.app \in Valid
    BY <1>1, <2>3, <2>5, <2>7 DEF Inv, BrokerInv, Replied
  <2>10. CallsOwn'
    <3>1. ASSUME NEW d \in Requests, d = c PROVE CallOwn(d)'
      BY <1>1, <2>4, <2>5, <2>7, <2>9, <3>1 DEF CallOwn, Good
    <3>2. ASSUME NEW d \in Requests \ {c}, calls'[d] # None PROVE CallOwn(d)'
      BY <2>3, <2>7, <3>2 DEF Inv, CallInv, CallsOwn, CallOwn, Good
    <3> QED BY <3>1, <3>2 DEF CallsOwn
  <2>11. CallInv'
    BY <2>3, <2>7, <2>10 DEF Deliver, Inv, CallInv, ShimType, Known, Paced
  <2>12. BrokerInv'
    BY <1>1, BrokerStep DEF Inv
  <2> QED BY <2>3, <2>8, <2>11, <2>12, Quietly DEF Inv
<1> QED BY <1>2, <1>3

LEMMA BrokerActs == Inv /\ Broker => Inv'
<1> SUFFICES ASSUME Inv, Broker PROVE Inv'
  OBVIOUS
<1>1. BrokerNext
  BY DEF Broker, BrokerNext
<1> QED BY <1>1, BrokerSteps DEF Broker, shim, queue, Inv, CallInv, ShimType

LEMMA Invariant == Spec => []Inv
<1>1. Inv /\ [Next]_vars => Inv'
  <2> SUFFICES ASSUME Inv, [Next]_vars PROVE Inv'
    OBVIOUS
  <2>1. CASE UNCHANGED vars
    <3>1. Done' = Done /\ UNCHANGED <<loaded, account, identity, queue, brokerVars>>
      BY <2>1 DEF vars, shim, brokerVars, Done, At
    <3>2. BrokerInv' /\ CallInv'
      BY <2>1, BrokerAlone DEF vars, shim, brokerVars, Inv, CallInv, ShimType, CallsOwn,
         CallOwn, Good, Known, Paced
    <3> QED BY <3>1, <3>2, Quietly DEF Inv
  <2>2. CASE PopMessage \/ Elapse
    BY <2>2, Pops, Elapses
  <2>3. ASSUME NEW c \in Requests, NEW a \in Declares, Initialize(c, a) PROVE Inv'
    BY <2>3, Initializes
  <2>4. ASSUME NEW c \in Requests, NEW k \in Kinds, Start(c, k) PROVE Inv'
    BY <2>4, Starts
  <2>5. ASSUME NEW c \in Requests, "local" \in Kinds, Enqueue(c) PROVE Inv'
    BY <2>5, Enqueues
  <2>6. ASSUME NEW c \in Requests, Thread(c) PROVE Inv'
    BY <2>6, Locks, Connects, GivesUp, Stores, Finishes DEF Thread
  <2>7. CASE Forward \/ Deliver \/ Broker
    BY <2>7, Forwards, Delivers, BrokerActs
  <2> QED BY <2>1, <2>2, <2>3, <2>4, <2>5, <2>6, <2>7 DEF Next
<1> QED BY Initially, <1>1, PTL DEF Spec

\* The state of the broker, of the shim and of the relay keeps to its types.
THEOREM PlatformTyped == Spec => []TypeOK
<1>1. Inv => TypeOK
  BY DEF Inv, BrokerInv, QueueType, CallInv, ShimType, Paced, TypeOK
<1> QED BY <1>1, Invariant, PTL

\* Whatever the game declares and whoever signs in, the cached app token is
\* the pinned account's for the present app (PlatformBroker::handle).
THEOREM TokenCurrent == Spec => []TokenIsCurrent
<1>1. Inv => TokenIsCurrent
  BY BrokerPromises DEF Inv
<1> QED BY <1>1, Invariant, PTL

\* Every successful answer of the broker is for the account of the first
\* request and the app its request declared.
THEOREM AnswersPinned == Spec => []AnsweredForAccount
<1>1. Inv => AnsweredForAccount
  BY BrokerPromises DEF Inv
<1> QED BY <1>1, Invariant, PTL

\* Whichever asker gave up and whichever message the ring dropped, what the
\* game can still read is the reply to its own request, for one account.
THEOREM OwnMessages == Spec => []MessagesAreOwn
<1>1. Inv => MessagesAreOwn
  <2> SUFFICES ASSUME Inv PROVE MessagesAreOwn
    OBVIOUS
  <2>1. \A i \in Waiting : ring[i] # None /\ MessageOwn(ring[i])
    BY DEF Inv, Kept, RingOwn, Waiting
  <2> QED BY <2>1 DEF Inv, CallInv, Known, MessageOwn, MessagesAreOwn
<1> QED BY <1>1, Invariant, PTL

\* For a ring of any size, a finished request waits in it, was popped, or was
\* the oldest of a full ring, and only one of these.
THEOREM RepliedOnce == Spec => []EachRepliedOnce
<1>1. Inv => EachRepliedOnce
  BY DEF Inv, Kept, Done, Ids, EachRepliedOnce
<1> QED BY <1>1, Invariant, PTL

\* However many threads of getters wait for fetch_lock, one of them asks.
THEOREM PacedGetters == Spec => []GetterIsPaced
<1>1. Inv => GetterIsPaced
  BY DEF Inv, CallInv, Paced, GetterIsPaced
<1> QED BY <1>1, Invariant, PTL
=============================================================================
