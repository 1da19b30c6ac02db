------------------------------ MODULE Platform ------------------------------
(***************************************************************************)
(* The Platform calls of one game: the shim inside it                      *)
(* (compat/riftlift-platform-shim.c), the runtime's relay and the broker   *)
(* in the launcher (PlatformBroker).                                       *)
(*                                                                         *)
(* The shim makes one thread per asynchronous request; it connects to the  *)
(* relay, waits up to two minutes, and leaves its reply in a ring of       *)
(* messages the game pops.  Threads that ask for the identity hold         *)
(* fetch_lock meanwhile.  The relay serves one connection at a time and    *)
(* forwards its request through the pipe, so the requests of one game      *)
(* reach the broker in the order they connected, and one whose asker has   *)
(* given up is still carried out.                                          *)
(***************************************************************************)
EXTENDS PlatformBroker, Sequences

CONSTANTS
  Declares,    (* app ids the game initializes with                        *)
  Kinds,       (* the calls the game makes (all of AllKinds)               *)
  Ring,        (* slots of the ring of messages (64)                       *)
  MaxStarts    (* bound: times the game initializes, or 30 s pass          *)

VARIABLES
  declared,  (* declared_app: the app id the game initialized with         *)
  identity,  (* the identity the getters answer from                       *)
  retryDue,  (* identity_retry_at has come                                 *)
  fetcher,   (* the call that holds fetch_lock                             *)
  calls,     (* by request number: the call and how far it is              *)
  ring,      (* queue, queue_head, queue_tail                              *)
  head, tail,
  popped,    (* numbers of the messages the game has popped                *)
  dropped,   (* numbers of those a full ring gave up                       *)
  backlog,   (* connections the relay has not accepted                     *)
  starts,    (* initializations and waits so far (bound)                   *)
  asks       (* fetches by getters since the last of them (history)        *)

queue == <<ring, head, tail, popped, dropped>>
shim  == <<declared, identity, retryDue, fetcher, calls, queue, backlog, starts, asks>>
vars  == <<brokerVars, shim>>

Fetching == {"prefetch", "getter", "login", "user", "token"}
Silent   == {"prefetch", "getter", "is_entitled"}
AllKinds == Fetching \union Silent \union {"entitled", "proof", "org", "local"}

Op(k) == CASE k \in Fetching -> "credentials"
           [] k \in {"entitled", "is_entitled"} -> "entitlement"
           [] k = "proof" -> "user_proof"
           [] k = "org" -> "org_scoped_id"
           [] OTHER -> "none"

\* An identity is the user id Meta gives the account for one app.
Identity == [app: Valid, by: SignIns]
Phases   == {"called", "locked", "asked", "replied", "stored", "done"}
Call     == [kind: Kinds, user: Identity \union {None}, phase: Phases,
             reply: Answer \union {None}]
\* from: the request whose reply the message holds.
Message  == [id: Requests, kind: Kinds, ok: BOOLEAN, from: Requests,
             by: SignIns \union {None}]

ASSUME ShimAssumption ==
  /\ Kinds \subseteq AllKinds /\ Declares \subseteq Apps
  /\ Requests \subseteq Nat
  /\ Ring \in Nat \ {0, 1} /\ MaxStarts \in Nat
  /\ None \notin Identity \union Call \union Message

New(k, user) == [kind |-> k, user |-> user, phase |-> "called", reply |-> None]

Unused == {c \in Requests : calls[c] = None}
\* Request numbers are handed out in order (InterlockedIncrement64).
Fresh(c) == c \in Unused /\ \A d \in Unused : c <= d
At(c, phase) == calls[c] # None /\ calls[c].phase = phase
Moves(c, phase) == calls' = [calls EXCEPT ![c].phase = phase]
Ends(c) == calls' = [calls EXCEPT ![c] = [New(@.kind, None) EXCEPT !.phase = "done"]]

-----------------------------------------------------------------------------
(* The ring of messages.                                                   *)

\* Mutant: the index runs out of the ring.
Succ_Beyond(i) == i + 1

Succ(i) == (i + 1) % Ring

\* Mutant: the ring is never seen to be full.
Full_Never == FALSE

Full == Succ(tail) = head

\* The oldest message gives way.
Push(m) ==
  /\ ring' = [ring EXCEPT ![tail] = m]
  /\ tail' = Succ(tail)
  /\ head' = IF Full THEN Succ(head) ELSE head
  /\ dropped' = IF Full THEN dropped \union {ring[head].id} ELSE dropped
  /\ UNCHANGED popped

PopMessage ==
  /\ head # tail
  /\ popped' = popped \union {ring[head].id}
  /\ ring' = [ring EXCEPT ![head] = None]
  /\ head' = Succ(head)
  /\ UNCHANGED <<tail, dropped, declared, identity, retryDue, fetcher, calls,
                 backlog, starts, asks, brokerVars>>

-----------------------------------------------------------------------------
(* The game's calls.                                                       *)

\* The initializers: the app id is recorded and the identity is fetched, if
\* there is none, on a thread of its own.
Initialize(c, a) ==
  /\ Fresh(c) /\ "prefetch" \in Kinds /\ starts < MaxStarts
  /\ declared' = a /\ retryDue' = TRUE
  /\ calls' = [calls EXCEPT ![c] = [New("prefetch", None) EXCEPT !.phase =
                                     IF identity = None THEN "called" ELSE "done"]]
  /\ starts' = starts + 1 /\ asks' = 0
  /\ UNCHANGED <<identity, fetcher, queue, backlog, brokerVars>>

\* ovr_User_Get asks about the user the game was told it is; the getter
\* asks only when there is no identity.
MayCall(k) == CASE k = "user"     -> identity # None
                [] k = "getter"   -> identity = None
                [] OTHER          -> k \notin {"local", "prefetch"}

Start(c, k) ==
  /\ Fresh(c) /\ MayCall(k)
  /\ calls' = [calls EXCEPT ![c] = New(k, IF k = "user" THEN identity ELSE None)]
  /\ UNCHANGED <<declared, identity, retryDue, fetcher, queue, backlog, starts,
                 asks, brokerVars>>

\* Requests the shim answers itself.
Enqueue(c) ==
  /\ Fresh(c)
  /\ calls' = [calls EXCEPT ![c] = [New("local", None) EXCEPT !.phase = "done"]]
  /\ Push([id |-> c, kind |-> "local", ok |-> TRUE, from |-> c, by |-> None])
  /\ UNCHANGED <<declared, identity, retryDue, fetcher, backlog, starts, asks,
                 brokerVars>>

-----------------------------------------------------------------------------
(* The thread of a call.                                                   *)

\* Mutant: a getter that waited for another's fetch asks again.
MayFetch_Again == identity = None

\* Looked at again with fetch_lock held.
MayFetch == identity = None /\ retryDue

Lock(c) ==
  /\ At(c, "called") /\ calls[c].kind \in Fetching /\ fetcher = None
  /\ IF calls[c].kind = "getter" /\ ~MayFetch
     THEN Ends(c) /\ UNCHANGED <<fetcher, asks>>
     ELSE /\ Moves(c, "locked") /\ fetcher' = c
          /\ asks' = IF calls[c].kind = "getter" THEN asks + 1 ELSE asks
  /\ UNCHANGED <<declared, identity, retryDue, queue, backlog, starts, brokerVars>>

Connect(c) ==
  /\ At(c, "locked") \/ (At(c, "called") /\ calls[c].kind \notin Fetching)
  /\ \E named \in BOOLEAN :
       /\ named => calls[c].kind = "org"
       /\ backlog' = Append(backlog, [id |-> c, op |-> Op(calls[c].kind),
                                      app |-> declared, named |-> named])
  /\ Moves(c, "asked")
  /\ UNCHANGED <<declared, identity, retryDue, fetcher, queue, starts, asks,
                 brokerVars>>

\* No answer in two minutes, or no relay or launcher to give one.
GiveUp(c) ==
  /\ At(c, "asked")
  /\ calls' = [calls EXCEPT ![c].phase = "replied",
                 ![c].reply = Failure([id |-> c, op |-> Op(calls[c].kind),
                                       app |-> None, named |-> FALSE], "unavailable")]
  /\ UNCHANGED <<declared, identity, retryDue, fetcher, queue, backlog, starts,
                 asks, brokerVars>>

Good(c) == calls[c].reply.error = "none"
Given(c) == [app |-> calls[c].reply.app, by |-> calls[c].reply.by]

\* load_identity_locked, from the reply to the release of fetch_lock.
Store(c) ==
  /\ At(c, "replied") /\ calls[c].kind \in Fetching
  /\ identity' = IF Good(c) THEN Given(c) ELSE identity
  /\ retryDue' = (retryDue /\ Good(c))
  /\ fetcher' = None
  /\ IF calls[c].kind \in Silent THEN Ends(c) ELSE Moves(c, "stored")
  /\ UNCHANGED <<declared, queue, backlog, starts, asks, brokerVars>>

\* run_job, from the answer to the message.
Finish(c) ==
  /\ \/ At(c, "stored")
     \/ At(c, "replied") /\ calls[c].kind \notin Fetching
  /\ LET r == calls[c].reply
         ok == Good(c) /\ (calls[c].kind = "user" => identity = calls[c].user)
     IN  IF calls[c].kind \in Silent THEN UNCHANGED queue
         ELSE Push([id |-> c, kind |-> calls[c].kind, ok |-> ok,
                    from |-> r.req.id, by |-> r.by])
  /\ Ends(c)
  /\ UNCHANGED <<declared, identity, retryDue, fetcher, backlog, starts, asks,
                 brokerVars>>

\* 30 s pass.
Elapse ==
  /\ ~retryDue /\ starts < MaxStarts
  /\ retryDue' = TRUE /\ starts' = starts + 1 /\ asks' = 0
  /\ UNCHANGED <<declared, identity, fetcher, calls, queue, backlog, brokerVars>>

-----------------------------------------------------------------------------
(* The relay, and the broker behind it.                                    *)

Forward ==
  /\ backlog # <<>>
  /\ Serve(Head(backlog))
  /\ backlog' = Tail(backlog)
  /\ UNCHANGED <<declared, identity, retryDue, fetcher, calls, queue,
                 starts, asks>>

\* Mutant: the reply goes to whoever waits.
Asker_Any(c, a) == At(c, "asked")

Asker(c, a) == At(c, "asked") /\ c = a.req.id

\* The connection of a call that has given up is closed.
Deliver ==
  /\ Take
  /\ IF \E c \in Requests : Asker(c, answer)
     THEN LET c == CHOOSE d \in Requests : Asker(d, answer)
          IN  calls' = [calls EXCEPT ![c].phase = "replied", ![c].reply = answer]
     ELSE UNCHANGED calls
  /\ UNCHANGED <<declared, identity, retryDue, fetcher, queue, backlog, starts, asks>>

Broker == Meta /\ UNCHANGED shim

Thread(c) == Lock(c) \/ Connect(c) \/ GiveUp(c) \/ Store(c) \/ Finish(c)

Init ==
  /\ BrokerInit
  /\ declared = None /\ identity = None /\ retryDue = TRUE /\ fetcher = None
  /\ calls = [c \in Requests |-> None]
  /\ ring = [i \in 0..Ring - 1 |-> None] /\ head = 0 /\ tail = 0
  /\ popped = {} /\ dropped = {} /\ backlog = <<>> /\ starts = 0 /\ asks = 0

Next ==
  \/ PopMessage \/ Elapse
  \/ \E c \in Requests :
       \/ \E a \in Declares : Initialize(c, a)
       \/ \E k \in Kinds : Start(c, k)
       \/ "local" \in Kinds /\ Enqueue(c)
       \/ Thread(c)
  \/ Forward \/ Deliver \/ Broker

Spec == Init /\ [][Next]_vars

-----------------------------------------------------------------------------
TypeOK ==
  /\ BrokerTypeOK
  /\ declared \in Apps \union {None} /\ identity \in Identity \union {None}
  /\ retryDue \in BOOLEAN /\ fetcher \in Requests \union {None}
  /\ calls \in [Requests -> Call \union {None}]
  /\ ring \in [0..Ring - 1 -> Message \union {None}]
  /\ head \in 0..Ring - 1 /\ tail \in 0..Ring - 1
  /\ popped \subseteq Requests /\ dropped \subseteq Requests
  /\ backlog \in Seq(Request)
  /\ starts \in 0..MaxStarts /\ asks \in Nat

Waiting == {i \in 0..Ring - 1 : (i + Ring - head) % Ring < (tail + Ring - head) % Ring}

(* What the game reads was meant for it: a waiting message answers its own *)
(* request, for one sign-in throughout the game, and so does the identity  *)
(* that the user a reply announces is read from, which is there by then.   *)
MessagesAreOwn ==
  /\ \A i \in Waiting :
       /\ ring[i] # None /\ ring[i].from = ring[i].id
       /\ ring[i].ok /\ ring[i].kind # "local" => ring[i].by = account
  /\ identity # None => identity.by = account
  /\ \A i \in Waiting : ring[i].ok /\ ring[i].kind \in {"login", "user"}
                          => identity # None

(* Every finished request is either waiting in the ring, popped, or was    *)
(* the oldest of a full ring: none is lost and none is given twice.        *)
EachRepliedOnce ==
  LET waiting == {ring[i].id : i \in Waiting}
  IN  /\ {c \in Requests : At(c, "done") /\ calls[c].kind \notin Silent}
           = waiting \union popped \union dropped
      /\ waiting \intersect popped = {} /\ dropped \intersect (waiting \union popped) = {}

(* Games poll the getter: however many of its calls wait for one fetch,    *)
(* Meta is asked at most once in 30 s.                                     *)
GetterIsPaced == asks <= 1
=============================================================================
