--------------------------- MODULE PlatformBroker ---------------------------
(***************************************************************************)
(* meta::PlatformBroker: the launcher's side of the Oculus Platform calls  *)
(* of one running game.  handle() answers one request at a time, under its *)
(* mutex; it reads the account's sign-in from the vault, exchanges it for  *)
(* a token of the game's app and asks Meta.  Other windows may sign the    *)
(* account out and in again, which gives it a new token, at any time.      *)
(*                                                                         *)
(* A token of the account is a sign-in; an app token is the pair of the    *)
(* app and the sign-in it was exchanged for.  Requests are numbered.       *)
(***************************************************************************)
EXTENDS Naturals

CONSTANTS
  Requests,    (* numbers of the requests                                  *)
  Apps,        (* app ids a game may declare                               *)
  Valid,       (* those of 5 to 20 digits                                  *)
  LaunchApp,   (* the app id of the game's record, None for a local game   *)
  SignIns,     (* tokens the account is given, one per sign-in             *)
  Attempts,    (* times a read is sent (five)                              *)
  None         (* no token, no app, no request                             *)

ASSUME BrokerAssumption ==
  /\ Valid \subseteq Apps /\ LaunchApp \in Apps \union {None}
  /\ None \notin Requests \union Apps \union SignIns
  /\ Attempts \in Nat \ {0}

VARIABLES
  loaded,    (* loaded_: the account was read once                         *)
  account,   (* account_: as at the first request                          *)
  app,       (* app_id_                                                    *)
  token,     (* app_token_                                                 *)
  refusal,   (* identity_error_: a lasting refusal                         *)
  serving,   (* the request in handle(), and how far it is                 *)
  answer     (* its reply, until the relay takes it                        *)

brokerVars == <<loaded, account, app, token, refusal, serving, answer>>

Ops      == {"credentials", "entitlement", "user_proof", "org_scoped_id"}
Errors   == {"none", "unauthenticated", "not_entitled", "unavailable",
             "invalid_response", "identity_mismatch", "invalid_argument"}
Stages   == {"exchange", "me", "library", "builds", "user_proof",
             "org_scoped_id"}
\* What a request to Meta comes to.  "denied" is a 401, 403 or code 190;
\* "busy" a 429, a 5xx or no reply; "garbled" a reply that is not as it
\* should be; "other" a well-formed one that says no: an id or a nonce that
\* is none, an app the library leaves out, a build that is not listed.
Outcomes == {"ok", "denied", "busy", "garbled", "other"}

\* named: whether the request says which user it is about.
Request == [id: Requests, op: Ops, app: Apps \union {None}, named: BOOLEAN]
Token   == [app: Valid, by: SignIns]
Serving == [req: Request, by: SignIns, stage: Stages, tries: Nat]
Answer  == [req: Request, error: Errors, app: Apps \union {None},
            by: SignIns \union {None}]

Reads == Stages \ {"user_proof"}

Classified(o) ==
  CASE o = "denied" -> "unauthenticated"
    [] o = "busy"   -> "unavailable"
    [] OTHER        -> "invalid_response"

-----------------------------------------------------------------------------
BrokerInit ==
  /\ loaded = FALSE /\ account = None
  /\ app = LaunchApp
  /\ token = None /\ refusal = "none"
  /\ serving = None /\ answer = None

Failure(r, error) == [req |-> r, error |-> error, app |-> None, by |-> None]

\* Credentials are the cached token's; other answers are asked with it, or,
\* entitlements, with the account's own.
Success(r, a, s) == [req |-> r, error |-> "none", app |-> a, by |-> s]

Reply(a) == answer' = a /\ serving' = None

Ask(r, s, stage) ==
  serving' = [req |-> r, by |-> s, stage |-> stage, tries |-> 0]
  /\ UNCHANGED answer

\* Mutant: the token of the previous app is kept.
Declare_KeepsToken(r) ==
  /\ app' = IF r.app = None THEN app ELSE r.app
  /\ UNCHANGED token
  /\ refusal' = IF app' = app THEN refusal ELSE "none"

\* The game declared its own app id, and Meta's answers are for that id.
Declare(r) ==
  /\ app' = IF r.app = None THEN app ELSE r.app
  /\ token' = IF app' = app THEN token ELSE None
  /\ refusal' = IF app' = app THEN refusal ELSE "none"

\* Mutant: the vault's present sign-in is used, whoever the first was.
Pinned_Latest(current) == current

\* The account the game started with must still be the one signed in.
Pinned(current) == IF loaded THEN account ELSE current

\* What a request comes to once there is an app token t: credentials are the
\* token itself, the others ask Meta with it.
Query(r, s, t) ==
  IF r.op = "credentials" THEN Reply(Success(r, t.app, t.by))
  ELSE IF r.op = "org_scoped_id" /\ ~r.named
       THEN Reply(Failure(r, "invalid_argument"))
  ELSE Ask(r, s, r.op)

\* handle() from the op to its first request to Meta, once the sign-in s is
\* known to be the pinned one and still there.
Begin(r, s) ==
  IF r.op = "entitlement"
  THEN IF app' \in Valid THEN Ask(r, s, "library")
       ELSE Reply(Failure(r, "identity_mismatch"))
  ELSE IF token' # None THEN Query(r, s, token')
  ELSE IF refusal' # "none" THEN Reply(Failure(r, refusal'))
  ELSE IF app' \notin Valid THEN Reply(Failure(r, "identity_mismatch"))
  ELSE Ask(r, s, "exchange")

\* A request with an app id that is none changes nothing.
Misdeclared(r) ==
  /\ serving = None /\ answer = None
  /\ r.app # None /\ r.app \notin Valid
  /\ Reply(Failure(r, "invalid_argument"))
  /\ UNCHANGED <<loaded, account, app, token, refusal>>

\* The vault cannot be read now.
Unreadable(r) ==
  /\ serving = None /\ answer = None
  /\ r.app = None \/ r.app \in Valid
  /\ Declare(r)
  /\ Reply(Failure(r, "unavailable"))
  /\ UNCHANGED <<loaded, account>>

\* current is what the vault holds for the account: windows and other
\* processes sign it out, and in again, at any time.
Handle(r, current) ==
  /\ serving = None /\ answer = None
  /\ r.app = None \/ r.app \in Valid
  /\ Declare(r)
  /\ loaded' = TRUE /\ account' = Pinned(current)
  /\ IF account' = None THEN Reply(Failure(r, "unauthenticated"))
     ELSE IF current # account' THEN Reply(Failure(r, "identity_mismatch"))
     ELSE Begin(r, account')

Serve(r) ==
  \/ Misdeclared(r)
  \/ Unreadable(r)
  \/ \E current \in SignIns \union {None} : Handle(r, current)

-----------------------------------------------------------------------------
(* Requests to Meta.                                                       *)

\* Nonces are single use: a write, so never retried.
Retryable(s) == s.stage \in Reads

Retries(s, o) == o = "busy" /\ Retryable(s) /\ s.tries + 1 < Attempts

Send(o) ==
  /\ serving # None
  /\ Retries(serving, o)
  /\ serving' = [serving EXCEPT !.tries = @ + 1]
  /\ UNCHANGED <<loaded, account, app, token, refusal, answer>>

\* authenticate(): the app token is kept with the user's id, once Meta has
\* given both.  Refusals by Meta, and an id that is none, are remembered.
Authenticated(s, o) ==
  /\ s.stage \in {"exchange", "me"}
  /\ CASE o = "ok" /\ s.stage = "exchange" ->
            /\ Ask(s.req, s.by, "me")
            /\ UNCHANGED <<token, refusal>>
       [] o = "ok" /\ s.stage = "me" ->
            /\ token' = [app |-> app, by |-> s.by]
            /\ Query(s.req, s.by, token')
            /\ UNCHANGED refusal
       [] o # "ok" ->
            /\ Reply(Failure(s.req, Classified(o)))
            /\ refusal' = IF o = "denied" \/ (o = "other" /\ s.stage = "me")
                          THEN Classified(o) ELSE refusal
            /\ UNCHANGED token

\* entitlement(): live, from the library and then the build listing, because
\* the library leaves out cross-buy purchases.
Entitlement(s, o) ==
  /\ s.stage \in {"library", "builds"}
  /\ CASE o = "ok" -> Reply(Success(s.req, app, s.by))
       [] o = "other" /\ s.stage = "library" -> Ask(s.req, s.by, "builds")
       [] o = "other" /\ s.stage = "builds" -> Reply(Failure(s.req, "not_entitled"))
       [] OTHER -> Reply(Failure(s.req, Classified(o)))
  /\ UNCHANGED <<token, refusal>>

\* An expired app token is exchanged again on the next request.
Expired(o) == token' = IF o = "denied" THEN None ELSE token

Asked(s, o) ==
  /\ s.stage \in {"user_proof", "org_scoped_id"}
  /\ Reply(IF o = "ok" THEN Success(s.req, token.app, token.by)
           ELSE Failure(s.req, Classified(o)))
  /\ Expired(o)
  /\ UNCHANGED refusal

Receive(o) ==
  /\ serving # None
  /\ ~Retries(serving, o)
  /\ \/ Authenticated(serving, o)
     \/ Entitlement(serving, o)
     \/ Asked(serving, o)
  /\ UNCHANGED <<loaded, account, app>>

Meta == \E o \in Outcomes : Send(o) \/ Receive(o)

Take == answer # None /\ answer' = None
        /\ UNCHANGED <<loaded, account, app, token, refusal, serving>>

BrokerNext ==
  \/ \E r \in Request : Serve(r)
  \/ Meta
  \/ Take

BrokerSpec == BrokerInit /\ [][BrokerNext]_brokerVars

-----------------------------------------------------------------------------
BrokerTypeOK ==
  /\ loaded \in BOOLEAN /\ account \in SignIns \union {None}
  /\ app \in Apps \union {None}
  /\ token \in Token \union {None}
  /\ refusal \in Errors
  /\ serving \in Serving \union {None}
  /\ answer \in Answer \union {None}

(* The app token is for the app the game declared last and the sign-in the *)
(* first request found: neither another declaration nor another sign-in,   *)
(* made between two requests or while Meta is asked, leaves an old one.    *)
TokenIsCurrent ==
  token # None => loaded /\ token.by = account /\ token.app = app

(* Every successful answer is for one sign-in, the first that was read,    *)
(* and for the app the request declared, whatever happens in between.      *)
AnsweredForAccount ==
  answer # None /\ answer.error = "none" =>
    /\ loaded /\ account # None /\ answer.by = account
    /\ answer.req.app # None => answer.app = answer.req.app
=============================================================================
