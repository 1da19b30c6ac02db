---------------------------- MODULE AccountVault ----------------------------
(***************************************************************************)
(* meta::AccountVault: the index of signed-in Meta accounts                *)
(* (accounts/index.json), the secrets of their slots, and the repairs      *)
(* between the two.  Every operation holds the vault's file lock from its  *)
(* first read to its last write, so one operation runs at a time; but each *)
(* is a sequence of writes to different files and to the desktop keyring,  *)
(* and an exception or the end of the process may cut it at any of them.   *)
(* The keyring may also stop answering, and answer again, at any time.     *)
(*                                                                         *)
(* A slot's secret is in the keyring (SecretStore's first choice) or in a  *)
(* sealed file beside the slot's marker file.  Legacy is the one slot of   *)
(* the first version, which migrate_v1 moves into the index.  The token of *)
(* a session is the number of the operation that brought it, 0 for a       *)
(* session of the first version.                                           *)
(***************************************************************************)
EXTENDS Naturals, FiniteSets

CONSTANTS
  Metas,      (* Meta account ids                                          *)
  Keys,       (* the random keys that name slots                           *)
  Limit,      (* signed-in accounts at one time (four)                     *)
  Legacy,     (* the slot of the first version                             *)
  None,       (* no row, no secret, no key                                 *)
  MaxOps,     (* bound: operations on the vault                            *)
  MaxOutages  (* bound: times the keyring stops or starts to answer        *)

Slots  == Keys \union {Legacy}
Secret == [account: Metas, token: 0..MaxOps]
Row    == [account: Metas, signedIn: BOOLEAN, needsReauth: BOOLEAN]
Index  == [rows: [Keys -> Row \union {None}], primary: Keys \union {None},
           active: Keys \union {None}]

ASSUME VaultAssumption ==
  /\ Legacy \notin Keys
  /\ None \notin Slots /\ None \notin Row /\ None \notin Secret
  /\ IsFiniteSet(Keys)
  /\ Limit \in Nat /\ MaxOps \in Nat /\ MaxOutages \in Nat

VARIABLES
  index,     (* accounts/index.json                                        *)
  keyring,   (* the secrets of the desktop keyring, by slot                *)
  sealed,    (* the secrets in sealed files, by slot                       *)
  marker,    (* slots with a session.dpapi                                 *)
  folder,    (* slots with a folder under accounts/                        *)
  answers,   (* whether the keyring answers                                *)
  op,        (* the operation that holds the lock                          *)
  at,        (* its next step, "idle" when nothing holds the lock          *)
  slot,      (* the slot it works on                                       *)
  session,   (* the session it stores or compares                          *)
  work,      (* its copy of the index                                      *)
  visits,    (* the folders its directory_iterator has yet to reach        *)
  granted,   (* tokens a signed-in account may be found with (history)     *)
  forgotten, (* accounts removed and not signed in since (history)         *)
  outages,   (* changes of answers so far (bound)                          *)
  ops        (* operations so far (bound)                                  *)

disk    == <<keyring, sealed, marker, folder>>
task    == <<op, at, slot, session, work, visits>>
history == <<granted, forgotten>>
env     == <<answers, outages>>
vars    == <<index, disk, task, history, env, ops>>

Operations == {"none", "upsert", "reconcile", "migrate", "sign_out", "remove",
               "profile"}
Steps == {"idle", "visit", "assign", "save", "unseal", "mark", "check",
          "verify", "recheck", "clear", "clear_sealed", "unmark", "write"}

-----------------------------------------------------------------------------
(* The index and the secrets.                                              *)

Listed(i)   == {k \in Keys : i.rows[k] # None}
SignedIn(i) == {k \in Listed(i) : i.rows[k].signedIn}
Usable(i)   == {k \in SignedIn(i) : ~i.rows[k].needsReauth}
KeysOf(i, a) == {k \in Listed(i) : i.rows[k].account = a}

\* What read_index refuses to return.
Readable(i) ==
  /\ \A k, l \in Listed(i) : i.rows[k].account = i.rows[l].account => k = l
  /\ {i.primary, i.active} \subseteq Listed(i) \union {None}

\* The keyring first, the sealed file when it has nothing or does not answer.
Load(s) == IF answers /\ keyring[s] # None THEN keyring[s] ELSE sealed[s]

\* A row that counts as signed in but has no marker needs a new sign-in.
Marked(i) ==
  [i EXCEPT !.rows =
     [k \in Keys |-> IF k \in SignedIn(i) /\ k \notin marker
                     THEN [i.rows[k] EXCEPT !.needsReauth = TRUE]
                     ELSE i.rows[k]]]

Fresh(a) == [account |-> a, signedIn |-> TRUE, needsReauth |-> FALSE]

\* An orphan joins the index; it is selected if nothing else is.
Adopted(i, k, a) ==
  [rows    |-> [i.rows EXCEPT ![k] = Fresh(a)],
   primary |-> IF i.primary = None THEN k ELSE i.primary,
   active  |-> IF i.active = None THEN k ELSE i.active]

\* A sign-in is entered under its key and becomes the active account.
Entered(i, k, a) == [Adopted(i, k, a) EXCEPT !.active = k]

\* A slot that already held the account counts as signed in again.
Restored(i, k) == [i EXCEPT !.rows[k] = Fresh(@.account)]

SignedOutOf(i, k) ==
  [i EXCEPT !.rows[k] = [@ EXCEPT !.signedIn = FALSE, !.needsReauth = TRUE],
            !.active = IF @ = k THEN None ELSE @]

\* Mutant: the primary account is not passed on.
RemovedFrom_KeepsPrimary(i, k, heir) ==
  [i EXCEPT !.rows[k] = None, !.active = IF @ = k THEN None ELSE @]

\* The primary account passes to the first row left, which here is any.
RemovedFrom(i, k, heir) ==
  [rows    |-> [i.rows EXCEPT ![k] = None],
   primary |-> IF i.primary = k THEN heir ELSE i.primary,
   active  |-> IF i.active = k THEN None ELSE i.active]

Heirs(i, k) == IF Listed(i) = {k} THEN {None} ELSE Listed(i) \ {k}

-----------------------------------------------------------------------------
EmptyIndex == [rows |-> [k \in Keys |-> None], primary |-> None, active |-> None]

Old(a) == [account |-> a, token |-> 0]

\* A first start: nothing, or the session of the first version, which is
\* where its SecretStore put it.
Init ==
  /\ index = EmptyIndex
  /\ answers \in BOOLEAN
  /\ \E old \in {None} \union {Old(a) : a \in Metas} :
       LET store == [s \in Slots |-> IF s = Legacy THEN old ELSE None]
           empty == [s \in Slots |-> None]
       IN  /\ keyring = IF answers THEN store ELSE empty
           /\ sealed = IF answers THEN empty ELSE store
  /\ marker = {} /\ folder = {}
  /\ op = "none" /\ at = "idle" /\ slot = None /\ session = None
  /\ work = EmptyIndex /\ visits = {}
  /\ granted = [a \in Metas |-> {}] /\ forgotten = {}
  /\ outages = 0 /\ ops = 0

\* The lock is taken and the index read; an unreadable one throws.
Begin(o, step, k, s) ==
  /\ at = "idle" /\ ops < MaxOps /\ Readable(index)
  /\ ops' = ops + 1
  /\ op' = o /\ at' = step /\ slot' = k /\ session' = s
  /\ UNCHANGED <<index, disk, env>>

\* reconcile_locked starts: rows without a marker are marked in the copy,
\* then the folders are visited.
BeginReconciling(o, s) ==
  /\ Begin(o, "visit", None, s)
  /\ work' = Marked(index) /\ visits' = folder

BeginOn(o, step, k, s) ==
  /\ Begin(o, step, k, s)
  /\ work' = index /\ visits' = {}

\* The operation is over: it returned, threw, or the process died.
Release ==
  /\ op' = "none" /\ at' = "idle" /\ slot' = None /\ session' = None
  /\ work' = EmptyIndex /\ visits' = {}

GoTo(step) == at' = step /\ UNCHANGED <<op, slot, session, work, visits>>

-----------------------------------------------------------------------------
(* The operations.                                                         *)

Upsert(a) ==
  /\ BeginReconciling("upsert", [account |-> a, token |-> ops + 1])
  /\ granted' = [granted EXCEPT ![a] = IF @ = {} THEN {} ELSE @ \union {ops + 1}]
  /\ forgotten' = forgotten \ {a}

Reconcile == BeginReconciling("reconcile", None) /\ UNCHANGED history

\* A session of the first version counts as a sign-in of its account.
Migrate ==
  /\ Load(Legacy) # None
  /\ BeginReconciling("migrate", Load(Legacy))
  /\ forgotten' = forgotten \ {Load(Legacy).account}
  /\ UNCHANGED granted

SignOut(k) ==
  /\ k \in Listed(index)
  /\ BeginOn("sign_out", "clear", k, None)
  /\ granted' = [granted EXCEPT ![index.rows[k].account] = {}]
  /\ UNCHANGED forgotten

Remove(k) ==
  /\ k \in Listed(index)
  /\ BeginOn("remove", "clear", k, None)
  /\ granted' = [granted EXCEPT ![index.rows[k].account] = {}]
  /\ UNCHANGED forgotten

\* A name learned later is stored with the session.
UpdateProfile(k) ==
  /\ k \in Usable(index)
  /\ Load(k) # None /\ Load(k).account = index.rows[k].account
  /\ BeginOn("profile", "save", k, Load(k))
  /\ UNCHANGED history

\* The choices are one write of the index.
Choose(i) ==
  /\ at = "idle" /\ ops < MaxOps /\ Readable(index)
  /\ index' = i /\ ops' = ops + 1
  /\ UNCHANGED <<disk, task, history, env>>
SetActive(k)  == k \in Usable(index) /\ Choose([index EXCEPT !.active = k])
SetPrimary(k) == k \in Listed(index) /\ Choose([index EXCEPT !.primary = k])

-----------------------------------------------------------------------------
(* reconcile_locked.                                                       *)

\* A folder without a row whose secret can be read, of an account without a
\* row, while fewer than Limit accounts are signed in.
Adoptable(k) ==
  /\ k \notin Listed(work)
  /\ Load(k) # None /\ KeysOf(work, Load(k).account) = {}
  /\ Cardinality(SignedIn(work)) < Limit

Visit(k) ==
  /\ at = "visit" /\ k \in visits
  /\ visits' = visits \ {k}
  /\ work' = IF Adoptable(k) THEN Adopted(work, k, Load(k).account) ELSE work
  /\ UNCHANGED <<index, disk, op, at, slot, session, history, env, ops>>

\* Mutant: what the slot already holds is overwritten.
Held_Ignored(k) == FALSE

\* migrate_v1 keeps what a marked slot of the account already holds.
Held(k) == k \in KeysOf(work, session.account) /\ k \in marker

\* The repaired index is written, and the operation goes on.
Reconciled ==
  /\ at = "visit" /\ visits = {}
  /\ index' = work
  /\ IF op = "reconcile" THEN Release
     ELSE GoTo(IF op = "migrate" /\ \E k \in Keys : Held(k) THEN "verify"
               ELSE "assign")
  /\ UNCHANGED <<disk, history, env, ops>>

-----------------------------------------------------------------------------
(* upsert_locked.  The secret is stored first and the index written last.  *)

\* The account's own slot, or one that nothing has used.
SlotFor(k) ==
  \/ k \in KeysOf(work, session.account)
  \/ KeysOf(work, session.account) = {} /\ k \notin Listed(work) /\ k \notin folder

\* Mutant: an account that is listed is not counted again.
HasRoom_IfListed ==
  \/ KeysOf(work, session.account) # {}
  \/ Cardinality(SignedIn(work)) < Limit

\* Room for one more; an account that is signed in already needs none.
HasRoom ==
  \/ KeysOf(work, session.account) \intersect SignedIn(work) # {}
  \/ Cardinality(SignedIn(work)) < Limit

Assign(k) ==
  /\ at = "assign" /\ HasRoom /\ SlotFor(k)
  /\ slot' = k /\ at' = "save"
  /\ UNCHANGED <<index, disk, op, session, work, visits, history, env, ops>>

\* SecretStore::save: the keyring, else a sealed file; then the marker.
SaveInKeyring ==
  /\ at = "save" /\ answers
  /\ keyring' = [keyring EXCEPT ![slot] = session]
  /\ GoTo("unseal")
  /\ UNCHANGED <<index, sealed, marker, folder, history, env, ops>>

SaveSealed ==
  /\ at = "save" /\ ~answers
  /\ sealed' = [sealed EXCEPT ![slot] = session]
  /\ folder' = folder \union {slot}
  /\ GoTo("mark")
  /\ UNCHANGED <<index, keyring, marker, history, env, ops>>

Unseal ==
  /\ at = "unseal"
  /\ sealed' = [sealed EXCEPT ![slot] = None]
  /\ GoTo("mark")
  /\ UNCHANGED <<index, keyring, marker, folder, history, env, ops>>

\* Mutant: the marker's directory is taken for granted.
Mark_NoFolder ==
  /\ at = "mark"
  /\ marker' = marker \union {slot}
  /\ IF op = "profile" THEN Release ELSE GoTo("check")
  /\ UNCHANGED <<index, keyring, sealed, folder, history, env, ops>>

Mark ==
  /\ at = "mark"
  /\ marker' = marker \union {slot} /\ folder' = folder \union {slot}
  /\ IF op = "profile" THEN Release ELSE GoTo("check")
  /\ UNCHANGED <<index, keyring, sealed, history, env, ops>>

\* What was stored is read back, and the account entered in the index.
Enter ==
  /\ at = "check" /\ Load(slot) = session
  /\ index' = Entered(work, slot, session.account)
  /\ granted' = [granted EXCEPT ![session.account] = {session.token}]
  /\ IF op = "upsert" THEN Release ELSE GoTo("recheck")
  /\ UNCHANGED <<disk, forgotten, env, ops>>

-----------------------------------------------------------------------------
(* migrate_v1 after the reconciliation.                                    *)

\* Mutant: the marker is taken for a session.
Verify_ByMarker(k) ==
  /\ at = "verify" /\ Held(k)
  /\ index' = Restored(work, k)
  /\ slot' = k /\ session' = Load(k) /\ at' = "recheck"
  /\ UNCHANGED <<disk, op, work, visits, history, env, ops>>

\* The account's slot is kept as it is, and counts as signed in.
Verify(k) ==
  /\ at = "verify" /\ Held(k)
  /\ Load(k) # None /\ Load(k).account = session.account
  /\ index' = Restored(work, k)
  /\ slot' = k /\ session' = Load(k) /\ at' = "recheck"
  /\ UNCHANGED <<disk, op, work, visits, history, env, ops>>

\* Index and slot are read again before the old session is cleared.
Recheck ==
  /\ at = "recheck"
  /\ Readable(index) /\ slot \in Listed(index) /\ Load(slot) = session
  /\ slot' = Legacy /\ at' = "clear"
  /\ UNCHANGED <<index, disk, op, session, work, visits, history, env, ops>>

-----------------------------------------------------------------------------
(* SecretStore::clear, and the write of the index that follows it.         *)

\* Mutant: only the files of a slot are cleared.
ClearKeyring_FilesOnly ==
  /\ at = "clear"
  /\ GoTo("clear_sealed")
  /\ UNCHANGED <<index, disk, history, env, ops>>

\* A keyring that does not answer keeps its secret: clear goes on.
ClearKeyring ==
  /\ at = "clear"
  /\ keyring' = IF answers THEN [keyring EXCEPT ![slot] = None] ELSE keyring
  /\ GoTo("clear_sealed")
  /\ UNCHANGED <<index, sealed, marker, folder, history, env, ops>>

ClearSealed ==
  /\ at = "clear_sealed"
  /\ sealed' = [sealed EXCEPT ![slot] = None]
  /\ IF op = "migrate" THEN Release ELSE GoTo("unmark")
  /\ UNCHANGED <<index, keyring, marker, folder, history, env, ops>>

Unmark ==
  /\ at = "unmark"
  /\ marker' = marker \ {slot}
  /\ GoTo("write")
  /\ UNCHANGED <<index, keyring, sealed, folder, history, env, ops>>

WriteSignedOut ==
  /\ at = "write" /\ op = "sign_out"
  /\ index' = SignedOutOf(work, slot)
  /\ Release
  /\ UNCHANGED <<disk, history, env, ops>>

WriteRemoved ==
  /\ at = "write" /\ op = "remove"
  /\ \E heir \in Heirs(work, slot) : index' = RemovedFrom(work, slot, heir)
  /\ forgotten' = forgotten \union {work.rows[slot].account}
  /\ Release
  /\ UNCHANGED <<disk, granted, env, ops>>

-----------------------------------------------------------------------------
(* The world around the vault.                                             *)

\* An exception, a failed write or the end of the process between two steps.
Abort == at # "idle" /\ Release /\ UNCHANGED <<index, disk, history, env, ops>>

Outage ==
  /\ outages < MaxOutages
  /\ answers' = ~answers /\ outages' = outages + 1
  /\ UNCHANGED <<index, disk, task, history, ops>>

\* A copy of the first version's file is put back while RiftLift is closed.
RestoreLegacy(a) ==
  /\ at = "idle" /\ ops < MaxOps
  /\ keyring[Legacy] = None /\ sealed[Legacy] = None
  /\ sealed' = [sealed EXCEPT ![Legacy] = Old(a)]
  /\ ops' = ops + 1
  /\ UNCHANGED <<index, keyring, marker, folder, task, history, env>>

Call ==
  \/ Reconcile \/ Migrate
  \/ \E a \in Metas : Upsert(a)
  \/ \E k \in Keys : \/ SignOut(k) \/ Remove(k) \/ UpdateProfile(k)
                     \/ SetActive(k) \/ SetPrimary(k)

Step ==
  \/ \E k \in Keys : Visit(k) \/ Assign(k) \/ Verify(k)
  \/ Reconciled \/ SaveInKeyring \/ SaveSealed \/ Unseal \/ Mark \/ Enter
  \/ Recheck \/ ClearKeyring \/ ClearSealed \/ Unmark
  \/ WriteSignedOut \/ WriteRemoved

Next == \/ Call \/ Step \/ Abort \/ Outage
        \/ \E a \in Metas : RestoreLegacy(a)

Spec == Init /\ [][Next]_vars

-----------------------------------------------------------------------------
(* Properties.                                                             *)

VaultTypeOK ==
  /\ index \in Index /\ work \in Index
  /\ keyring \in [Slots -> Secret \union {None}]
  /\ sealed \in [Slots -> Secret \union {None}]
  /\ marker \in SUBSET Keys /\ folder \in SUBSET Keys /\ visits \in SUBSET Keys
  /\ marker \subseteq folder
  /\ answers \in BOOLEAN
  /\ op \in Operations /\ at \in Steps
  /\ slot \in Slots \union {None} /\ session \in Secret \union {None}
  /\ granted \in [Metas -> SUBSET (0..MaxOps)] /\ forgotten \in SUBSET Metas
  /\ outages \in 0..MaxOutages /\ ops \in 0..MaxOps

\* What the launcher relies on in an index: read_index accepts it, the active
\* account is one that is signed in, and a primary account is named whenever
\* there is a row.
Sound(i) ==
  /\ Readable(i)
  /\ i.active # None => i.active \in SignedIn(i)
  /\ Listed(i) # {} => i.primary # None

\* After any interrupted operation, repair or migration the index on disk can
\* be read and its selections make sense (read_index's throws are never met).
IndexReadable == Sound(index)

\* While the keyring is always there or never there, an account that finished
\* a sign-in and was not signed out or removed is usable, with the secret of
\* its last sign-in, whatever was interrupted since and whatever older copy of
\* a session migrate_v1 has met.
KeptSessions ==
  outages = 0 =>
    \A a \in Metas : granted[a] # {} =>
      \E k \in Usable(index) : /\ index.rows[k].account = a
                               /\ Load(k) # None
                               /\ Load(k).account = a /\ Load(k).token \in granted[a]

\* An account that was removed is not in the index until it signs in again:
\* "RiftLift forgets this account's sign-in" (views.cpp, the Remove dialog).
RemovedIsForgotten == \A a \in forgotten : KeysOf(index, a) = {}

\* That holds at least as long as the keyring does not come and go.
ForgottenWhenReachable == outages = 0 => RemovedIsForgotten

\* migrate_v1 erases the first version's session only when its account is
\* usable and its slot holds a session of it: no interruption or outage
\* loses the only copy.
LegacyKept ==
  [][\A a \in Metas :
       LET OfIt(secret) == secret # None /\ secret.account = a
       IN  \/ /\ OfIt(keyring[Legacy]) => keyring'[Legacy] # None
              /\ OfIt(sealed[Legacy]) => sealed'[Legacy] # None
           \/ \E k \in KeysOf(index, a) \intersect Usable(index) :
                OfIt(keyring[k]) \/ OfIt(sealed[k])]_vars

\* Only a migration ever has more than Limit accounts signed in: repairs and
\* sign-ins never add one beyond it, however often they are interrupted.
LimitKept ==
  [][\/ op = "migrate"
     \/ Cardinality(SignedIn(index')) <= Cardinality(SignedIn(index))
     \/ Cardinality(SignedIn(index')) <= Limit]_vars
=============================================================================
