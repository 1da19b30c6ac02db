------------------------ MODULE AccountVault_proofs ------------------------
(***************************************************************************)
(* The account vault, for any accounts, keys and limit, and whatever is    *)
(* interrupted.  VaultInv (the index is sound, and each step finds what it *)
(* needs) says that the index can always be read.  Copies ties the copy an *)
(* operation works on to the index; with it, Counted keeps the number of   *)
(* accounts signed in, and OldSession the session of the first version.    *)
(* Steady is the invariant while the keyring does not come and go: which   *)
(* folder holds whose secret, so that no repair finds a removed account,   *)
(* and none loses one that finished a sign-in.                             *)
(***************************************************************************)
EXTENDS AccountVault, FiniteSetTheorems, TLAPS

-----------------------------------------------------------------------------
(* What the changes of an index preserve.                                  *)

\* A row is never None, so a key given a row is listed.
LEMMA RowIsListed == ASSUME NEW r \in Row PROVE r # None
  BY VaultAssumption

\* Marking rows keeps an index sound.
LEMMA MarkedSound ==
  ASSUME NEW i \in Index, Sound(i)
  PROVE  Marked(i) \in Index /\ Sound(Marked(i))
<1> DEFINE m == Marked(i)
<1>1. m \in Index
  BY DEF Marked, Index, Row, SignedIn, Listed
<1>2. \A k \in Keys : /\ (m.rows[k] = None) <=> (i.rows[k] = None)
                      /\ i.rows[k] # None => /\ m.rows[k].account = i.rows[k].account
                                             /\ m.rows[k].signedIn = i.rows[k].signedIn
  <2> SUFFICES ASSUME NEW k \in Keys
               PROVE  /\ (m.rows[k] = None) <=> (i.rows[k] = None)
                      /\ i.rows[k] # None => /\ m.rows[k].account = i.rows[k].account
                                             /\ m.rows[k].signedIn = i.rows[k].signedIn
    OBVIOUS
  <2>1. CASE k \in SignedIn(i) /\ k \notin marker
    <3>1. i.rows[k] \in Row
      BY <2>1 DEF SignedIn, Listed, Index
    <3>2. m.rows[k] = [i.rows[k] EXCEPT !.needsReauth = TRUE]
      BY <2>1 DEF Marked, Index
    <3>3. m.rows[k] \in Row
      BY <3>1, <3>2 DEF Row
    <3> QED BY <3>1, <3>2, <3>3, RowIsListed DEF Row
  <2>2. CASE ~(k \in SignedIn(i) /\ k \notin marker)
    BY <2>2 DEF Marked, Index
  <2> QED BY <2>1, <2>2
<1>3. m.primary = i.primary /\ m.active = i.active
  BY DEF Marked, Index
<1>4. Listed(m) = Listed(i) /\ SignedIn(m) = SignedIn(i)
  BY <1>2 DEF Listed, SignedIn
<1> HIDE DEF m
<1>5. Sound(m)
  BY <1>2, <1>3, <1>4 DEF Sound, Readable, Listed
<1> QED BY <1>1, <1>5 DEF m

\* A key that may take an account: its own, or one not listed when the
\* account has none.
Fits(i, k, a) == \A l \in Listed(i) : i.rows[l].account = a <=> l = k

\* A new row for an account without one, or a renewed row in its own place.
LEMMA EnteredSound ==
  ASSUME NEW i \in Index, Sound(i), NEW k \in Keys, NEW a \in Metas,
         Fits(i, k, a)
  PROVE  /\ Adopted(i, k, a) \in Index /\ Sound(Adopted(i, k, a))
         /\ Entered(i, k, a) \in Index /\ Sound(Entered(i, k, a))
<1> DEFINE r == [i.rows EXCEPT ![k] = Fresh(a)]
           p == IF i.primary = None THEN k ELSE i.primary
<1>1. Fresh(a) \in Row /\ Fresh(a) # None /\ Fresh(a).account = a /\ Fresh(a).signedIn
  <2>1. Fresh(a) \in Row
    BY DEF Fresh, Row
  <2> QED BY <2>1, RowIsListed DEF Fresh
<1>2. r \in [Keys -> Row \union {None}]
  BY <1>1 DEF Index
<1>3. /\ r[k] = Fresh(a)
      /\ \A l \in Keys : l # k => r[l] = i.rows[l]
  BY DEF Index
<1> HIDE DEF r
<1>4. ASSUME NEW c \in Keys, c = k \/ c \in SignedIn(i)
      PROVE  LET j == [rows |-> r, primary |-> p, active |-> c]
             IN  j \in Index /\ Sound(j)
  <2> DEFINE j == [rows |-> r, primary |-> p, active |-> c]
  <2>1. j \in Index
    BY <1>2 DEF Index
  <2>2. Listed(j) = Listed(i) \union {k}
    BY <1>1, <1>3 DEF Listed
  <2>3. \A l, n \in Listed(j) : j.rows[l].account = j.rows[n].account => l = n
    BY <1>1, <1>3, <2>2 DEF Fits, Sound, Readable, Listed
  <2>4. c \in SignedIn(j)
    BY <1>1, <1>3, <1>4, <2>2 DEF SignedIn, Listed
  <2>5. p \in Listed(j) /\ p # None
    BY <2>2, VaultAssumption DEF Sound, Readable, Slots
  <2>6. c \in Listed(j)
    BY <2>4 DEF SignedIn
  <2> QED BY <2>1, <2>3, <2>4, <2>5, <2>6 DEF Sound, Readable
<1>5. Adopted(i, k, a) =
        [rows |-> r, primary |-> p, active |-> IF i.active = None THEN k ELSE i.active]
  BY DEF Adopted, r
<1>6. Entered(i, k, a) = [rows |-> r, primary |-> p, active |-> k]
  BY DEF Entered, Adopted, r
<1>7. Adopted(i, k, a) \in Index /\ Sound(Adopted(i, k, a))
  <2>1. CASE i.active = None
    BY <1>4, <1>5, <2>1
  <2>2. CASE i.active # None
    <3>1. i.active \in SignedIn(i) /\ i.active \in Keys
      BY <2>2 DEF Sound, SignedIn, Listed
    <3> QED BY <1>4, <1>5, <2>2, <3>1
  <2> QED BY <2>1, <2>2
<1>8. Entered(i, k, a) \in Index /\ Sound(Entered(i, k, a))
  BY <1>4, <1>6
<1> QED BY <1>7, <1>8

\* A change of one row that keeps its account, and of the active account.
Changed(i, k, row, c) == [i EXCEPT !.rows[k] = row, !.active = c]

LEMMA ChangedSound ==
  ASSUME NEW i \in Index, Sound(i), NEW k \in Listed(i), NEW row \in Row,
         row.account = i.rows[k].account,
         NEW c \in Keys \union {None},
         c = None \/ (c \in SignedIn(i) /\ c # k) \/ (c = k /\ row.signedIn)
  PROVE  Changed(i, k, row, c) \in Index /\ Sound(Changed(i, k, row, c))
<1> DEFINE j == Changed(i, k, row, c)
<1>1. j \in Index /\ k \in Keys
  BY DEF Changed, Index, Listed
<1>2. /\ j.rows[k] = row /\ row # None
      /\ \A l \in Keys : l # k => j.rows[l] = i.rows[l]
      /\ j.primary = i.primary /\ j.active = c
  BY <1>1, RowIsListed DEF Changed, Index
<1> HIDE DEF j
<1>3. Listed(j) = Listed(i)
  BY <1>2 DEF Listed
<1>4. \A l, n \in Listed(j) : j.rows[l].account = j.rows[n].account => l = n
  BY <1>2, <1>3 DEF Sound, Readable, Listed
<1>5. c # None => c \in SignedIn(j)
  BY <1>2, <1>3 DEF SignedIn, Listed
<1>6. Sound(j)
  BY <1>2, <1>3, <1>4, <1>5 DEF Sound, Readable, SignedIn
<1> QED BY <1>1, <1>6 DEF j

\* A row goes, and its selections with it.
LEMMA RemovedSound ==
  ASSUME NEW i \in Index, Sound(i), NEW k \in Listed(i), NEW heir \in Heirs(i, k)
  PROVE  RemovedFrom(i, k, heir) \in Index /\ Sound(RemovedFrom(i, k, heir))
<1> DEFINE j == RemovedFrom(i, k, heir)
<1>1. heir \in Keys \union {None} /\ k \in Keys
  BY DEF Heirs, Listed
<1>2. j \in Index
  BY <1>1 DEF RemovedFrom, Index
<1>3. /\ j.rows[k] = None
      /\ \A l \in Keys : l # k => j.rows[l] = i.rows[l]
      /\ j.primary = IF i.primary = k THEN heir ELSE i.primary
      /\ j.active = IF i.active = k THEN None ELSE i.active
  BY <1>1 DEF RemovedFrom, Index
<1> HIDE DEF j
<1>4. Listed(j) = Listed(i) \ {k}
  BY <1>3 DEF Listed
<1>5. \A l, n \in Listed(j) : j.rows[l].account = j.rows[n].account => l = n
  BY <1>3, <1>4 DEF Sound, Readable, Listed
<1>6. j.active # None => j.active \in SignedIn(j)
  BY <1>3, <1>4 DEF Sound, SignedIn, Listed
<1>7. j.primary \in Listed(j) \union {None} /\ (Listed(j) # {} => j.primary # None)
  BY <1>3, <1>4, VaultAssumption DEF Heirs, Sound, Readable, Listed, Slots
<1>8. Sound(j)
  BY <1>5, <1>6, <1>7 DEF Sound, Readable, SignedIn
<1> QED BY <1>2, <1>8 DEF j

-----------------------------------------------------------------------------
(* The invariant.                                                          *)

\* What each step of an operation finds: which operations reach it, a session
\* where one is stored or compared, and a slot its operation may work on.
Doing ==
  /\ at = "visit" => op \in {"upsert", "reconcile", "migrate"}
  /\ at \in {"assign", "check"} => op \in {"upsert", "migrate"}
  /\ at \in {"save", "unseal", "mark"} => op \in {"upsert", "migrate", "profile"}
  /\ \/ at \in {"assign", "save", "unseal", "mark", "check", "verify", "recheck"}
     \/ at = "visit" /\ op # "reconcile"
     => session \in Secret
  /\ at \in {"save", "unseal", "mark", "check"} =>
       slot \in Keys /\ (op # "profile" => Fits(work, slot, session.account))
  /\ at = "verify" => op = "migrate"
  /\ at = "recheck" => op = "migrate" /\ slot \in Keys
  /\ at \in {"clear", "clear_sealed"} =>
       /\ op \in {"sign_out", "remove", "migrate"} /\ slot \in Slots
       /\ op # "migrate" => slot \in Listed(work)
  /\ at \in {"unmark", "write"} =>
       op \in {"sign_out", "remove"} /\ slot \in Listed(work)

\* The index is sound, and so is the copy an operation works on.
VaultInv == VaultTypeOK /\ Sound(index) /\ Sound(work) /\ Doing

\* The empty index is sound; it is also the copy of an operation that is over.
LEMMA EmptySound == EmptyIndex \in Index /\ Sound(EmptyIndex)
  BY DEF EmptyIndex, Index, Sound, Readable, Listed

\* What Load finds is a secret or nothing.
LEMMA LoadType ==
  ASSUME VaultTypeOK, NEW s \in Slots
  PROVE  Load(s) \in Secret \union {None}
  BY DEF VaultTypeOK, Load

\* An operation that is over leaves the rest of the invariant alone.
LEMMA ReleaseDoing ==
  ASSUME Release
  PROVE  /\ Doing' /\ Sound(work)' /\ work' \in Index
         /\ op' \in Operations /\ at' \in Steps
         /\ slot' \in Slots \union {None} /\ session' \in Secret \union {None}
         /\ visits' \in SUBSET Keys
<1>1. work' = EmptyIndex /\ at' = "idle"
  BY DEF Release
<1>2. Sound(work)' /\ work' \in Index
  BY <1>1, EmptySound DEF Sound, Readable, Listed, SignedIn
<1>3. Doing'
  BY <1>1 DEF Doing
<1> QED BY <1>2, <1>3 DEF Release, Operations, Steps

LEMMA VaultInit == Init => VaultInv
<1> SUFFICES ASSUME Init PROVE VaultInv
  OBVIOUS
<1>1. \A a \in Metas : Old(a) \in Secret
  BY VaultAssumption DEF Old, Secret
<1>2. keyring \in [Slots -> Secret \union {None}] /\ sealed \in [Slots -> Secret \union {None}]
  BY <1>1 DEF Init
<1>3. VaultTypeOK
  BY <1>2, EmptySound, VaultAssumption DEF Init, VaultTypeOK, Operations, Steps
<1>4. Sound(index) /\ Sound(work)
  BY EmptySound DEF Init
<1> QED BY <1>3, <1>4 DEF VaultInv, Doing, Init

\* The beginning of an operation on a listed slot, or of a reconciliation.
LEMMA VaultBegin == VaultInv /\ Call => VaultInv'
<1> SUFFICES ASSUME VaultInv, Call PROVE VaultInv'
  OBVIOUS
<1> USE DEF VaultInv
<1>0. Cardinality(Keys) \in Nat /\ ops \in Nat /\ (ops < MaxOps => ops + 1 \in 0..MaxOps)
  BY VaultAssumption, FS_CardinalityType DEF VaultTypeOK
<1>1. ASSUME NEW o \in {"upsert", "reconcile", "migrate"}, NEW s \in Secret \union {None},
             o # "reconcile" => s \in Secret, BeginReconciling(o, s),
             granted' \in [Metas -> SUBSET (0..MaxOps)], forgotten' \in SUBSET Metas
      PROVE  VaultInv'
  <2>1. work' \in Index /\ Sound(work)'
    <3>1. Marked(index) \in Index /\ Sound(Marked(index)) /\ work' = Marked(index)
      BY <1>1, MarkedSound DEF BeginReconciling, VaultTypeOK
    <3> QED BY <3>1 DEF Sound, Readable, Listed, SignedIn
  <2>2. VaultTypeOK'
    BY <1>0, <1>1, <2>1 DEF BeginReconciling, Begin, VaultTypeOK, disk, env, Operations, Steps, Slots
  <2>3. Sound(index)'
    BY <1>1 DEF BeginReconciling, Begin
  <2>4. Doing'
    BY <1>1 DEF BeginReconciling, Begin, Doing
  <2> QED BY <2>1, <2>2, <2>3, <2>4
<1>2. ASSUME NEW o \in {"sign_out", "remove", "profile"}, NEW k \in Listed(index),
             NEW step \in {"clear", "save"}, NEW s \in Secret \union {None},
             step = "save" <=> o = "profile", step = "save" => s \in Secret,
             BeginOn(o, step, k, s),
             granted' \in [Metas -> SUBSET (0..MaxOps)], forgotten' \in SUBSET Metas
      PROVE  VaultInv'
  <2>1. work' = index /\ index' = index /\ k \in Keys
    BY <1>2 DEF BeginOn, Begin, Listed
  <2>2. VaultTypeOK'
    BY <1>0, <1>2, <2>1 DEF BeginOn, Begin, VaultTypeOK, disk, env, Operations, Steps, Slots
  <2>3. Sound(index)' /\ Sound(work)'
    BY <2>1 DEF Sound, Readable, Listed, SignedIn
  <2>4. Doing'
    BY <1>2, <2>1 DEF BeginOn, Begin, Doing, Slots, Listed
  <2> QED BY <2>1, <2>2, <2>3, <2>4
<1>3. ASSUME NEW i \in Index, Sound(i), Choose(i)
      PROVE  VaultInv'
  <2>1. VaultTypeOK'
    BY <1>0, <1>3 DEF Choose, VaultTypeOK, disk, task, history, env
  <2>2. Sound(index)' /\ Sound(work)'
    BY <1>3 DEF Choose, task, Sound, Readable, Listed, SignedIn
  <2>3. Doing'
    BY <1>3 DEF Choose, task, Doing
  <2> QED BY <2>1, <2>2, <2>3
<1>4. CASE Reconcile
  BY <1>1, <1>4 DEF Reconcile, history, VaultTypeOK
<1>5. CASE Migrate
  <2>1. Load(Legacy) \in Secret
    BY <1>5, LoadType DEF Migrate, Slots
  <2>2. BeginReconciling("migrate", Load(Legacy))
    BY <1>5 DEF Migrate
  <2>3. granted' \in [Metas -> SUBSET (0..MaxOps)] /\ forgotten' \in SUBSET Metas
    BY <1>5 DEF Migrate, VaultTypeOK
  <2> QED BY <1>1, <2>1, <2>2, <2>3
<1>6. ASSUME NEW a \in Metas, Upsert(a) PROVE VaultInv'
  <2>1. ops + 1 \in 0..MaxOps
    BY <1>0, <1>6 DEF Upsert, BeginReconciling, Begin
  <2>2. [account |-> a, token |-> ops + 1] \in Secret
    BY <2>1 DEF Secret
  <2>3. granted' \in [Metas -> SUBSET (0..MaxOps)] /\ forgotten' \in SUBSET Metas
    BY <1>6, <2>1 DEF Upsert, VaultTypeOK
  <2> QED BY <1>1, <1>6, <2>2, <2>3 DEF Upsert
<1>7. ASSUME NEW k \in Keys, SignOut(k) \/ Remove(k) PROVE VaultInv'
  <2>1. granted' \in [Metas -> SUBSET (0..MaxOps)] /\ forgotten' \in SUBSET Metas
    BY <1>7 DEF SignOut, Remove, VaultTypeOK
  <2> QED BY <1>2, <1>7, <2>1 DEF SignOut, Remove
<1>8. ASSUME NEW k \in Keys, UpdateProfile(k) PROVE VaultInv'
  <2>1. Load(k) \in Secret /\ k \in Listed(index)
    BY <1>8, LoadType DEF UpdateProfile, Usable, SignedIn, Slots
  <2>2. granted' \in [Metas -> SUBSET (0..MaxOps)] /\ forgotten' \in SUBSET Metas
    BY <1>8 DEF UpdateProfile, history, VaultTypeOK
  <2> QED BY <1>2, <1>8, <2>1, <2>2 DEF UpdateProfile
<1>9. ASSUME NEW k \in Keys, SetActive(k) PROVE VaultInv'
  <2> DEFINE i == [index EXCEPT !.active = k]
  <2>1. i \in Index /\ Sound(i)
    BY <1>9 DEF SetActive, Usable, SignedIn, Listed, VaultTypeOK, Index, Sound, Readable
  <2> QED BY <1>3, <1>9, <2>1 DEF SetActive
<1>10. ASSUME NEW k \in Keys, SetPrimary(k) PROVE VaultInv'
  <2> DEFINE i == [index EXCEPT !.primary = k]
  <2>1. i \in Index /\ Sound(i)
    BY <1>10, VaultAssumption DEF SetPrimary, SignedIn, Listed, VaultTypeOK, Index, Sound, Readable, Slots
  <2> QED BY <1>3, <1>10, <2>1 DEF SetPrimary
<1> QED BY <1>4, <1>5, <1>6, <1>7, <1>8, <1>9, <1>10 DEF Call

\* reconcile_locked: every orphan that is adopted finds a key without a row,
\* of an account without one.
LEMMA VaultReconcile ==
  VaultInv /\ (Reconciled \/ \E k \in Keys : Visit(k)) => VaultInv'
<1> SUFFICES ASSUME VaultInv, Reconciled \/ \E k \in Keys : Visit(k) PROVE VaultInv'
  OBVIOUS
<1> USE DEF VaultInv
<1>1. ASSUME NEW k \in Keys, Visit(k) PROVE VaultInv'
  <2>1. work' \in Index /\ Sound(work')
    <3>1. CASE Adoptable(k)
      <4>1. Load(k) \in Secret
        BY <3>1, LoadType DEF Adoptable, Slots
      <4>2. Fits(work, k, Load(k).account) /\ Load(k).account \in Metas
        BY <3>1, <4>1 DEF Adoptable, Fits, KeysOf, Secret
      <4> QED BY <1>1, <3>1, <4>2, EnteredSound DEF Visit, VaultTypeOK
    <3>2. CASE ~Adoptable(k)
      BY <1>1, <3>2 DEF Visit, VaultTypeOK
    <3> QED BY <3>1, <3>2
  <2>2. VaultTypeOK'
    BY <1>1, <2>1 DEF Visit, VaultTypeOK, disk, history, env
  <2>3. Sound(index)' /\ Sound(work)'
    BY <1>1, <2>1 DEF Visit, Sound, Readable, Listed, SignedIn
  <2>4. Doing'
    BY <1>1 DEF Visit, Doing
  <2> QED BY <2>2, <2>3, <2>4
<1>2. CASE Reconciled
  <2>1. index' \in Index /\ Sound(index)' /\ UNCHANGED <<disk, history, env, ops>>
    BY <1>2 DEF Reconciled, VaultTypeOK, Sound, Readable, Listed, SignedIn
  <2>2. CASE op = "reconcile"
    <3>1. Release
      BY <1>2, <2>2 DEF Reconciled
    <3>2. VaultTypeOK'
      BY <2>1, <3>1, ReleaseDoing DEF VaultTypeOK, disk, history, env
    <3> QED BY <2>1, <3>1, <3>2, ReleaseDoing
  <2>3. CASE op # "reconcile"
    <3>1. /\ UNCHANGED <<op, slot, session, work, visits>>
          /\ at = "visit" /\ at' \in {"verify", "assign"}
          /\ at' = "verify" => op = "migrate"
      BY <1>2, <2>3 DEF Reconciled, GoTo
    <3>2. VaultTypeOK'
      BY <2>1, <3>1 DEF VaultTypeOK, disk, history, env, Steps
    <3>3. Sound(work)'
      BY <3>1 DEF Sound, Readable, Listed, SignedIn
    <3>4. Doing'
      BY <2>3, <3>1 DEF Doing
    <3> QED BY <2>1, <3>2, <3>3, <3>4
  <2> QED BY <2>2, <2>3
<1> QED BY <1>1, <1>2

\* upsert_locked and migrate_v1: the key was chosen to fit, and still fits when
\* the index is written.
LEMMA VaultUpsert ==
  VaultInv /\ (\/ SaveInKeyring \/ SaveSealed \/ Unseal \/ Mark \/ Enter \/ Recheck
              \/ \E k \in Keys : Assign(k) \/ Verify(k))
    => VaultInv'
<1> SUFFICES ASSUME VaultInv,
                    \/ SaveInKeyring \/ SaveSealed \/ Unseal \/ Mark \/ Enter \/ Recheck
                    \/ \E k \in Keys : Assign(k) \/ Verify(k)
             PROVE  VaultInv'
  OBVIOUS
<1> USE DEF VaultInv
<1>1. ASSUME NEW k \in Keys, Assign(k) PROVE VaultInv'
  <2>1. Fits(work, k, session.account)
    BY <1>1 DEF Assign, SlotFor, Fits, KeysOf, Sound, Readable, Listed
  <2>2. VaultTypeOK'
    BY <1>1 DEF Assign, VaultTypeOK, disk, history, env, Steps, Slots
  <2>3. Sound(index)' /\ Sound(work)'
    BY <1>1 DEF Assign, Sound, Readable, Listed, SignedIn
  <2>4. Doing'
    BY <1>1, <2>1 DEF Assign, Doing, Fits, Listed
  <2> QED BY <2>2, <2>3, <2>4
<1>2. ASSUME SaveInKeyring \/ SaveSealed \/ Unseal \/ (Mark /\ op # "profile")
      PROVE  VaultInv'
  <2>1. /\ UNCHANGED <<index, work, op, slot, session, visits, history, env, ops>>
        /\ at \in {"save", "unseal", "mark"} /\ at' \in {"unseal", "mark", "check"}
        /\ at' = "check" => op # "profile"
    BY <1>2 DEF SaveInKeyring, SaveSealed, Unseal, Mark, GoTo
  <2>2. slot \in Keys /\ session \in Secret
    BY <2>1 DEF Doing
  <2>3. VaultTypeOK'
    BY <1>2, <2>1, <2>2 DEF SaveInKeyring, SaveSealed, Unseal, Mark, VaultTypeOK,
                            history, env, Steps, Slots
  <2>4. Sound(index)' /\ Sound(work)'
    BY <2>1 DEF Sound, Readable, Listed, SignedIn
  <2>5. Doing'
    BY <2>1 DEF Doing, Fits, Listed
  <2> QED BY <2>3, <2>4, <2>5
<1>3. ASSUME Mark, op = "profile" PROVE VaultInv'
  <2>1. Release /\ slot \in Keys
    BY <1>3 DEF Mark, Doing
  <2>2. VaultTypeOK'
    BY <1>3, <2>1, ReleaseDoing DEF Mark, VaultTypeOK, history, env
  <2>3. Sound(index)'
    BY <1>3 DEF Mark, Sound, Readable, Listed, SignedIn
  <2> QED BY <2>1, <2>2, <2>3, ReleaseDoing
<1>4. CASE Enter
  <2>1. /\ slot \in Keys /\ session \in Secret /\ op \in {"upsert", "migrate"}
        /\ Fits(work, slot, session.account)
    BY <1>4 DEF Enter, Doing
  <2>2. index' \in Index /\ Sound(index')
    BY <1>4, <2>1, EnteredSound DEF Enter, VaultTypeOK, Secret
  <2>3. granted' \in [Metas -> SUBSET (0..MaxOps)]
    BY <1>4, <2>1 DEF Enter, VaultTypeOK, Secret
  <2>4. Sound(index)'
    BY <2>2 DEF Sound, Readable, Listed, SignedIn
  <2>5. CASE op = "upsert"
    <3>1. Release
      BY <1>4, <2>5 DEF Enter
    <3>2. VaultTypeOK'
      BY <1>4, <2>2, <2>3, <3>1, ReleaseDoing DEF Enter, VaultTypeOK, disk, env
    <3> QED BY <2>4, <3>1, <3>2, ReleaseDoing
  <2>6. CASE op = "migrate"
    <3>1. UNCHANGED <<op, slot, session, work, visits>> /\ at' = "recheck"
      BY <1>4, <2>6 DEF Enter, GoTo
    <3>2. VaultTypeOK'
      BY <1>4, <2>2, <2>3, <3>1 DEF Enter, VaultTypeOK, disk, env, Steps
    <3>3. Sound(work)' /\ Doing'
      BY <2>1, <2>6, <3>1 DEF Sound, Readable, Listed, SignedIn, Doing
    <3> QED BY <2>4, <3>2, <3>3
  <2> QED BY <2>1, <2>5, <2>6
<1>5. ASSUME NEW k \in Keys, Verify(k) PROVE VaultInv'
  <2>1. op = "migrate" /\ k \in Listed(work) /\ Load(k) \in Secret
    <3>1. Load(k) \in Secret
      BY <1>5, LoadType DEF Verify, Slots
    <3> QED BY <1>5, <3>1 DEF Verify, Held, KeysOf, Doing
  <2>2. index' \in Index /\ Sound(index')
    <3> DEFINE row == Fresh(work.rows[k].account)
    <3>1. work.rows[k] \in Row /\ k \in Keys
      BY <2>1 DEF Listed, VaultTypeOK, Index
    <3>2. row \in Row /\ row.account = work.rows[k].account /\ row.signedIn
      BY <3>1 DEF Fresh, Row
    <3>3. Restored(work, k) = Changed(work, k, row, work.active)
      BY DEF Changed, Restored, VaultTypeOK, Index
    <3>4. work.active \in Keys \union {None}
      BY DEF VaultTypeOK, Index
    <3>5. \/ work.active = None \/ (work.active \in SignedIn(work) /\ work.active # k)
          \/ work.active = k
      BY DEF Sound
    <3> HIDE DEF row
    <3>6. Restored(work, k) \in Index /\ Sound(Restored(work, k))
      BY <2>1, <3>2, <3>3, <3>4, <3>5, ChangedSound DEF VaultTypeOK
    <3> QED BY <1>5, <3>6 DEF Verify
  <2>3. VaultTypeOK'
    BY <1>5, <2>1, <2>2 DEF Verify, VaultTypeOK, disk, history, env, Steps, Slots
  <2>4. Sound(index)' /\ Sound(work)'
    BY <1>5, <2>2 DEF Verify, Sound, Readable, Listed, SignedIn
  <2>5. Doing'
    BY <1>5, <2>1 DEF Verify, Doing
  <2> QED BY <2>3, <2>4, <2>5
<1>6. CASE Recheck
  <2>1. VaultTypeOK'
    BY <1>6 DEF Recheck, VaultTypeOK, disk, history, env, Steps, Slots
  <2>2. Sound(index)' /\ Sound(work)'
    BY <1>6 DEF Recheck, Sound, Readable, Listed, SignedIn
  <2>3. Doing'
    BY <1>6 DEF Recheck, Doing, Slots
  <2> QED BY <2>1, <2>2, <2>3
<1> QED BY <1>1, <1>2, <1>3, <1>4, <1>5, <1>6

\* SecretStore::clear, and the index of sign_out and remove.
LEMMA VaultClear ==
  VaultInv /\ (ClearKeyring \/ ClearSealed \/ Unmark \/ WriteSignedOut \/ WriteRemoved)
    => VaultInv'
<1> SUFFICES ASSUME VaultInv,
                    ClearKeyring \/ ClearSealed \/ Unmark \/ WriteSignedOut \/ WriteRemoved
             PROVE  VaultInv'
  OBVIOUS
<1> USE DEF VaultInv
<1>1. ASSUME ClearKeyring \/ Unmark \/ (ClearSealed /\ op # "migrate") PROVE VaultInv'
  <2>1. /\ UNCHANGED <<index, work, op, slot, session, visits, history, env, ops>>
        /\ at' \in Steps
    BY <1>1 DEF ClearKeyring, ClearSealed, Unmark, GoTo, Steps
  <2>2. VaultTypeOK'
    BY <1>1, <2>1 DEF ClearKeyring, ClearSealed, Unmark, VaultTypeOK, history, env
  <2>3. Sound(index)' /\ Sound(work)'
    BY <2>1 DEF Sound, Readable, Listed, SignedIn
  <2>4. Doing'
    BY <1>1 DEF ClearKeyring, ClearSealed, Unmark, GoTo, Doing, Listed
  <2> QED BY <2>2, <2>3, <2>4
<1>2. ASSUME ClearSealed, op = "migrate" PROVE VaultInv'
  <2>1. Release
    BY <1>2 DEF ClearSealed
  <2>2. VaultTypeOK'
    BY <1>2, <2>1, ReleaseDoing DEF ClearSealed, VaultTypeOK, history, env
  <2>3. Sound(index)'
    BY <1>2 DEF ClearSealed, Sound, Readable, Listed, SignedIn
  <2> QED BY <2>1, <2>2, <2>3, ReleaseDoing
<1>3. ASSUME index' \in Index, Sound(index'), Release, UNCHANGED <<disk, granted, env, ops>>,
             forgotten' \in SUBSET Metas
      PROVE  VaultInv'
  <2>1. VaultTypeOK'
    BY <1>3, ReleaseDoing DEF VaultTypeOK, disk, env
  <2>2. Sound(index)'
    BY <1>3 DEF Sound, Readable, Listed, SignedIn
  <2> QED BY <1>3, <2>1, <2>2, ReleaseDoing
<1>4. CASE WriteSignedOut
  <2> DEFINE row == [work.rows[slot] EXCEPT !.signedIn = FALSE, !.needsReauth = TRUE]
             c == IF work.active = slot THEN None ELSE work.active
  <2>1. slot \in Listed(work) /\ work.rows[slot] \in Row /\ slot \in Keys
    BY <1>4 DEF WriteSignedOut, Doing, VaultTypeOK, Index, Listed
  <2>2. row \in Row /\ row.account = work.rows[slot].account
    BY <2>1 DEF Row
  <2>3. /\ c \in Keys \union {None}
        /\ c = None \/ (c \in SignedIn(work) /\ c # slot)
    BY DEF VaultTypeOK, Index, Sound
  <2>4. SignedOutOf(work, slot) = Changed(work, slot, row, c)
    BY <2>1 DEF Changed, SignedOutOf, VaultTypeOK, Index
  <2> HIDE DEF row, c
  <2>5. SignedOutOf(work, slot) \in Index /\ Sound(SignedOutOf(work, slot))
    BY <2>1, <2>2, <2>3, <2>4, ChangedSound DEF VaultTypeOK
  <2> QED BY <1>3, <1>4, <2>5 DEF WriteSignedOut, history, VaultTypeOK
<1>5. CASE WriteRemoved
  <2>1. slot \in Listed(work) /\ work.rows[slot] \in Row
    BY <1>5 DEF WriteRemoved, Doing, VaultTypeOK, Index, Listed
  <2>2. index' \in Index /\ Sound(index')
    BY <1>5, <2>1, RemovedSound DEF WriteRemoved, VaultTypeOK
  <2>3. forgotten' \in SUBSET Metas
    BY <1>5, <2>1 DEF WriteRemoved, VaultTypeOK, Row
  <2> QED BY <1>3, <1>5, <2>2, <2>3 DEF WriteRemoved
<1> QED BY <1>1, <1>2, <1>4, <1>5

\* Interruptions and the world.
LEMMA VaultWorld ==
  VaultInv /\ (Abort \/ Outage \/ \E a \in Metas : RestoreLegacy(a)) => VaultInv'
<1> SUFFICES ASSUME VaultInv, Abort \/ Outage \/ \E a \in Metas : RestoreLegacy(a)
             PROVE  VaultInv'
  OBVIOUS
<1> USE DEF VaultInv
<1>1. CASE Abort
  <2>1. VaultTypeOK'
    BY <1>1, ReleaseDoing DEF Abort, VaultTypeOK, disk, history, env
  <2>2. Sound(index)'
    BY <1>1 DEF Abort, Sound, Readable, Listed, SignedIn
  <2> QED BY <1>1, <2>1, <2>2, ReleaseDoing DEF Abort
<1>2. CASE Outage
  <2>1. VaultTypeOK'
    BY <1>2, VaultAssumption DEF Outage, VaultTypeOK, disk, task, history
  <2>2. Sound(index)' /\ Sound(work)' /\ Doing'
    BY <1>2 DEF Outage, task, Sound, Readable, Listed, SignedIn, Doing, Fits
  <2> QED BY <2>1, <2>2
<1>3. ASSUME NEW a \in Metas, RestoreLegacy(a) PROVE VaultInv'
  <2>1. Old(a) \in Secret /\ ops + 1 \in 0..MaxOps
    BY <1>3, VaultAssumption DEF RestoreLegacy, Old, Secret, VaultTypeOK
  <2>2. VaultTypeOK'
    BY <1>3, <2>1 DEF RestoreLegacy, VaultTypeOK, task, history, env
  <2>3. Sound(index)' /\ Sound(work)' /\ Doing'
    BY <1>3 DEF RestoreLegacy, task, Sound, Readable, Listed, SignedIn, Doing
  <2> QED BY <2>2, <2>3
<1> QED BY <1>1, <1>2, <1>3

LEMMA VaultStutter == VaultInv /\ UNCHANGED vars => VaultInv'
  BY DEF vars, disk, task, history, env, VaultInv, VaultTypeOK, Sound, Readable,
         Listed, SignedIn, Doing, Fits

LEMMA VaultNext == VaultInv /\ [Next]_vars => VaultInv'
  BY VaultBegin, VaultReconcile, VaultUpsert, VaultClear, VaultWorld, VaultStutter
     DEF Next, Step

LEMMA VaultInvariant == Spec => []VaultInv
  BY VaultInit, VaultNext, PTL DEF Spec

\* Every file and every step of an operation keeps to its type, for any
\* accounts, keys and limit.
THEOREM VaultTyped == Spec => []VaultTypeOK
<1>1. VaultInv => VaultTypeOK
  BY DEF VaultInv
<1> QED BY VaultInvariant, <1>1, PTL

\* read_index never throws: no interruption, repair, migration or outage leaves
\* an index with an account twice or a selection that is not in it; the active
\* account is signed in, and there is a primary one whenever there is a row.
THEOREM IndexIsReadable == Spec => []IndexReadable
<1>1. VaultInv => IndexReadable
  BY DEF VaultInv, IndexReadable
<1> QED BY VaultInvariant, <1>1, PTL

-----------------------------------------------------------------------------
(* The copy of the index an operation works on.                            *)

Writing == {"save", "unseal", "mark", "check"}

\* The copy is the index itself once the repairs are written, and the slots of
\* both are among the folders.
Copies ==
  /\ at = "idle" <=> op = "none"
  /\ op \in {"sign_out", "remove", "profile"} \/ at \in {"assign", "verify"} \union Writing
     => work = index
  /\ visits \subseteq folder
  /\ at = "check" => slot \in marker
  /\ Listed(index) \subseteq folder /\ Listed(work) \subseteq folder

LEMMA CopiesInit == Init => Copies
BY DEF Init, Copies, Writing, EmptyIndex, Listed

LEMMA ReleaseCopies ==
  ASSUME Release, VaultTypeOK, Listed(index)' \subseteq folder'
  PROVE  Copies'
<1>1. work' = EmptyIndex
  BY DEF Release
<1>2. Listed(work)' = {}
  BY <1>1 DEF EmptyIndex, Listed
<1> QED
  BY <1>2 DEF Release, Copies, Writing

\* A step that leaves the index and its copy as they are.
LEMMA CopiesFrame ==
  ASSUME Copies, UNCHANGED <<index, work, visits, op>>, folder \subseteq folder', marker \subseteq marker',
         at # "idle" /\ at' # "idle",
         at' \in {"assign", "verify"} \union Writing => at \in {"assign", "verify"} \union Writing,
         at' = "check" => slot' \in marker'
  PROVE  Copies'
<1>1. Listed(index)' = Listed(index) /\ Listed(work)' = Listed(work)
  BY DEF Listed
<1> QED
  BY <1>1 DEF Copies

LEMMA MarkedLists ==
  ASSUME NEW i \in Index
  PROVE  Listed(Marked(i)) = Listed(i) /\ SignedIn(Marked(i)) = SignedIn(i)
<1> DEFINE m == Marked(i)
<1>1. \A k \in Keys : /\ (m.rows[k] = None) <=> (i.rows[k] = None)
                      /\ i.rows[k] # None => m.rows[k].signedIn = i.rows[k].signedIn
  <2> SUFFICES ASSUME NEW k \in Keys
               PROVE  /\ (m.rows[k] = None) <=> (i.rows[k] = None)
                      /\ i.rows[k] # None => m.rows[k].signedIn = i.rows[k].signedIn
    OBVIOUS
  <2>1. CASE k \in SignedIn(i) /\ k \notin marker
    <3>1. i.rows[k] \in Row
      BY <2>1 DEF SignedIn, Listed, Index
    <3>2. m.rows[k] = [i.rows[k] EXCEPT !.needsReauth = TRUE]
      BY <2>1 DEF Marked, Index
    <3>3. m.rows[k] \in Row
      BY <3>1, <3>2 DEF Row
    <3> QED
      BY <3>1, <3>2, <3>3, RowIsListed DEF Row
  <2>2. CASE ~(k \in SignedIn(i) /\ k \notin marker)
    BY <2>2 DEF Marked, Index
  <2> QED
    BY <2>1, <2>2
<1> HIDE DEF m
<1>2. Listed(m) = Listed(i)
  BY <1>1 DEF Listed
<1>3. SignedIn(m) = SignedIn(i)
  BY <1>1, <1>2 DEF SignedIn, Listed
<1> QED
  BY <1>2, <1>3 DEF m

LEMMA EnteredLists ==
  ASSUME NEW i \in Index, NEW k \in Keys, NEW a \in Metas
  PROVE  /\ Listed(Adopted(i, k, a)) = Listed(i) \union {k}
         /\ SignedIn(Adopted(i, k, a)) = SignedIn(i) \union {k}
         /\ Entered(i, k, a).rows = Adopted(i, k, a).rows
         /\ Adopted(i, k, a).rows = [i.rows EXCEPT ![k] = Fresh(a)]
<1>1. Fresh(a) \in Row /\ Fresh(a) # None /\ Fresh(a).signedIn
  <2>1. Fresh(a) \in Row
    BY DEF Fresh, Row
  <2> QED
    BY <2>1, RowIsListed DEF Fresh
<1> DEFINE j == Adopted(i, k, a)
<1>2. /\ j.rows = [i.rows EXCEPT ![k] = Fresh(a)]
      /\ Entered(i, k, a).rows = j.rows
  BY DEF Adopted, Entered
<1>3. j.rows[k] = Fresh(a) /\ \A l \in Keys : l # k => j.rows[l] = i.rows[l]
  BY <1>2 DEF Index
<1> HIDE DEF j
<1>4. Listed(j) = Listed(i) \union {k}
  BY <1>1, <1>3 DEF Listed
<1>5. SignedIn(j) = SignedIn(i) \union {k}
  BY <1>1, <1>3, <1>4 DEF SignedIn, Listed
<1> QED
  BY <1>2, <1>4, <1>5 DEF j

\* Only the rows say who is listed and who is signed in.
LEMMA RowsSay ==
  ASSUME NEW i, NEW j, i.rows = j.rows
  PROVE  Listed(i) = Listed(j) /\ SignedIn(i) = SignedIn(j) /\ Usable(i) = Usable(j)
BY DEF Listed, SignedIn, Usable

\* An index that signs an account out, or renews its row, lists the same slots.
LEMMA SignedOutLists ==
  ASSUME NEW i \in Index, NEW k \in Listed(i)
  PROVE  /\ Listed(SignedOutOf(i, k)) = Listed(i) /\ SignedIn(SignedOutOf(i, k)) = SignedIn(i) \ {k}
         /\ \A l \in Keys \ {k} : SignedOutOf(i, k).rows[l] = i.rows[l]
         /\ SignedOutOf(i, k).rows[k].account = i.rows[k].account
<1> DEFINE row == [i.rows[k] EXCEPT !.signedIn = FALSE, !.needsReauth = TRUE]
           j == SignedOutOf(i, k)
<1>1. i.rows[k] \in Row /\ k \in Keys
  BY DEF Index, Listed
<1>2. row \in Row /\ ~row.signedIn /\ row.account = i.rows[k].account /\ row # None
  <2>1. row \in Row
    BY <1>1 DEF Row
  <2> QED
    BY <1>1, <2>1, RowIsListed DEF Row
<1>3. j.rows[k] = row /\ \A l \in Keys \ {k} : j.rows[l] = i.rows[l]
  BY <1>1 DEF SignedOutOf, Index
<1> HIDE DEF row, j
<1>4. Listed(j) = Listed(i)
  BY <1>1, <1>2, <1>3 DEF Listed
<1>5. SignedIn(j) = SignedIn(i) \ {k}
  BY <1>1, <1>2, <1>3, <1>4 DEF SignedIn, Listed
<1> QED
  BY <1>2, <1>3, <1>4, <1>5 DEF j

LEMMA RestoredLists ==
  ASSUME NEW i \in Index, NEW k \in Listed(i)
  PROVE  /\ Listed(Restored(i, k)) = Listed(i)
         /\ Restored(i, k).rows = [i.rows EXCEPT ![k] = Fresh(i.rows[k].account)]
         /\ \A l \in Keys \ {k} : Restored(i, k).rows[l] = i.rows[l]
         /\ Restored(i, k).rows[k] = Fresh(i.rows[k].account)
         /\ Fresh(i.rows[k].account) \in Row /\ i.rows[k].account \in Metas
<1>1. i.rows[k] \in Row /\ k \in Keys
  BY DEF Index, Listed
<1>2. Fresh(i.rows[k].account) \in Row /\ i.rows[k].account \in Metas
  BY <1>1 DEF Fresh, Row
<1>3. /\ Restored(i, k).rows = [i.rows EXCEPT ![k] = Fresh(i.rows[k].account)]
      /\ Restored(i, k).rows[k] = Fresh(i.rows[k].account)
      /\ \A l \in Keys \ {k} : Restored(i, k).rows[l] = i.rows[l]
  BY <1>1 DEF Restored, Index
<1>4. Listed(Restored(i, k)) = Listed(i)
  BY <1>1, <1>2, <1>3, RowIsListed DEF Listed
<1> QED
  BY <1>2, <1>3, <1>4

LEMMA RemovedLists ==
  ASSUME NEW i \in Index, NEW k \in Listed(i), NEW heir
  PROVE  /\ Listed(RemovedFrom(i, k, heir)) = Listed(i) \ {k}
         /\ SignedIn(RemovedFrom(i, k, heir)) = SignedIn(i) \ {k}
         /\ \A l \in Keys \ {k} : RemovedFrom(i, k, heir).rows[l] = i.rows[l]
<1> DEFINE j == RemovedFrom(i, k, heir)
<1>1. j.rows[k] = None /\ \A l \in Keys \ {k} : j.rows[l] = i.rows[l]
  BY DEF RemovedFrom, Index, Listed
<1> HIDE DEF j
<1>2. Listed(j) = Listed(i) \ {k}
  BY <1>1 DEF Listed
<1>3. SignedIn(j) = SignedIn(i) \ {k}
  BY <1>1, <1>2 DEF SignedIn, Listed
<1> QED
  BY <1>1, <1>2, <1>3 DEF j

LEMMA CopiesCall == VaultInv /\ Copies /\ Call => Copies'
<1> SUFFICES ASSUME VaultInv, Copies, Call PROVE Copies'
  OBVIOUS
<1>0. index \in Index /\ work \in Index
  BY DEF VaultInv, VaultTypeOK
<1>1. ASSUME NEW o \in {"upsert", "reconcile", "migrate"}, NEW s, BeginReconciling(o, s) PROVE Copies'
  <2>1. /\ op' = o /\ at' = "visit" /\ work' = Marked(index) /\ visits' = folder
        /\ UNCHANGED <<index, folder, marker>>
    BY <1>1 DEF BeginReconciling, Begin, disk
  <2>2. Listed(work)' = Listed(index) /\ Listed(index)' = Listed(index)
    BY <1>0, <2>1, MarkedLists DEF Listed
  <2> QED
    BY <2>1, <2>2 DEF Copies, Writing
<1>2. ASSUME NEW o \in {"sign_out", "remove", "profile"}, NEW step \in {"clear", "save"}, NEW k, NEW s,
             BeginOn(o, step, k, s)
      PROVE  Copies'
  <2>1. /\ op' = o /\ at' = step /\ work' = index /\ visits' = {}
        /\ UNCHANGED <<index, folder, marker>>
    BY <1>2 DEF BeginOn, Begin, disk
  <2>2. Listed(work)' = Listed(index) /\ Listed(index)' = Listed(index)
    BY <2>1 DEF Listed
  <2> QED
    BY <2>1, <2>2 DEF Copies, Writing
<1>3. ASSUME NEW i, i.rows = index.rows, Choose(i) PROVE Copies'
  <2>1. index' = i /\ at = "idle" /\ UNCHANGED <<work, visits, op, at, slot, marker, folder>>
    BY <1>3 DEF Choose, task, disk
  <2>2. Listed(work)' = Listed(work) /\ Listed(index)' = Listed(index)
    BY <1>3, <2>1 DEF Listed
  <2> QED
    BY <2>1, <2>2 DEF Copies, Writing
<1>4. ASSUME NEW k \in Keys, SetActive(k) \/ SetPrimary(k) PROVE Copies'
  <2>1. [index EXCEPT !.active = k].rows = index.rows /\ [index EXCEPT !.primary = k].rows = index.rows
    BY <1>0 DEF Index
  <2> QED
    BY <1>3, <1>4, <2>1 DEF SetActive, SetPrimary
<1>5. CASE Reconcile \/ Migrate \/ \E a \in Metas : Upsert(a)
  BY <1>1, <1>5 DEF Reconcile, Migrate, Upsert
<1>6. CASE \E k \in Keys : SignOut(k) \/ Remove(k) \/ UpdateProfile(k)
  BY <1>2, <1>6 DEF SignOut, Remove, UpdateProfile
<1> QED
  BY <1>4, <1>5, <1>6 DEF Call

LEMMA CopiesWork == VaultInv /\ Copies /\ Step => Copies'
<1> SUFFICES ASSUME VaultInv, Copies, Step PROVE Copies'
  OBVIOUS
<1>0. index \in Index /\ work \in Index /\ VaultTypeOK
  BY DEF VaultInv, VaultTypeOK
<1>1. ASSUME NEW k \in Keys, Visit(k) PROVE Copies'
  <2>1. /\ at = "visit" /\ k \in folder /\ visits' \subseteq folder
        /\ UNCHANGED <<index, op, at, slot, marker, folder>>
        /\ work' = IF Adoptable(k) THEN Adopted(work, k, Load(k).account) ELSE work
    BY <1>1 DEF Visit, Copies, disk
  <2>2. Listed(work)' \subseteq folder
    <3>1. CASE Adoptable(k)
      <4>1. Load(k).account \in Metas
        BY <1>0, <3>1, LoadType DEF Adoptable, Slots, Secret
      <4>2. Listed(Adopted(work, k, Load(k).account)) = Listed(work) \union {k}
        BY <1>0, <4>1, EnteredLists
      <4>3. Listed(work)' = Listed(work) \union {k}
        BY <2>1, <3>1, <4>2 DEF Listed
      <4> QED
        BY <2>1, <4>3 DEF Copies
    <3>2. CASE ~Adoptable(k)
      BY <2>1, <3>2 DEF Copies, Listed
    <3> QED
      BY <3>1, <3>2
  <2>3. Listed(index)' = Listed(index) /\ op \notin {"sign_out", "remove", "profile"}
    BY <2>1 DEF Listed, VaultInv, Doing
  <2> QED
    BY <2>1, <2>2, <2>3 DEF Copies, Writing
<1>2. CASE Reconciled
  <2>1. index' = work /\ UNCHANGED <<folder, marker>> /\ at = "visit" /\ op \in {"upsert", "reconcile", "migrate"}
    BY <1>2 DEF Reconciled, disk, VaultInv, Doing
  <2>2. Listed(index)' = Listed(work)
    BY <2>1 DEF Listed
  <2>3. CASE op = "reconcile"
    BY <1>0, <1>2, <2>1, <2>2, <2>3, ReleaseCopies DEF Reconciled, Copies
  <2>4. CASE op # "reconcile"
    <3>1. at' \in {"verify", "assign"} /\ UNCHANGED <<op, slot, work, visits>>
      BY <1>2, <2>4 DEF Reconciled, GoTo
    <3>2. Listed(work)' = Listed(work)
      BY <3>1 DEF Listed
    <3> QED
      BY <2>1, <2>2, <3>1, <3>2 DEF Copies, Writing
  <2> QED
    BY <2>3, <2>4
<1>3. ASSUME NEW k \in Keys, Assign(k) PROVE Copies'
  BY <1>3, CopiesFrame DEF Assign, disk, Writing
<1>4. CASE SaveInKeyring \/ SaveSealed \/ Unseal \/ ClearKeyring
  BY <1>4, CopiesFrame DEF SaveInKeyring, SaveSealed, Unseal, ClearKeyring, GoTo, Writing
<1>5. ASSUME Mark, op # "profile" PROVE Copies'
  BY <1>5, CopiesFrame DEF Mark, GoTo, Writing
<1>6. ASSUME Mark, op = "profile" PROVE Copies'
  <2>1. Release /\ Listed(index)' = Listed(index) /\ folder \subseteq folder'
    BY <1>6 DEF Mark, Listed
  <2> QED
    BY <1>0, <2>1, ReleaseCopies DEF Copies
<1>7. CASE Enter
  <2>1. /\ slot \in folder /\ slot \in Keys /\ session.account \in Metas /\ op \in {"upsert", "migrate"}
    BY <1>0, <1>7 DEF Enter, Copies, VaultTypeOK, VaultInv, Doing, Secret
  <2>2. /\ Listed(Adopted(work, slot, session.account)) = Listed(work) \union {slot}
        /\ Entered(work, slot, session.account).rows = Adopted(work, slot, session.account).rows
    <3>1. work \in Index /\ slot \in Keys /\ session.account \in Metas
      BY <1>0, <2>1
    <3>2. Listed(Adopted(work, slot, session.account)) = Listed(work) \union {slot}
      BY <3>1, EnteredLists
    <3>3. Entered(work, slot, session.account).rows = Adopted(work, slot, session.account).rows
      BY DEF Entered, Adopted
    <3> QED
      BY <3>2, <3>3
  <2>3. Listed(index)' = Listed(work) \union {slot} /\ folder' = folder
    <3>1. Listed(Entered(work, slot, session.account)) = Listed(Adopted(work, slot, session.account))
      BY <2>2, RowsSay
    <3>2. index' = Entered(work, slot, session.account) /\ UNCHANGED folder
      BY <1>7 DEF Enter, disk
    <3>3. Listed(index)' = Listed(Entered(work, slot, session.account))
      BY <3>2 DEF Listed
    <3> QED
      BY <2>2, <3>1, <3>2, <3>3
  <2>4. Listed(index)' \subseteq folder'
    BY <2>1, <2>3 DEF Copies
  <2>5. CASE op = "upsert"
    BY <1>0, <1>7, <2>4, <2>5, ReleaseCopies DEF Enter
  <2>6. CASE op = "migrate"
    <3>1. at' = "recheck" /\ UNCHANGED <<op, work, visits, folder>>
      BY <1>7, <2>6 DEF Enter, GoTo, disk
    <3>2. Listed(work)' = Listed(work)
      BY <3>1 DEF Listed
    <3> QED
      BY <2>4, <2>6, <3>1, <3>2 DEF Copies, Writing
  <2> QED
    BY <2>1, <2>5, <2>6
<1>8. ASSUME NEW k \in Keys, Verify(k) PROVE Copies'
  <2>1. k \in Listed(work) /\ index' = Restored(work, k) /\ at' = "recheck"
        /\ op = "migrate" /\ UNCHANGED <<op, work, visits, folder>>
    BY <1>8 DEF Verify, Held, KeysOf, disk, VaultInv, Doing
  <2>2. Listed(index)' = Listed(work) /\ Listed(work)' = Listed(work)
    BY <1>0, <2>1, RestoredLists DEF Listed
  <2> QED
    BY <2>1, <2>2 DEF Copies, Writing
<1>9. CASE Recheck
  BY <1>9, CopiesFrame DEF Recheck, disk, Writing
<1>10. ASSUME ClearSealed \/ Unmark PROVE Copies'
  <2>1. Listed(index)' = Listed(index) /\ Listed(work) \subseteq folder /\ UNCHANGED <<index, folder>>
    BY <1>10 DEF ClearSealed, Unmark, Listed, Copies
  <2>2. CASE Release
    BY <1>0, <2>1, <2>2, ReleaseCopies DEF Copies
  <2>3. CASE ~Release
    <3>1. at' \in {"unmark", "write"} /\ UNCHANGED <<op, slot, work, visits>>
      BY <1>10, <2>3 DEF ClearSealed, Unmark, GoTo
    <3>2. Listed(work)' = Listed(work) /\ at # "idle"
      BY <1>10, <3>1 DEF Listed, ClearSealed, Unmark
    <3> QED
      BY <2>1, <3>1, <3>2 DEF Copies, Writing
  <2> QED
    BY <2>2, <2>3
<1>11. ASSUME WriteSignedOut \/ WriteRemoved PROVE Copies'
  <2>1. slot \in Listed(work) /\ Release /\ folder' = folder
    BY <1>11 DEF WriteSignedOut, WriteRemoved, disk, VaultInv, Doing
  <2>2. Listed(index)' \subseteq Listed(work)
    BY <1>0, <1>11, <2>1, SignedOutLists, RemovedLists DEF WriteSignedOut, WriteRemoved, Listed
  <2> QED
    BY <1>0, <2>1, <2>2, ReleaseCopies DEF Copies
<1> QED
  BY <1>1, <1>2, <1>3, <1>4, <1>5, <1>6, <1>7, <1>8, <1>9, <1>10, <1>11 DEF Step

LEMMA CopiesStep == VaultInv /\ Copies /\ [Next]_vars => Copies'
<1> SUFFICES ASSUME VaultInv, Copies, [Next]_vars PROVE Copies'
  OBVIOUS
<1>1. CASE Abort
  <2>1. Listed(index)' = Listed(index) /\ UNCHANGED folder /\ Release
    BY <1>1 DEF Abort, disk, Listed
  <2> QED
    BY <2>1, ReleaseCopies DEF Copies, VaultInv
<1>2. CASE Outage \/ (\E a \in Metas : RestoreLegacy(a)) \/ UNCHANGED vars
  <2>1. UNCHANGED <<index, work, visits, op, at, slot, marker, folder>>
    BY <1>2 DEF Outage, RestoreLegacy, vars, task, disk
  <2>2. Listed(index)' = Listed(index) /\ Listed(work)' = Listed(work)
    BY <2>1 DEF Listed
  <2> QED
    BY <2>1, <2>2 DEF Copies
<1> QED
  BY <1>1, <1>2, CopiesCall, CopiesWork DEF Next

LEMMA CopiesInvariant == Spec => [](VaultInv /\ Copies)
<1>1. Init => Copies
  BY CopiesInit
<1>2. VaultInv /\ Copies /\ [Next]_vars => Copies'
  BY CopiesStep
<1> QED
  BY <1>1, <1>2, VaultInvariant, PTL DEF Spec

-----------------------------------------------------------------------------
(* The number of accounts signed in.                                       *)

\* A copy under repair counts no more than the index does, or no more than the
\* limit; an upsert that writes has room for the account it enters.
Counted ==
  /\ at = "visit" => \/ Cardinality(SignedIn(work)) <= Cardinality(SignedIn(index))
                     \/ Cardinality(SignedIn(work)) <= Limit
  /\ at \in Writing /\ op = "upsert" =>
       slot \in SignedIn(work) \/ Cardinality(SignedIn(work)) < Limit

\* The signed-in slots of any index are finitely many.
LEMMA SignedInCount ==
  ASSUME NEW i
  PROVE  IsFiniteSet(SignedIn(i)) /\ Cardinality(SignedIn(i)) \in Nat
<1>1. SignedIn(i) \subseteq Keys
  BY DEF SignedIn, Listed
<1> QED
  BY <1>1, VaultAssumption, FS_Subset, FS_CardinalityType

\* One slot more counts one more at most, and a slot less never more.
LEMMA CountOneMore ==
  ASSUME NEW i, NEW j, NEW k, SignedIn(j) = SignedIn(i) \union {k}
  PROVE  /\ Cardinality(SignedIn(j)) <= Cardinality(SignedIn(i)) + 1
         /\ k \in SignedIn(i) => Cardinality(SignedIn(j)) = Cardinality(SignedIn(i))
BY SignedInCount, FS_AddElement

LEMMA CountLess ==
  ASSUME NEW i, NEW j, SignedIn(j) \subseteq SignedIn(i)
  PROVE  Cardinality(SignedIn(j)) <= Cardinality(SignedIn(i))
BY SignedInCount, FS_Subset

LEMMA CountedStep == VaultInv /\ Copies /\ Counted /\ [Next]_vars => Counted'
<1> SUFFICES ASSUME VaultInv, Copies, Counted, [Next]_vars PROVE Counted'
  OBVIOUS
<1>0. /\ index \in Index /\ work \in Index /\ VaultTypeOK /\ Doing /\ Limit \in Nat
  BY VaultAssumption DEF VaultInv, VaultTypeOK
<1>1. ASSUME at' \notin {"visit"} \union Writing PROVE Counted'
  BY <1>1 DEF Counted
<1>2. ASSUME NEW o, NEW s, BeginReconciling(o, s) PROVE Counted'
  <2>1. at' = "visit" /\ work' = Marked(index) /\ UNCHANGED index
    BY <1>2 DEF BeginReconciling, Begin
  <2>2. SignedIn(work') = SignedIn(index)
    BY <1>0, <2>1, MarkedLists
  <2>3. Cardinality(SignedIn(work')) <= Cardinality(SignedIn(index'))
    BY <2>1, <2>2, SignedInCount
  <2> QED
    BY <2>1, <2>3 DEF Counted, Writing
<1>3. ASSUME NEW o \in {"sign_out", "remove", "profile"}, NEW step \in {"clear", "save"}, NEW k, NEW s,
             BeginOn(o, step, k, s)
      PROVE  Counted'
  BY <1>3 DEF BeginOn, Begin, Counted, Writing
<1>4. ASSUME NEW i, Choose(i) PROVE Counted'
  BY <1>4 DEF Choose, task, Counted, Writing
<1>5. CASE Call
  BY <1>2, <1>3, <1>4, <1>5
  DEF Call, Reconcile, Migrate, Upsert, SignOut, Remove, UpdateProfile, SetActive, SetPrimary
<1>6. ASSUME NEW k \in Keys, Visit(k) PROVE Counted'
  <2>1. /\ at = "visit" /\ at' = at /\ UNCHANGED index
        /\ work' = IF Adoptable(k) THEN Adopted(work, k, Load(k).account) ELSE work
    BY <1>6 DEF Visit
  <2>2. ASSUME Adoptable(k) PROVE Cardinality(SignedIn(work')) <= Limit
    <3>1. Load(k).account \in Metas
      BY <1>0, <2>2, LoadType DEF Adoptable, Slots, Secret
    <3>2. SignedIn(work') = SignedIn(work) \union {k}
      BY <1>0, <2>1, <2>2, <3>1, EnteredLists
    <3>3. Cardinality(SignedIn(work')) <= Cardinality(SignedIn(work)) + 1
      BY <3>2, CountOneMore
    <3> QED
      BY <1>0, <2>2, <3>3, SignedInCount DEF Adoptable
  <2>3. CASE Adoptable(k)
    BY <2>1, <2>2, <2>3 DEF Counted, Writing
  <2>4. CASE ~Adoptable(k)
    BY <2>1, <2>4 DEF Counted, Writing
  <2> QED
    BY <2>3, <2>4
<1>7. ASSUME NEW k \in Keys, Assign(k) PROVE Counted'
  <2>1. HasRoom /\ SlotFor(k) /\ slot' = k /\ UNCHANGED <<op, work>> /\ at' = "save"
    BY <1>7 DEF Assign
  <2>2. ASSUME KeysOf(work, session.account) \intersect SignedIn(work) # {} PROVE k \in SignedIn(work)
    <3>1. PICK l \in KeysOf(work, session.account) \intersect SignedIn(work) : TRUE
      BY <2>2
    <3>2. k \in KeysOf(work, session.account)
      BY <2>1, <2>2 DEF SlotFor
    <3> QED
      BY <3>1, <3>2 DEF VaultInv, Sound, Readable, KeysOf
  <2>3. k \in SignedIn(work) \/ Cardinality(SignedIn(work)) < Limit
    BY <2>1, <2>2 DEF HasRoom
  <2> QED
    BY <2>1, <2>3 DEF Counted, Writing
<1>8. CASE SaveInKeyring \/ SaveSealed \/ Unseal \/ (Mark /\ op # "profile")
  <2>1. at \in Writing /\ at' \in Writing /\ UNCHANGED <<op, slot, work>>
    BY <1>8 DEF SaveInKeyring, SaveSealed, Unseal, Mark, GoTo, Writing
  <2> QED
    BY <2>1 DEF Counted, Writing
<1>9. CASE \/ Reconciled \/ Enter \/ Recheck \/ ClearKeyring \/ ClearSealed \/ Unmark
           \/ WriteSignedOut \/ WriteRemoved \/ (Mark /\ op = "profile") \/ Abort
           \/ \E k \in Keys : Verify(k)
  BY <1>1, <1>9
  DEF Reconciled, Enter, Recheck, ClearKeyring, ClearSealed, Unmark, WriteSignedOut, WriteRemoved,
      Mark, Abort, Verify, Release, GoTo, Writing
<1>10. CASE Outage \/ (\E a \in Metas : RestoreLegacy(a)) \/ UNCHANGED vars
  <2>1. UNCHANGED <<index, work, op, at, slot>>
    BY <1>10 DEF Outage, RestoreLegacy, vars, task
  <2> QED
    BY <2>1 DEF Counted
<1> QED
  BY <1>5, <1>6, <1>7, <1>8, <1>9, <1>10 DEF Next, Step

LEMMA LimitStep ==
  VaultInv /\ Copies /\ Counted /\ [Next]_vars =>
    \/ op = "migrate"
    \/ Cardinality(SignedIn(index')) <= Cardinality(SignedIn(index))
    \/ Cardinality(SignedIn(index')) <= Limit
<1> SUFFICES ASSUME VaultInv, Copies, Counted, [Next]_vars, op # "migrate"
             PROVE  \/ Cardinality(SignedIn(index')) <= Cardinality(SignedIn(index))
                    \/ Cardinality(SignedIn(index')) <= Limit
  OBVIOUS
<1>0. /\ index \in Index /\ work \in Index /\ VaultTypeOK /\ Doing /\ Limit \in Nat
  BY VaultAssumption DEF VaultInv, VaultTypeOK
<1>1. ASSUME SignedIn(index') \subseteq SignedIn(index)
      PROVE  Cardinality(SignedIn(index')) <= Cardinality(SignedIn(index))
  BY <1>1, CountLess
<1>2. ASSUME NEW i, Choose(i), i.rows = index.rows PROVE SignedIn(index') = SignedIn(index)
  BY <1>2, RowsSay DEF Choose
<1>3. ASSUME NEW k \in Keys, SetActive(k) \/ SetPrimary(k) PROVE SignedIn(index') = SignedIn(index)
  <2>1. [index EXCEPT !.active = k].rows = index.rows /\ [index EXCEPT !.primary = k].rows = index.rows
    BY <1>0 DEF Index
  <2> QED
    BY <1>2, <1>3, <2>1 DEF SetActive, SetPrimary
<1>4. CASE Reconciled
  BY <1>4 DEF Reconciled, Counted
<1>5. CASE Enter
  <2>1. /\ index' = Entered(work, slot, session.account) /\ at = "check" /\ op = "upsert"
        /\ slot \in Keys /\ session.account \in Metas
    BY <1>0, <1>5 DEF Enter, Doing, Secret
  <2>2. work = index
    BY <2>1 DEF Copies, Writing
  <2>3. SignedIn(Entered(work, slot, session.account)) = SignedIn(Adopted(work, slot, session.account))
    <3>1. Entered(work, slot, session.account).rows = Adopted(work, slot, session.account).rows
      BY DEF Entered, Adopted
    <3> QED
      BY <3>1, RowsSay
  <2>4. SignedIn(Adopted(work, slot, session.account)) = SignedIn(work) \union {slot}
    BY <1>0, <2>1, EnteredLists
  <2>5. SignedIn(index') = SignedIn(index) \union {slot}
    BY <2>1, <2>2, <2>3, <2>4
  <2>6. slot \in SignedIn(index) \/ Cardinality(SignedIn(index)) < Limit
    BY <2>1, <2>2 DEF Counted, Writing
  <2> QED
    BY <1>0, <2>5, <2>6, CountOneMore, SignedInCount
<1>6. CASE WriteSignedOut \/ WriteRemoved
  <2>1. /\ slot \in Listed(work) /\ work = index
        /\ \/ index' = SignedOutOf(work, slot)
           \/ \E heir \in Heirs(work, slot) : index' = RemovedFrom(work, slot, heir)
    BY <1>0, <1>6 DEF WriteSignedOut, WriteRemoved, Doing, Copies
  <2>2. SignedIn(index') \subseteq SignedIn(index)
    BY <1>0, <2>1, SignedOutLists, RemovedLists
  <2> QED
    BY <1>1, <2>2
<1>7. CASE UNCHANGED index
  BY <1>1, <1>7
<1>8. ASSUME NEW k \in Keys, Verify(k) PROVE FALSE
  BY <1>0, <1>8 DEF Verify, Doing
<1>9. \/ UNCHANGED index \/ Reconciled \/ Enter \/ WriteSignedOut \/ WriteRemoved
      \/ \E k \in Keys : Verify(k) \/ SetActive(k) \/ SetPrimary(k)
  <2>1. CASE Call
    BY <2>1 DEF Call, Reconcile, Migrate, Upsert, SignOut, Remove, UpdateProfile,
                BeginReconciling, BeginOn, Begin
  <2>2. CASE Step
    BY <2>2 DEF Step, Visit, Assign, SaveInKeyring, SaveSealed, Unseal, Mark, Recheck,
                ClearKeyring, ClearSealed, Unmark
  <2>3. CASE Abort \/ Outage \/ (\E a \in Metas : RestoreLegacy(a)) \/ UNCHANGED vars
    BY <2>3 DEF Abort, Outage, RestoreLegacy, vars
  <2> QED
    BY <2>1, <2>2, <2>3 DEF Next
<1> QED
  BY <1>1, <1>3, <1>4, <1>5, <1>6, <1>7, <1>8, <1>9

\* Only a migration ever has more than Limit accounts signed in: repairs never
\* adopt one beyond it, and a sign-in that found room still has it when, some
\* writes later, it is entered.
THEOREM LimitHolds == Spec => LimitKept
<1>1. Init => Counted
  BY DEF Init, Counted, Writing
<1>2. VaultInv /\ Copies /\ Counted /\ [Next]_vars => Counted'
  BY CountedStep
<1>3. VaultInv /\ Copies /\ Counted /\ [Next]_vars =>
        [\/ op = "migrate"
         \/ Cardinality(SignedIn(index')) <= Cardinality(SignedIn(index))
         \/ Cardinality(SignedIn(index')) <= Limit]_vars
  BY LimitStep
<1> QED
  BY <1>1, <1>2, <1>3, CopiesInvariant, PTL DEF Spec, LimitKept

-----------------------------------------------------------------------------
(* The session of the first version.                                       *)

OfAccount(secret, a) == secret # None /\ secret.account = a

\* The old session is in one store, and a migration under way is about it;
\* when it comes to clear the old slot, another slot of the account is usable
\* and holds a session of it.
OldSession ==
  /\ keyring[Legacy] = None \/ sealed[Legacy] = None
  /\ op = "migrate" =>
       /\ session # None
       /\ keyring[Legacy] # None => keyring[Legacy].account = session.account
       /\ sealed[Legacy] # None => sealed[Legacy].account = session.account
  /\ at = "recheck" => slot \in Usable(index) /\ index.rows[slot].account = session.account
  /\ at \in {"clear", "clear_sealed"} /\ op = "migrate" =>
       /\ slot = Legacy
       /\ \E k \in Usable(index) :
            /\ index.rows[k].account = session.account
            /\ OfAccount(keyring[k], session.account) \/ OfAccount(sealed[k], session.account)

\* A step that neither touches the old slot nor comes to clear it.
LEMMA OldSessionFrame ==
  ASSUME OldSession, keyring'[Legacy] = keyring[Legacy], sealed'[Legacy] = sealed[Legacy],
         op' = "migrate" => op = "migrate" /\ session' = session,
         at' # "recheck", at' \in {"clear", "clear_sealed"} => op' # "migrate"
  PROVE  OldSession'
BY DEF OldSession

\* A row given back its account's session is usable.
LEMMA FreshIsUsable ==
  ASSUME NEW i, NEW k \in Keys, NEW a \in Metas, i.rows[k] = Fresh(a)
  PROVE  k \in Usable(i) /\ i.rows[k].account = a
<1>1. Fresh(a) \in Row
  BY DEF Fresh, Row
<1> QED
  BY <1>1, RowIsListed DEF Usable, SignedIn, Listed, Fresh

LEMMA OldSessionStep == VaultInv /\ Copies /\ OldSession /\ [Next]_vars => OldSession'
<1> SUFFICES ASSUME VaultInv, Copies, OldSession, [Next]_vars PROVE OldSession'
  OBVIOUS
<1>0. /\ index \in Index /\ work \in Index /\ VaultTypeOK /\ Doing
      /\ Legacy \notin Keys /\ Legacy \in Slots /\ Keys \subseteq Slots
      /\ keyring \in [Slots -> Secret \union {None}] /\ sealed \in [Slots -> Secret \union {None}]
  BY VaultAssumption DEF VaultInv, VaultTypeOK, Slots
<1>1. ASSUME NEW o \in {"upsert", "reconcile"}, NEW s, BeginReconciling(o, s) PROVE OldSession'
  BY <1>1, OldSessionFrame DEF BeginReconciling, Begin, disk
<1>2. CASE Migrate
  <2>1. /\ Load(Legacy) # None /\ session' = Load(Legacy) /\ at' = "visit"
        /\ UNCHANGED <<keyring, sealed, index>>
    BY <1>2 DEF Migrate, BeginReconciling, Begin, disk
  <2> QED
    BY <2>1 DEF OldSession, Load
<1>3. ASSUME NEW o \in {"sign_out", "remove", "profile"}, NEW step \in {"clear", "save"}, NEW k, NEW s,
             BeginOn(o, step, k, s)
      PROVE  OldSession'
  BY <1>3, OldSessionFrame DEF BeginOn, Begin, disk
<1>4. ASSUME NEW i, Choose(i) PROVE OldSession'
  BY <1>4, OldSessionFrame DEF Choose, task, disk, Copies
<1>5. CASE Call
  BY <1>1, <1>2, <1>3, <1>4, <1>5
  DEF Call, Reconcile, Upsert, SignOut, Remove, UpdateProfile, SetActive, SetPrimary
<1>6. CASE Reconciled \/ \E k \in Keys : Visit(k) \/ Assign(k)
  BY <1>6, OldSessionFrame DEF Visit, Assign, Reconciled, Release, GoTo, disk
<1>7. CASE SaveInKeyring \/ SaveSealed \/ Unseal \/ Mark
  <2>1. slot \in Keys /\ slot # Legacy
    BY <1>0, <1>7 DEF SaveInKeyring, SaveSealed, Unseal, Mark, Doing
  <2>2. keyring'[Legacy] = keyring[Legacy] /\ sealed'[Legacy] = sealed[Legacy]
    BY <1>0, <1>7, <2>1 DEF SaveInKeyring, SaveSealed, Unseal, Mark
  <2> QED
    BY <1>7, <2>2, OldSessionFrame DEF SaveInKeyring, SaveSealed, Unseal, Mark, Release, GoTo
<1>8. CASE Enter
  <2>1. /\ slot \in Keys /\ session.account \in Metas /\ index' = Entered(work, slot, session.account)
        /\ op \in {"upsert", "migrate"} /\ UNCHANGED <<keyring, sealed>>
    BY <1>0, <1>8 DEF Enter, Doing, Secret, disk
  <2>2. CASE op = "upsert"
    BY <1>8, <2>1, <2>2, OldSessionFrame DEF Enter, Release
  <2>3. CASE op = "migrate"
    <3>1. at' = "recheck" /\ UNCHANGED <<op, slot, session>>
      BY <1>8, <2>3 DEF Enter, GoTo
    <3>2. Entered(work, slot, session.account).rows[slot] = Fresh(session.account)
      BY <1>0, <2>1 DEF Entered, Adopted, Index
    <3>3. slot \in Usable(index') /\ index'.rows[slot].account = session.account
      BY <2>1, <3>2, FreshIsUsable
    <3>4. Usable(index') = Usable(index)'
      BY DEF Usable, SignedIn, Listed
    <3> QED
      BY <2>1, <2>3, <3>1, <3>3, <3>4 DEF OldSession
  <2> QED
    BY <2>1, <2>2, <2>3
<1>9. ASSUME NEW k \in Keys, Verify(k) PROVE OldSession'
  <2>1. /\ k \in Listed(work) /\ work.rows[k].account = session.account
        /\ index' = Restored(work, k) /\ at' = "recheck" /\ slot' = k
        /\ session' # None /\ session'.account = session.account
        /\ UNCHANGED <<op, keyring, sealed>>
    BY <1>9 DEF Verify, Held, KeysOf, disk
  <2>2. k \in Usable(index') /\ index'.rows[k].account = session.account
    <3>1. index'.rows[k] = Fresh(session.account) /\ session.account \in Metas
      <4>1. Restored(work, k).rows[k] = Fresh(work.rows[k].account) /\ work.rows[k].account \in Metas
        BY <1>0, <2>1, RestoredLists
      <4> QED
        BY <2>1, <4>1
    <3> QED
      BY <3>1, FreshIsUsable
  <2>3. Usable(index') = Usable(index)'
    BY DEF Usable, SignedIn, Listed
  <2> QED
    BY <2>1, <2>2, <2>3 DEF OldSession
<1>10. CASE Recheck
  <2>1. /\ Load(slot) = session /\ slot \in Usable(index) /\ index.rows[slot].account = session.account
        /\ session \in Secret /\ slot' = Legacy /\ at' = "clear"
        /\ UNCHANGED <<index, op, session, keyring, sealed>>
    BY <1>0, <1>10 DEF Recheck, OldSession, Doing, disk
  <2>2. OfAccount(keyring[slot], session.account) \/ OfAccount(sealed[slot], session.account)
    BY <2>1, VaultAssumption DEF OfAccount, Load
  <2>3. Usable(index)' = Usable(index)
    BY <2>1 DEF Usable, SignedIn, Listed
  <2> QED
    BY <2>1, <2>2, <2>3 DEF OldSession, OfAccount
<1>11. CASE ClearKeyring \/ ClearSealed
  <2>1. op # "migrate" => slot \in Keys
    BY <1>0, <1>11 DEF ClearKeyring, ClearSealed, Doing, Listed
  <2>2. CASE op # "migrate"
    <3>1. keyring'[Legacy] = keyring[Legacy] /\ sealed'[Legacy] = sealed[Legacy]
      BY <1>0, <1>11, <2>1, <2>2 DEF ClearKeyring, ClearSealed
    <3> QED
      BY <1>11, <2>2, <3>1, OldSessionFrame DEF ClearKeyring, ClearSealed, Release, GoTo
  <2>3. CASE op = "migrate" /\ ClearSealed
    <3>1. /\ keyring'[Legacy] = keyring[Legacy] /\ sealed'[Legacy] \in {None, sealed[Legacy]}
          /\ op' = "none" /\ at' = "idle"
      BY <1>0, <2>3 DEF ClearSealed, Release
    <3> QED
      BY <3>1 DEF OldSession
  <2>4. CASE op = "migrate" /\ ClearKeyring
    <3>1. /\ slot = Legacy /\ at = "clear" /\ at' = "clear_sealed"
          /\ UNCHANGED <<op, slot, session, index, sealed>>
      BY <2>4 DEF ClearKeyring, GoTo, OldSession
    <3>2. keyring'[Legacy] \in {None, keyring[Legacy]} /\ \A k \in Keys : keyring'[k] = keyring[k]
      BY <1>0, <2>4, <3>1 DEF ClearKeyring
    <3>3. Usable(index)' = Usable(index) /\ Usable(index) \subseteq Keys
      BY <3>1 DEF Usable, SignedIn, Listed
    <3> QED
      BY <2>4, <3>1, <3>2, <3>3 DEF OldSession, OfAccount
  <2> QED
    BY <1>11, <2>2, <2>3, <2>4
<1>12. CASE Unmark \/ WriteSignedOut \/ WriteRemoved \/ Abort
  BY <1>12, OldSessionFrame DEF Unmark, WriteSignedOut, WriteRemoved, Abort, Release, GoTo, disk
<1>13. CASE \E a \in Metas : RestoreLegacy(a)
  <2>1. /\ keyring[Legacy] = None /\ at = "idle" /\ op = "none"
        /\ UNCHANGED <<keyring, op, at>>
    BY <1>13 DEF RestoreLegacy, task, Copies
  <2> QED
    BY <2>1 DEF OldSession
<1>14. CASE Outage \/ UNCHANGED vars
  <2>1. UNCHANGED <<index, keyring, sealed, op, at, slot, session>>
    BY <1>14 DEF Outage, vars, task, disk
  <2>2. Usable(index)' = Usable(index)
    BY <2>1 DEF Usable, SignedIn, Listed
  <2> QED
    BY <2>1, <2>2 DEF OldSession, OfAccount
<1> QED
  BY <1>5, <1>6, <1>7, <1>8, <1>9, <1>10, <1>11, <1>12, <1>13, <1>14 DEF Next, Step

LEMMA LegacyStep ==
  VaultInv /\ Copies /\ OldSession /\ [Next]_vars =>
    \A a \in Metas :
      \/ /\ OfAccount(keyring[Legacy], a) => keyring'[Legacy] # None
         /\ OfAccount(sealed[Legacy], a) => sealed'[Legacy] # None
      \/ \E k \in KeysOf(index, a) \intersect Usable(index) :
           OfAccount(keyring[k], a) \/ OfAccount(sealed[k], a)
<1> SUFFICES ASSUME VaultInv, Copies, OldSession, [Next]_vars, NEW a \in Metas
             PROVE  \/ /\ OfAccount(keyring[Legacy], a) => keyring'[Legacy] # None
                       /\ OfAccount(sealed[Legacy], a) => sealed'[Legacy] # None
                    \/ \E k \in KeysOf(index, a) \intersect Usable(index) :
                         OfAccount(keyring[k], a) \/ OfAccount(sealed[k], a)
  OBVIOUS
<1>0. /\ Doing /\ Legacy \notin Keys /\ Legacy \in Slots /\ Keys \subseteq Slots
      /\ keyring \in [Slots -> Secret \union {None}] /\ sealed \in [Slots -> Secret \union {None}]
  BY VaultAssumption DEF VaultInv, VaultTypeOK, Slots
<1>1. CASE keyring'[Legacy] = keyring[Legacy] /\ sealed'[Legacy] = sealed[Legacy]
  BY <1>1 DEF OfAccount
<1>2. CASE (ClearKeyring \/ ClearSealed) /\ op = "migrate"
  <2>1. /\ at \in {"clear", "clear_sealed"}
        /\ OfAccount(keyring[Legacy], a) \/ OfAccount(sealed[Legacy], a) => session.account = a
    BY <1>2 DEF OldSession, OfAccount, ClearKeyring, ClearSealed
  <2>2. PICK k \in Usable(index) :
          /\ index.rows[k].account = session.account
          /\ OfAccount(keyring[k], session.account) \/ OfAccount(sealed[k], session.account)
    BY <1>2, <2>1 DEF OldSession
  <2>3. session.account = a => k \in KeysOf(index, a)
    BY <2>2 DEF KeysOf, Usable, SignedIn
  <2> QED
    BY <2>1, <2>2, <2>3
<1>3. CASE \E b \in Metas : RestoreLegacy(b)
  BY <1>3 DEF RestoreLegacy, OfAccount
<1>4. \/ keyring'[Legacy] = keyring[Legacy] /\ sealed'[Legacy] = sealed[Legacy]
      \/ (ClearKeyring \/ ClearSealed) /\ op = "migrate"
      \/ \E b \in Metas : RestoreLegacy(b)
  <2>1. CASE Call
    BY <2>1 DEF Call, Reconcile, Migrate, Upsert, SignOut, Remove, UpdateProfile, SetActive, SetPrimary,
                BeginReconciling, BeginOn, Begin, Choose, disk
  <2>2. CASE SaveInKeyring \/ SaveSealed \/ Unseal
    BY <1>0, <2>2 DEF SaveInKeyring, SaveSealed, Unseal, Doing
  <2>3. CASE ClearKeyring \/ ClearSealed
    BY <1>0, <2>3 DEF ClearKeyring, ClearSealed, Doing, Listed
  <2>4. CASE \/ Reconciled \/ Mark \/ Enter \/ Recheck \/ Unmark \/ WriteSignedOut \/ WriteRemoved
             \/ \E k \in Keys : Visit(k) \/ Assign(k) \/ Verify(k)
    BY <2>4 DEF Visit, Assign, Verify, Reconciled, Mark, Enter, Recheck, Unmark,
                WriteSignedOut, WriteRemoved, disk
  <2>5. CASE Abort \/ Outage \/ UNCHANGED vars
    BY <2>5 DEF Abort, Outage, vars, disk
  <2> QED
    BY <2>1, <2>2, <2>3, <2>4, <2>5 DEF Next, Step
<1> QED
  BY <1>1, <1>2, <1>3, <1>4

LEMMA OldSessionInit == Init => OldSession
<1> SUFFICES ASSUME Init PROVE OldSession
  OBVIOUS
<1> QED
  BY VaultAssumption DEF Init, OldSession, Slots

\* migrate_v1 erases the first version's session only while a usable slot of
\* its account holds a session, for any interruption and any outage.
THEOREM OldSessionKept == Spec => LegacyKept
<1>1. Init => OldSession
  BY OldSessionInit
<1>2. VaultInv /\ Copies /\ OldSession /\ [Next]_vars => OldSession'
  BY OldSessionStep
<1>3. VaultInv /\ Copies /\ OldSession /\ [Next]_vars =>
        [\A a \in Metas :
           LET OfIt(secret) == secret # None /\ secret.account = a
           IN  \/ /\ OfIt(keyring[Legacy]) => keyring'[Legacy] # None
                  /\ OfIt(sealed[Legacy]) => sealed'[Legacy] # None
               \/ \E k \in KeysOf(index, a) \intersect Usable(index) :
                    OfIt(keyring[k]) \/ OfIt(sealed[k])]_vars
  BY LegacyStep DEF OfAccount
<1> QED
  BY <1>1, <1>2, <1>3, CopiesInvariant, PTL DEF Spec, LegacyKept

-----------------------------------------------------------------------------
(* What is true while the keyring does not come and go.                    *)

\* What Load finds, by key.
Found == [k \in Keys |-> Load(k)]

\* A listed slot holds a secret of its own account or none, and no other
\* folder holds one of that account.
Apart(i, found, dirs) ==
  \A k \in Listed(i) :
    /\ found[k] # None => found[k].account = i.rows[k].account
    /\ \A l \in dirs : OfAccount(found[l], i.rows[k].account) => l = k

\* No two folders hold secrets of one account.
OneEach(found, dirs) ==
  \A k, l \in dirs : found[k] # None /\ OfAccount(found[l], found[k].account) => k = l

\* A forgotten account has no row, and no folder has a secret of it.
Gone(i, gone) == \A a \in gone : KeysOf(i, a) = {}
NoTrace(found, dirs, gone) == \A a \in gone, l \in dirs : ~OfAccount(found[l], a)

\* The secrets of the keys are all in one of the two stores.
OneStore ==
  /\ answers => \A k \in Keys : sealed[k] = None
  /\ ~answers => \A k \in Keys : keyring[k] = None
  /\ at = "unseal" => answers

Separate == Apart(index, Found, folder) /\ Apart(work, Found, folder) /\ OneEach(Found, folder)

\* The slot an operation stores in, or has cleared: the account of the session
\* it stores is in no other folder.
Storing ==
  /\ op = "profile" => /\ slot \in Listed(index) /\ index.rows[slot].account = session.account
                       /\ Found[slot] = session
  /\ at \in Writing /\ op # "profile" =>
       \A l \in folder : OfAccount(Found[l], session.account) => l = slot
  /\ at \in {"unseal", "mark", "check"} => Found[slot] = session
  /\ at = "clear_sealed" /\ op # "migrate" => keyring[slot] = None
  /\ at \in {"unmark", "write"} => Found[slot] = None

\* Every folder already visited that holds a session is of a listed account,
\* or there is no room for it.
Visited ==
  /\ at = "assign" => visits = {}
  /\ at \in {"visit", "assign"} =>
       \A l \in folder \ visits :
         Found[l] # None => \/ KeysOf(work, Found[l].account) # {}
                            \/ Limit <= Cardinality(SignedIn(work))

Forgetting ==
  /\ Gone(index, forgotten) /\ Gone(work, forgotten) /\ NoTrace(Found, folder, forgotten)
  /\ op \in {"upsert", "migrate"} => session.account \notin forgotten

\* The slot of an account that finished a sign-in: usable, marked, and holding
\* a session it may be found with.
Keeps(i, k, a) ==
  /\ k \in Usable(i) \intersect marker /\ i.rows[k].account = a
  /\ OfAccount(Found[k], a) /\ Found[k].token \in granted[a]

GrantKept == \A a \in Metas : granted[a] # {} => \E k \in Keys : Keeps(index, k, a)

\* What keeps it so: an upsert may bring the session it stores, a migration
\* stores only where nothing was granted, the copy under repair agrees on the
\* slots with a marker, and a slot is cleared when nothing is granted any more.
Granting ==
  /\ op = "upsert" => granted[session.account] = {} \/ session.token \in granted[session.account]
  /\ op = "migrate" /\ at \in {"assign"} \union Writing => granted[session.account] = {}
  /\ at = "visit" => \A k \in Usable(index) \intersect marker : work.rows[k] = index.rows[k]
  /\ op \in {"sign_out", "remove"} => granted[work.rows[slot].account] = {}

Steady == OneStore /\ Separate /\ Storing /\ Visited /\ Forgetting /\ GrantKept /\ Granting

LEMMA FoundType ==
  ASSUME VaultTypeOK
  PROVE  /\ Found \in [Keys -> Secret \union {None}]
         /\ \A k \in Keys : Found[k] = Load(k)
         /\ \A a \in Metas : ~OfAccount(None, a)
BY LoadType DEF Found, Slots, OfAccount

-----------------------------------------------------------------------------
(* What storing and clearing a secret, or changing a row, preserves.       *)

\* The rows of j are among those of i and of the same accounts.
SameAccounts(i, j) ==
  Listed(j) \subseteq Listed(i) /\ \A k \in Listed(j) : j.rows[k].account = i.rows[k].account

LEMMA SameIsApart ==
  ASSUME NEW i, NEW j, SameAccounts(i, j), NEW found, NEW dirs, Apart(i, found, dirs)
  PROVE  Apart(j, found, dirs)
BY DEF SameAccounts, Apart

LEMMA SameIsGone ==
  ASSUME NEW i, NEW j, SameAccounts(i, j), NEW gone, Gone(i, gone)
  PROVE  Gone(j, gone)
BY DEF SameAccounts, Gone, KeysOf

\* A session is stored in the one slot that fits its account.
LEMMA PutIsApart ==
  ASSUME NEW k \in Keys, NEW s \in Secret, NEW found \in [Keys -> Secret \union {None}],
         NEW dirs \in SUBSET Keys, NEW more \in SUBSET Keys, more \subseteq dirs \union {k},
         \A l \in dirs : OfAccount(found[l], s.account) => l = k,
         NEW i, Fits(i, k, s.account), Apart(i, found, dirs)
  PROVE  Apart(i, [found EXCEPT ![k] = s], more)
<1> DEFINE put == [found EXCEPT ![k] = s]
<1>1. put[k] = s /\ \A l \in Keys : l # k => put[l] = found[l]
  OBVIOUS
<1> HIDE DEF put
<1> SUFFICES ASSUME NEW l \in Listed(i)
             PROVE  /\ put[l] # None => put[l].account = i.rows[l].account
                    /\ \A m \in more : OfAccount(put[m], i.rows[l].account) => m = l
  BY DEF Apart, put
<1>2. l \in Keys /\ (i.rows[l].account = s.account <=> l = k)
  BY DEF Fits, Listed
<1>3. put[l] # None => put[l].account = i.rows[l].account
  BY <1>1, <1>2 DEF Apart
<1>4. ASSUME NEW m \in more, OfAccount(put[m], i.rows[l].account) PROVE m = l
  BY <1>1, <1>2, <1>4 DEF Apart, OfAccount
<1> QED
  BY <1>3, <1>4

LEMMA PutIsOneEach ==
  ASSUME NEW k \in Keys, NEW s \in Secret, NEW found \in [Keys -> Secret \union {None}],
         NEW dirs \in SUBSET Keys, NEW more \in SUBSET Keys, more \subseteq dirs \union {k},
         \A l \in dirs : OfAccount(found[l], s.account) => l = k,
         OneEach(found, dirs)
  PROVE  OneEach([found EXCEPT ![k] = s], more)
<1> DEFINE put == [found EXCEPT ![k] = s]
<1>1. put[k] = s /\ \A l \in Keys : l # k => put[l] = found[l]
  OBVIOUS
<1> HIDE DEF put
<1> SUFFICES ASSUME NEW l \in more, NEW m \in more, put[l] # None, OfAccount(put[m], put[l].account)
             PROVE  l = m
  BY DEF OneEach, put
<1>2. CASE l = k \/ m = k
  BY <1>1, <1>2 DEF OfAccount
<1>3. CASE l # k /\ m # k
  BY <1>1, <1>3 DEF OneEach
<1> QED
  BY <1>2, <1>3

LEMMA PutIsNoTrace ==
  ASSUME NEW k \in Keys, NEW s \in Secret, NEW found \in [Keys -> Secret \union {None}],
         NEW dirs \in SUBSET Keys, NEW more \in SUBSET Keys, more \subseteq dirs \union {k},
         NEW gone, s.account \notin gone, NoTrace(found, dirs, gone)
  PROVE  NoTrace([found EXCEPT ![k] = s], more, gone)
BY DEF NoTrace, OfAccount

\* A slot is cleared.
LEMMA DropIsFine ==
  ASSUME NEW k \in Keys, NEW found \in [Keys -> Secret \union {None}],
         NEW dirs \in SUBSET Keys
  PROVE  /\ \A i : Apart(i, found, dirs) => Apart(i, [found EXCEPT ![k] = None], dirs)
         /\ OneEach(found, dirs) => OneEach([found EXCEPT ![k] = None], dirs)
         /\ \A gone : NoTrace(found, dirs, gone) => NoTrace([found EXCEPT ![k] = None], dirs, gone)
<1> DEFINE drop == [found EXCEPT ![k] = None]
<1>1. drop[k] = None /\ \A l \in Keys : l # k => drop[l] = found[l]
  OBVIOUS
<1> HIDE DEF drop
<1>2. \A l \in Keys : drop[l] = None \/ drop[l] = found[l]
  BY <1>1
<1>3. ASSUME NEW i, Apart(i, found, dirs) PROVE Apart(i, drop, dirs)
  BY <1>2, <1>3 DEF Apart, OfAccount, Listed
<1>4. OneEach(found, dirs) => OneEach(drop, dirs)
  BY <1>2 DEF OneEach, OfAccount
<1>5. ASSUME NEW gone, NoTrace(found, dirs, gone) PROVE NoTrace(drop, dirs, gone)
  BY <1>2, <1>5 DEF NoTrace, OfAccount
<1> QED
  BY <1>3, <1>4, <1>5 DEF drop

\* A row is given to an account.
Gives(i, j, k, a) == j.rows = [i.rows EXCEPT ![k] = Fresh(a)]

LEMMA RowLists ==
  ASSUME NEW i \in Index, NEW j, NEW k \in Keys, NEW a \in Metas, Gives(i, j, k, a)
  PROVE  /\ Listed(j) = Listed(i) \union {k} /\ SignedIn(j) = SignedIn(i) \union {k}
<1>1. Fresh(a) \in Row /\ Fresh(a) # None /\ Fresh(a).signedIn
  <2>1. Fresh(a) \in Row
    BY DEF Fresh, Row
  <2> QED
    BY <2>1, RowIsListed DEF Fresh
<1>2. j.rows[k] = Fresh(a) /\ \A l \in Keys : l # k => j.rows[l] = i.rows[l]
  BY DEF Gives, Index
<1>3. Listed(j) = Listed(i) \union {k}
  BY <1>1, <1>2 DEF Listed
<1>4. SignedIn(j) = SignedIn(i) \union {k}
  BY <1>1, <1>2, <1>3 DEF SignedIn, Listed
<1> QED
  BY <1>3, <1>4

LEMMA RowIsApart ==
  ASSUME NEW i \in Index, NEW j, NEW k \in Keys, NEW a \in Metas, Gives(i, j, k, a),
         NEW found, NEW dirs, OfAccount(found[k], a),
         \A l \in dirs : OfAccount(found[l], a) => l = k,
         Apart(i, found, dirs)
  PROVE  Apart(j, found, dirs)
<1>1. /\ Listed(j) = Listed(i) \union {k} /\ j.rows[k].account = a
      /\ \A l \in Keys : l # k => j.rows[l] = i.rows[l]
  <2>1. Listed(j) = Listed(i) \union {k}
    BY RowLists
  <2> QED
    BY <2>1 DEF Gives, Index, Fresh
<1> SUFFICES ASSUME NEW l \in Listed(j)
             PROVE  /\ found[l] # None => found[l].account = j.rows[l].account
                    /\ \A m \in dirs : OfAccount(found[m], j.rows[l].account) => m = l
  BY DEF Apart
<1>2. CASE l = k
  BY <1>1, <1>2 DEF OfAccount
<1>3. CASE l # k
  <2>1. l \in Listed(i) /\ j.rows[l] = i.rows[l]
    BY <1>1, <1>3 DEF Listed
  <2> QED
    BY <2>1 DEF Apart
<1> QED
  BY <1>2, <1>3

LEMMA RowIsGone ==
  ASSUME NEW i \in Index, NEW j, NEW k \in Keys, NEW a \in Metas, Gives(i, j, k, a),
         NEW gone, a \notin gone, Gone(i, gone)
  PROVE  Gone(j, gone)
<1>1. Listed(j) = Listed(i) \union {k}
  BY RowLists
<1>2. j.rows[k].account = a
  BY DEF Gives, Index, Fresh
<1>3. \A l \in Keys : l # k => j.rows[l] = i.rows[l]
  BY DEF Gives, Index
<1> SUFFICES ASSUME NEW b \in gone, NEW l \in KeysOf(j, b) PROVE FALSE
  BY DEF Gone
<1>4. l \in Listed(j) /\ j.rows[l].account = b /\ l \in Keys /\ l # k
  BY <1>2 DEF KeysOf, Listed
<1>5. l \in KeysOf(i, b)
  BY <1>1, <1>3, <1>4 DEF KeysOf
<1> QED
  BY <1>5 DEF Gone

\* Marking rows keeps their accounts, and the rows with a marker as they are.
LEMMA MarkedAccounts ==
  ASSUME NEW i \in Index
  PROVE  SameAccounts(i, Marked(i)) /\ \A k \in marker \intersect Keys : Marked(i).rows[k] = i.rows[k]
<1> DEFINE m == Marked(i)
<1>1. Listed(m) = Listed(i)
  BY MarkedLists
<1>2. ASSUME NEW k \in Listed(i) PROVE m.rows[k].account = i.rows[k].account
  <2>1. i.rows[k] \in Row /\ k \in Keys
    BY DEF Listed, Index
  <2>2. m.rows[k] = [i.rows[k] EXCEPT !.needsReauth = TRUE] \/ m.rows[k] = i.rows[k]
    BY <2>1 DEF Marked, Index
  <2> QED
    BY <2>1, <2>2 DEF Row
<1>3. \A k \in marker \intersect Keys : m.rows[k] = i.rows[k]
  BY DEF Marked, Index
<1> QED
  BY <1>1, <1>2, <1>3 DEF SameAccounts

-----------------------------------------------------------------------------
(* What one step does to the secrets and to the rows.                      *)

\* A session is stored, or made visible by its folder, in the slot.
Puts ==
  /\ SaveInKeyring \/ SaveSealed \/ Mark
  /\ op \in {"upsert", "migrate"}
  /\ Found' = [Found EXCEPT ![slot] = session]
  /\ folder \subseteq folder' /\ folder' \subseteq folder \union {slot}

\* The slot of an account that signs out or is removed is cleared.
Drops ==
  /\ ClearKeyring \/ ClearSealed
  /\ op \in {"sign_out", "remove"}
  /\ Found' \in {Found, [Found EXCEPT ![slot] = None]} /\ folder' = folder

LEMMA SecretsStep ==
  ASSUME VaultInv, Copies, OldSession, OneStore, Storing, [Next]_vars, answers' = answers
  PROVE  (Found' = Found /\ folder' = folder) \/ Puts \/ Drops
<1>0. /\ VaultTypeOK /\ Doing /\ Legacy \notin Keys /\ Keys \subseteq Slots
      /\ keyring \in [Slots -> Secret \union {None}] /\ sealed \in [Slots -> Secret \union {None}]
      /\ Found \in [Keys -> Secret \union {None}] /\ \A k \in Keys : Found[k] = Load(k)
      /\ answers \in BOOLEAN
  BY VaultAssumption, FoundType DEF VaultInv, VaultTypeOK, Slots
<1>1. ASSUME \A k \in Keys : Load(k)' = Load(k) PROVE Found' = Found
  BY <1>1 DEF Found
<1>2. CASE UNCHANGED <<keyring, sealed, folder>>
  BY <1>1, <1>2 DEF Load
<1>3. CASE SaveInKeyring \/ SaveSealed
  <2>1. /\ slot \in Keys /\ session \in Secret /\ session # None
        /\ op \in {"upsert", "migrate", "profile"} /\ at = "save"
    BY <1>0, <1>3, VaultAssumption DEF SaveInKeyring, SaveSealed, Doing
  <2>2. \A k \in Keys : Load(k)' = IF k = slot THEN session ELSE Load(k)
    <3>1. CASE SaveInKeyring
      BY <1>0, <2>1, <3>1 DEF SaveInKeyring, Load
    <3>2. CASE SaveSealed
      BY <1>0, <2>1, <3>2 DEF SaveSealed, Load
    <3> QED
      BY <1>3, <3>1, <3>2
  <2>3. Found' = [Found EXCEPT ![slot] = session]
    BY <2>2 DEF Found
  <2>4. folder \subseteq folder' /\ folder' \subseteq folder \union {slot}
    BY <1>3 DEF SaveInKeyring, SaveSealed
  <2>5. ASSUME op = "profile" PROVE Found' = Found /\ folder' = folder
    <3>1. Found[slot] = session /\ slot \in folder
      BY <2>5 DEF Storing, Copies
    <3> QED
      BY <1>0, <2>1, <2>3, <2>4, <3>1
  <2> QED
    BY <1>3, <2>1, <2>3, <2>4, <2>5 DEF Puts
<1>4. CASE Unseal
  <2>1. answers /\ slot \in Keys /\ sealed' = [sealed EXCEPT ![slot] = None]
        /\ UNCHANGED <<keyring, folder>>
    BY <1>0, <1>4 DEF Unseal, OneStore, Doing
  <2>2. \A k \in Keys : Load(k)' = Load(k)
    BY <1>0, <2>1 DEF OneStore, Load
  <2> QED
    BY <1>1, <2>1, <2>2
<1>5. CASE Mark
  <2>1. /\ slot \in Keys /\ Found[slot] = session /\ op \in {"upsert", "migrate", "profile"}
        /\ folder' = folder \union {slot} /\ UNCHANGED <<keyring, sealed>>
    BY <1>0, <1>5 DEF Mark, Doing, Storing
  <2>2. Found' = Found
    BY <1>1, <2>1 DEF Load
  <2>3. Found' = [Found EXCEPT ![slot] = session]
    BY <1>0, <2>1, <2>2
  <2>4. op = "profile" => slot \in folder
    BY DEF Storing, Copies
  <2> QED
    BY <1>5, <2>1, <2>2, <2>3, <2>4 DEF Puts
<1>6. CASE ClearKeyring \/ ClearSealed
  <2>1. /\ UNCHANGED folder /\ op \in {"sign_out", "remove", "migrate"}
        /\ op # "migrate" => slot \in Keys
        /\ op = "migrate" => slot \notin Keys
    BY <1>0, <1>6 DEF ClearKeyring, ClearSealed, Doing, Listed, OldSession
  <2>2. \A k \in Slots : k # slot => keyring'[k] = keyring[k] /\ sealed'[k] = sealed[k]
    BY <1>0, <1>6 DEF ClearKeyring, ClearSealed
  <2>3. \A k \in Keys : k # slot => Load(k)' = Load(k)
    BY <1>0, <2>2 DEF Load
  <2>4. ASSUME op = "migrate" PROVE Found' = Found
    BY <1>1, <2>1, <2>3, <2>4
  <2>5. ASSUME op # "migrate" PROVE Found'[slot] \in {None, Found[slot]}
    <3>1. /\ slot \in Keys /\ slot \in Slots
          /\ Found[slot] = IF answers /\ keyring[slot] # None THEN keyring[slot] ELSE sealed[slot]
      BY <1>0, <2>1, <2>5 DEF Load
    <3>2. Found'[slot] = IF answers /\ keyring'[slot] # None THEN keyring'[slot] ELSE sealed'[slot]
      BY <3>1 DEF Found, Load
    <3>3. CASE ClearKeyring
      <4>1. sealed'[slot] = sealed[slot]
            /\ keyring'[slot] = IF answers THEN None ELSE keyring[slot]
        BY <1>0, <3>1, <3>3 DEF ClearKeyring
      <4> QED
        BY <3>1, <3>2, <4>1 DEF OneStore
    <3>4. CASE ClearSealed
      <4>1. keyring'[slot] = keyring[slot] /\ sealed'[slot] = None
        BY <1>0, <3>1, <3>4 DEF ClearSealed
      <4> QED
        BY <3>1, <3>2, <4>1
    <3> QED
      BY <1>6, <3>3, <3>4
  <2>6. ASSUME op # "migrate" PROVE Found' \in {Found, [Found EXCEPT ![slot] = None]}
    <3>1. \A k \in Keys : Found'[k] = Load(k)'
      BY DEF Found
    <3>2. \A k \in Keys : k # slot => Found'[k] = Found[k]
      BY <1>0, <2>3, <3>1
    <3>3. Found' = [k \in Keys |-> Found'[k]] /\ Found = [k \in Keys |-> Found[k]]
      BY DEF Found
    <3>4. [Found EXCEPT ![slot] = None] = [k \in Keys |-> IF k = slot THEN None ELSE Found[k]]
      BY <1>0
    <3>5. CASE Found'[slot] = Found[slot]
      <4>1. \A k \in Keys : Found'[k] = Found[k]
        BY <3>2, <3>5
      <4> QED
        BY <3>3, <4>1
    <3>6. CASE Found'[slot] = None
      <4>1. \A k \in Keys : Found'[k] = IF k = slot THEN None ELSE Found[k]
        BY <3>2, <3>6
      <4> QED
        BY <3>3, <3>4, <4>1
    <3> QED
      BY <2>5, <2>6, <3>5, <3>6
  <2> QED
    BY <1>6, <2>1, <2>4, <2>6 DEF Drops
<1>7. CASE \E a \in Metas : RestoreLegacy(a)
  <2>1. UNCHANGED <<keyring, folder>> /\ \A k \in Keys : sealed'[k] = sealed[k]
    BY <1>0, <1>7 DEF RestoreLegacy
  <2>2. \A k \in Keys : Load(k)' = Load(k)
    BY <2>1 DEF Load
  <2> QED
    BY <1>1, <2>1, <2>2
<1>8. \/ UNCHANGED <<keyring, sealed, folder>> \/ SaveInKeyring \/ SaveSealed \/ Unseal \/ Mark
      \/ ClearKeyring \/ ClearSealed \/ \E a \in Metas : RestoreLegacy(a)
  <2>1. CASE Call
    BY <2>1 DEF Call, Reconcile, Migrate, Upsert, SignOut, Remove, UpdateProfile, SetActive, SetPrimary,
                BeginReconciling, BeginOn, Begin, Choose, disk
  <2>2. CASE Step
    BY <2>2 DEF Step, Visit, Assign, Verify, Reconciled, Enter, Recheck, Unmark,
                WriteSignedOut, WriteRemoved, disk
  <2>3. CASE Abort \/ Outage \/ UNCHANGED vars
    BY <2>3 DEF Abort, Outage, vars, disk
  <2> QED
    BY <2>1, <2>2, <2>3 DEF Next
<1> QED
  BY <1>2, <1>3, <1>4, <1>5, <1>6, <1>7, <1>8

\* The index keeps its accounts, is replaced by the repaired copy, or is given
\* a row for the session just stored.
LEMMA IndexStep ==
  ASSUME VaultInv, Copies, [Next]_vars
  PROVE  \/ SameAccounts(index, index')
         \/ Reconciled /\ index' = work
         \/ /\ Enter /\ Gives(index, index', slot, session.account) /\ work = index
            /\ slot \in Keys /\ session.account \in Metas /\ op \in {"upsert", "migrate"}
            /\ Fits(index, slot, session.account)
<1>0. index \in Index /\ work \in Index /\ VaultTypeOK /\ Doing
  BY DEF VaultInv, VaultTypeOK
<1>1. ASSUME NEW i, i.rows = index.rows PROVE SameAccounts(index, i)
  BY <1>1, RowsSay DEF SameAccounts
<1>2. CASE UNCHANGED index
  BY <1>1, <1>2
<1>3. ASSUME NEW k \in Keys, SetActive(k) \/ SetPrimary(k) PROVE SameAccounts(index, index')
  <2>1. [index EXCEPT !.active = k].rows = index.rows /\ [index EXCEPT !.primary = k].rows = index.rows
    BY <1>0 DEF Index
  <2> QED
    BY <1>1, <1>3, <2>1 DEF SetActive, SetPrimary, Choose
<1>4. CASE Enter
  <2>1. /\ slot \in Keys /\ session.account \in Metas /\ op \in {"upsert", "migrate"}
        /\ Fits(work, slot, session.account) /\ at = "check"
        /\ index' = Entered(work, slot, session.account)
    BY <1>0, <1>4 DEF Enter, Doing, Secret
  <2>2. work = index
    BY <2>1 DEF Copies, Writing
  <2>3. Entered(work, slot, session.account).rows = [work.rows EXCEPT ![slot] = Fresh(session.account)]
    BY DEF Entered, Adopted
  <2> QED
    BY <1>4, <2>1, <2>2, <2>3 DEF Gives
<1>5. ASSUME NEW k \in Keys, Verify(k) PROVE SameAccounts(index, index')
  <2>1. k \in Listed(work) /\ index' = Restored(work, k) /\ work = index
    BY <1>5 DEF Verify, Held, KeysOf, Copies
  <2>2. /\ Listed(Restored(work, k)) = Listed(work)
        /\ \A l \in Keys \ {k} : Restored(work, k).rows[l] = work.rows[l]
        /\ Restored(work, k).rows[k] = Fresh(work.rows[k].account)
    BY <1>0, <2>1, RestoredLists
  <2>3. Restored(work, k).rows[k].account = work.rows[k].account
    BY <2>2 DEF Fresh
  <2> QED
    BY <2>1, <2>2, <2>3 DEF SameAccounts, Listed
<1>6. CASE WriteSignedOut
  <2>1. slot \in Listed(work) /\ work = index /\ index' = SignedOutOf(work, slot)
    BY <1>0, <1>6 DEF WriteSignedOut, Doing, Copies
  <2>2. /\ Listed(SignedOutOf(work, slot)) = Listed(work)
        /\ \A l \in Keys \ {slot} : SignedOutOf(work, slot).rows[l] = work.rows[l]
        /\ SignedOutOf(work, slot).rows[slot].account = work.rows[slot].account
    BY <1>0, <2>1, SignedOutLists
  <2> QED
    BY <2>1, <2>2 DEF SameAccounts, Listed
<1>7. CASE WriteRemoved
  <2>1. slot \in Listed(work) /\ work = index
    BY <1>0, <1>7 DEF WriteRemoved, Doing, Copies
  <2>2. PICK heir \in Heirs(work, slot) : index' = RemovedFrom(work, slot, heir)
    BY <1>7 DEF WriteRemoved
  <2>3. /\ Listed(RemovedFrom(work, slot, heir)) = Listed(work) \ {slot}
        /\ \A l \in Keys \ {slot} : RemovedFrom(work, slot, heir).rows[l] = work.rows[l]
    BY <1>0, <2>1, RemovedLists
  <2> QED
    BY <2>1, <2>2, <2>3 DEF SameAccounts, Listed
<1>8. \/ UNCHANGED index \/ Reconciled \/ Enter \/ WriteSignedOut \/ WriteRemoved
      \/ \E k \in Keys : Verify(k) \/ SetActive(k) \/ SetPrimary(k)
  <2>1. CASE Call
    BY <2>1 DEF Call, Reconcile, Migrate, Upsert, SignOut, Remove, UpdateProfile,
                BeginReconciling, BeginOn, Begin
  <2>2. CASE Step
    BY <2>2 DEF Step, Visit, Assign, SaveInKeyring, SaveSealed, Unseal, Mark, Recheck,
                ClearKeyring, ClearSealed, Unmark
  <2>3. CASE Abort \/ Outage \/ (\E a \in Metas : RestoreLegacy(a)) \/ UNCHANGED vars
    BY <2>3 DEF Abort, Outage, RestoreLegacy, vars
  <2> QED
    BY <2>1, <2>2, <2>3 DEF Next
<1> QED
  BY <1>2, <1>3, <1>4, <1>5, <1>6, <1>7, <1>8 DEF Reconciled

\* The copy stays, is taken from the index, is given back, or adopts the
\* account of a visited folder.
LEMMA WorkStep ==
  ASSUME VaultInv, [Next]_vars
  PROVE  \/ work' = work
         \/ SameAccounts(index, work') /\ at = "idle"
         \/ Listed(work') = {} /\ Release
         \/ \E k \in visits :
              /\ Visit(k) /\ Adoptable(k) /\ k \in Keys
              /\ Gives(work, work', k, Found[k].account)
              /\ Found[k] # None /\ Found[k].account \in Metas
<1>0. index \in Index /\ work \in Index /\ VaultTypeOK /\ Doing
  BY DEF VaultInv, VaultTypeOK
<1>1. ASSUME NEW o, NEW s, BeginReconciling(o, s) PROVE SameAccounts(index, work') /\ at = "idle"
  BY <1>0, <1>1, MarkedAccounts DEF BeginReconciling, Begin
<1>2. ASSUME NEW o, NEW step, NEW k, NEW s, BeginOn(o, step, k, s)
      PROVE  SameAccounts(index, work') /\ at = "idle"
  BY <1>2 DEF BeginOn, Begin, SameAccounts
<1>3. ASSUME Release PROVE Listed(work') = {}
  BY <1>3 DEF Release, EmptyIndex, Listed
<1>4. ASSUME NEW k \in Keys, Visit(k), Adoptable(k)
      PROVE  /\ k \in visits /\ Gives(work, work', k, Found[k].account)
             /\ Found[k] # None /\ Found[k].account \in Metas
  <2>1. Found[k] = Load(k) /\ Load(k) # None /\ Load(k) \in Secret \union {None}
    BY <1>0, <1>4, FoundType, LoadType DEF Adoptable, Slots
  <2>2. k \in visits /\ work' = Adopted(work, k, Load(k).account)
    BY <1>4 DEF Visit
  <2>3. Adopted(work, k, Load(k).account).rows = [work.rows EXCEPT ![k] = Fresh(Load(k).account)]
    BY DEF Adopted
  <2> QED
    BY <2>1, <2>2, <2>3 DEF Gives, Secret
<1>5. ASSUME NEW k \in Keys, Visit(k), ~Adoptable(k) PROVE work' = work
  BY <1>5 DEF Visit
<1>6. CASE Call
  <2>1. CASE Reconcile \/ Migrate \/ (\E a \in Metas : Upsert(a))
    BY <1>1, <2>1 DEF Reconcile, Migrate, Upsert
  <2>2. CASE \E k \in Keys : SignOut(k) \/ Remove(k) \/ UpdateProfile(k)
    BY <1>2, <2>2 DEF SignOut, Remove, UpdateProfile
  <2>3. CASE \E k \in Keys : SetActive(k) \/ SetPrimary(k)
    BY <2>3 DEF SetActive, SetPrimary, Choose, task
  <2> QED
    BY <1>6, <2>1, <2>2, <2>3 DEF Call
<1>7. CASE Step
  <2>1. CASE \/ Reconciled \/ SaveInKeyring \/ SaveSealed \/ Unseal \/ Mark \/ Enter
             \/ Recheck \/ ClearKeyring \/ ClearSealed \/ Unmark
             \/ WriteSignedOut \/ WriteRemoved \/ \E k \in Keys : Assign(k) \/ Verify(k)
    <3>1. work' = work \/ Release
      BY <2>1 DEF Reconciled, SaveInKeyring, SaveSealed, Unseal, Mark, Enter, Recheck, ClearKeyring,
                  ClearSealed, Unmark, WriteSignedOut, WriteRemoved, Assign, Verify, GoTo
    <3> QED
      BY <1>3, <3>1
  <2>2. CASE \E k \in Keys : Visit(k)
    BY <1>4, <1>5, <2>2
  <2> QED
    BY <1>7, <2>1, <2>2 DEF Step
<1>8. CASE Abort
  BY <1>3, <1>8 DEF Abort
<1>9. CASE Outage \/ (\E a \in Metas : RestoreLegacy(a)) \/ UNCHANGED vars
  BY <1>9 DEF Outage, RestoreLegacy, vars, task
<1> QED
  BY <1>6, <1>7, <1>8, <1>9 DEF Next

-----------------------------------------------------------------------------
(* Every step keeps it so.                                                 *)

SteadyInv == VaultInv /\ Copies /\ OldSession /\ Steady

LEMMA OneStoreStep ==
  ASSUME SteadyInv, [Next]_vars, answers' = answers
  PROVE  OneStore'
<1>0. /\ VaultTypeOK /\ Doing /\ OneStore /\ Legacy \notin Keys /\ Keys \subseteq Slots
      /\ keyring \in [Slots -> Secret \union {None}] /\ sealed \in [Slots -> Secret \union {None}]
      /\ answers \in BOOLEAN
  BY VaultAssumption DEF SteadyInv, Steady, VaultInv, VaultTypeOK, Slots
<1>1. CASE SaveInKeyring
  BY <1>0, <1>1 DEF SaveInKeyring, OneStore, GoTo
<1>2. CASE SaveSealed
  <2>1. ~answers /\ at' = "mark" /\ keyring' = keyring
    BY <1>2 DEF SaveSealed, GoTo
  <2> QED
    BY <1>0, <2>1 DEF OneStore
<1>3. CASE Unseal \/ ClearKeyring \/ ClearSealed
  <2>1. /\ \A k \in Keys : keyring'[k] \in {None, keyring[k]} /\ sealed'[k] \in {None, sealed[k]}
        /\ at' # "unseal"
    BY <1>0, <1>3 DEF Unseal, ClearKeyring, ClearSealed, Release, GoTo
  <2> QED
    BY <1>0, <2>1 DEF OneStore
<1>4. CASE \E a \in Metas : RestoreLegacy(a)
  <2>1. /\ keyring' = keyring /\ \A k \in Keys : sealed'[k] = sealed[k]
        /\ at' = at
    BY <1>0, <1>4 DEF RestoreLegacy, task
  <2> QED
    BY <1>0, <2>1 DEF OneStore
<1>5. CASE UNCHANGED <<keyring, sealed>> /\ (at' # "unseal" \/ at' = at)
  BY <1>0, <1>5 DEF OneStore
<1>6. \/ SaveInKeyring \/ SaveSealed \/ Unseal \/ ClearKeyring \/ ClearSealed
      \/ (\E a \in Metas : RestoreLegacy(a))
      \/ UNCHANGED <<keyring, sealed>> /\ (at' # "unseal" \/ at' = at)
  <2>1. CASE Call
    BY <2>1 DEF Call, Reconcile, Migrate, Upsert, SignOut, Remove, UpdateProfile, SetActive, SetPrimary,
                BeginReconciling, BeginOn, Begin, Choose, disk, task
  <2>2. CASE Step
    BY <2>2 DEF Step, Visit, Assign, Verify, Reconciled, Mark, Enter, Recheck, Unmark,
                WriteSignedOut, WriteRemoved, Release, GoTo, disk
  <2>3. CASE Abort \/ Outage \/ UNCHANGED vars
    BY <2>3 DEF Abort, Release, Outage, vars, disk, task
  <2> QED
    BY <2>1, <2>2, <2>3 DEF Next
<1> QED
  BY <1>1, <1>2, <1>3, <1>4, <1>5, <1>6

\* What a step that stores a session finds.
LEMMA PutsWhere ==
  ASSUME SteadyInv, Puts
  PROVE  /\ slot \in Keys /\ session \in Secret /\ session.account \in Metas
         /\ work = index /\ Fits(index, slot, session.account)
         /\ \A l \in folder : OfAccount(Found[l], session.account) => l = slot
         /\ at \in {"save", "mark"} /\ at' \in {"unseal", "mark", "check"}
         /\ UNCHANGED <<index, work, op, slot, session, visits, granted, forgotten>>
         /\ marker \subseteq marker'
<1>1. /\ at \in {"save", "mark"} /\ op # "profile" /\ op \notin {"sign_out", "remove", "profile"}
      /\ at' \in {"unseal", "mark", "check"}
      /\ UNCHANGED <<index, work, op, slot, session, visits, granted, forgotten>> /\ marker \subseteq marker'
  BY DEF Puts, SaveInKeyring, SaveSealed, Mark, GoTo, history
<1>2. slot \in Keys /\ session \in Secret /\ Fits(work, slot, session.account)
  BY <1>1 DEF SteadyInv, VaultInv, Doing
<1>3. work = index
  BY <1>1 DEF SteadyInv, Copies, Writing
<1>4. \A l \in folder : OfAccount(Found[l], session.account) => l = slot
  BY <1>1 DEF SteadyInv, Steady, Storing, Writing
<1> QED
  BY <1>1, <1>2, <1>3, <1>4 DEF Secret

LEMMA SeparateStep ==
  ASSUME SteadyInv, [Next]_vars, answers' = answers
  PROVE  Separate'
<1>0. /\ VaultTypeOK /\ VaultInv /\ Copies /\ OldSession /\ Separate /\ OneStore /\ Storing
      /\ index \in Index /\ work \in Index /\ Doing
      /\ folder \in SUBSET Keys /\ folder' \in SUBSET Keys /\ visits \subseteq folder
      /\ Found \in [Keys -> Secret \union {None}]
  <2>1. VaultInv'
    BY VaultNext DEF SteadyInv
  <2> QED
    BY <2>1, FoundType DEF SteadyInv, Steady, VaultInv, VaultTypeOK, Copies
<1>1. CASE Puts
  <2>1. /\ slot \in Keys /\ session \in Secret /\ work = index /\ Fits(index, slot, session.account)
        /\ \A l \in folder : OfAccount(Found[l], session.account) => l = slot
        /\ UNCHANGED <<index, work>>
    BY <1>1, PutsWhere
  <2>2. Found' = [Found EXCEPT ![slot] = session] /\ folder' \subseteq folder \union {slot}
    BY <1>1 DEF Puts
  <2>3. Apart(index, Found, folder) /\ OneEach(Found, folder)
    BY <1>0 DEF Separate
  <2>4. Apart(index, [Found EXCEPT ![slot] = session], folder')
    BY <1>0, <2>1, <2>2, <2>3, PutIsApart
  <2>5. OneEach([Found EXCEPT ![slot] = session], folder')
    BY <1>0, <2>1, <2>2, <2>3, PutIsOneEach
  <2> QED
    BY <2>1, <2>2, <2>4, <2>5 DEF Separate
<1>2. CASE ~Puts
  <2>1. \/ Found' = Found /\ folder' = folder
        \/ slot \in Keys /\ Found' \in {Found, [Found EXCEPT ![slot] = None]} /\ folder' = folder
    <3>1. Drops => slot \in Keys
      BY <1>0 DEF Drops, ClearKeyring, ClearSealed, Doing, Listed
    <3> QED
      BY <1>0, <1>2, <3>1, SecretsStep DEF Drops
  <2>2. /\ \A i : Apart(i, Found, folder) => Apart(i, Found', folder')
        /\ OneEach(Found', folder')
    <3>1. CASE Found' = Found /\ folder' = folder
      BY <1>0, <3>1 DEF Separate
    <3>2. CASE slot \in Keys /\ Found' = [Found EXCEPT ![slot] = None] /\ folder' = folder
      BY <1>0, <3>2, DropIsFine DEF Separate
    <3> QED
      BY <2>1, <3>1, <3>2
  <2>3. Apart(index', Found, folder)
    <3>1. CASE SameAccounts(index, index')
      BY <1>0, <3>1, SameIsApart DEF Separate
    <3>2. CASE index' = work
      BY <1>0, <3>2 DEF Separate
    <3>3. ASSUME Enter, Gives(index, index', slot, session.account),
                 slot \in Keys, session.account \in Metas, op \in {"upsert", "migrate"}
          PROVE  Apart(index', Found, folder)
      <4>1. Found[slot] = session /\ \A l \in folder : OfAccount(Found[l], session.account) => l = slot
        BY <1>0, <3>3 DEF Enter, Storing, Writing
      <4>2. OfAccount(Found[slot], session.account)
        BY <1>0, <3>3, <4>1, VaultAssumption DEF Enter, Doing, OfAccount
      <4>3. Apart(index, Found, folder)
        BY <1>0 DEF Separate
      <4> QED
        BY <1>0, <3>3, <4>1, <4>2, <4>3, RowIsApart
    <3> QED
      BY <1>0, <3>1, <3>2, <3>3, IndexStep
  <2>4. Apart(work', Found, folder)
    <3>1. CASE work' = work
      BY <1>0, <3>1 DEF Separate
    <3>2. CASE SameAccounts(index, work')
      BY <1>0, <3>2, SameIsApart DEF Separate
    <3>3. CASE Listed(work') = {}
      BY <3>3 DEF Apart
    <3>4. ASSUME NEW k \in visits, k \in Keys, Gives(work, work', k, Found[k].account),
                 Found[k] # None, Found[k].account \in Metas
          PROVE  Apart(work', Found, folder)
      <4>1. k \in folder /\ OfAccount(Found[k], Found[k].account)
        BY <1>0, <3>4 DEF OfAccount
      <4>2. \A l \in folder : OfAccount(Found[l], Found[k].account) => l = k
        BY <1>0, <3>4, <4>1 DEF Separate, OneEach
      <4>3. Apart(work, Found, folder)
        BY <1>0 DEF Separate
      <4> QED
        BY <1>0, <3>4, <4>1, <4>2, <4>3, RowIsApart
    <3> QED
      BY <1>0, <3>1, <3>2, <3>3, <3>4, WorkStep
  <2> QED
    BY <2>2, <2>3, <2>4 DEF Separate
<1> QED
  BY <1>1, <1>2

LEMMA ForgettingStep ==
  ASSUME SteadyInv, [Next]_vars, answers' = answers
  PROVE  Forgetting'
<1>0. /\ VaultTypeOK /\ VaultInv /\ Copies /\ OldSession /\ Separate /\ OneStore /\ Storing /\ Forgetting
      /\ index \in Index /\ work \in Index /\ Doing
      /\ folder \in SUBSET Keys /\ folder' \in SUBSET Keys /\ visits \subseteq folder
      /\ Found \in [Keys -> Secret \union {None}]
  <2>1. VaultInv'
    BY VaultNext DEF SteadyInv
  <2> QED
    BY <2>1, FoundType DEF SteadyInv, Steady, VaultInv, VaultTypeOK, Copies
<1>1. forgotten' \subseteq forgotten \/ WriteRemoved
  <2>1. CASE Call
    BY <2>1 DEF Call, Reconcile, Migrate, Upsert, SignOut, Remove, UpdateProfile, SetActive, SetPrimary,
                Choose, history
  <2>2. CASE Step
    BY <2>2 DEF Step, Visit, Assign, Verify, Reconciled, SaveInKeyring, SaveSealed, Unseal, Mark, Enter,
                Recheck, ClearKeyring, ClearSealed, Unmark, WriteSignedOut, history
  <2>3. CASE Abort \/ Outage \/ (\E a \in Metas : RestoreLegacy(a)) \/ UNCHANGED vars
    BY <2>3 DEF Abort, Outage, RestoreLegacy, vars, history
  <2> QED
    BY <2>1, <2>2, <2>3 DEF Next
<1>2. op' \in {"upsert", "migrate"} => session'.account \notin forgotten'
  <2>1. CASE Call
    <3>1. CASE Migrate \/ \E a \in Metas : Upsert(a)
      BY <3>1 DEF Migrate, Upsert, BeginReconciling, Begin
    <3>2. CASE Reconcile \/ \E k \in Keys : SignOut(k) \/ Remove(k) \/ UpdateProfile(k)
      BY <3>2 DEF Reconcile, SignOut, Remove, UpdateProfile, BeginReconciling, BeginOn, Begin
    <3>3. CASE \E k \in Keys : SetActive(k) \/ SetPrimary(k)
      BY <1>0, <3>3 DEF SetActive, SetPrimary, Choose, task, Copies
    <3> QED
      BY <2>1, <3>1, <3>2, <3>3 DEF Call
  <2>2. ASSUME Step \/ Abort \/ Outage \/ (\E a \in Metas : RestoreLegacy(a)) \/ UNCHANGED vars
        PROVE  \/ op' = "none"
               \/ op' = op /\ session'.account = session.account /\ forgotten' = forgotten
    BY <2>2 DEF Step, Visit, Assign, Verify, Reconciled, SaveInKeyring, SaveSealed, Unseal, Mark, Enter,
                Recheck, ClearKeyring, ClearSealed, Unmark, WriteSignedOut, WriteRemoved, Release, GoTo,
                Abort, Outage, RestoreLegacy, vars, task, history
  <2>3. CASE Step \/ Abort \/ Outage \/ (\E a \in Metas : RestoreLegacy(a)) \/ UNCHANGED vars
    BY <1>0, <2>2, <2>3 DEF Forgetting
  <2> QED
    BY <2>1, <2>3 DEF Next
<1>3. Gone(index', forgotten)
  <2>1. CASE SameAccounts(index, index')
    BY <1>0, <2>1, SameIsGone DEF Forgetting
  <2>2. CASE index' = work
    BY <1>0, <2>2 DEF Forgetting
  <2>3. ASSUME Gives(index, index', slot, session.account),
               slot \in Keys, session.account \in Metas, op \in {"upsert", "migrate"}
        PROVE  Gone(index', forgotten)
    BY <1>0, <2>3, RowIsGone DEF Forgetting
  <2> QED
    BY <1>0, <2>1, <2>2, <2>3, IndexStep
<1>4. Gone(work', forgotten)
  <2>1. CASE work' = work
    BY <1>0, <2>1 DEF Forgetting
  <2>2. CASE SameAccounts(index, work')
    BY <1>0, <2>2, SameIsGone DEF Forgetting
  <2>3. CASE Listed(work') = {}
    BY <2>3 DEF Gone, KeysOf
  <2>4. ASSUME NEW k \in visits, k \in Keys, Gives(work, work', k, Found[k].account),
               Found[k] # None, Found[k].account \in Metas
        PROVE  Gone(work', forgotten)
    <3>1. Found[k].account \notin forgotten
      BY <1>0, <2>4 DEF Forgetting, NoTrace, OfAccount
    <3>2. Gone(work, forgotten)
      BY <1>0 DEF Forgetting
    <3> QED
      BY <1>0, <2>4, <3>1, <3>2, RowIsGone
  <2> QED
    BY <1>0, <2>1, <2>2, <2>3, <2>4, WorkStep
<1>5. NoTrace(Found', folder', forgotten)
  <2>0. NoTrace(Found, folder, forgotten)
    BY <1>0 DEF Forgetting
  <2>1. CASE Found' = Found /\ folder' = folder
    BY <2>0, <2>1
  <2>2. CASE Puts
    <3>1. /\ slot \in Keys /\ session \in Secret /\ session.account \notin forgotten
          /\ Found' = [Found EXCEPT ![slot] = session] /\ folder' \subseteq folder \union {slot}
      BY <1>0, <2>2, PutsWhere DEF Puts, Forgetting
    <3>2. NoTrace([Found EXCEPT ![slot] = session], folder', forgotten)
      BY <1>0, <2>0, <3>1, PutIsNoTrace
    <3> QED
      BY <3>1, <3>2
  <2>3. CASE Drops
    <3>1. slot \in Keys /\ Found' \in {Found, [Found EXCEPT ![slot] = None]} /\ folder' = folder
      BY <1>0, <2>3 DEF Drops, ClearKeyring, ClearSealed, Doing, Listed
    <3>2. NoTrace([Found EXCEPT ![slot] = None], folder, forgotten)
      BY <1>0, <2>0, <3>1, DropIsFine
    <3> QED
      BY <2>0, <3>1, <3>2
  <2> QED
    BY <1>0, <2>1, <2>2, <2>3, SecretsStep
<1>6. CASE forgotten' \subseteq forgotten
  BY <1>2, <1>3, <1>4, <1>5, <1>6 DEF Forgetting, Gone, NoTrace
<1>7. CASE WriteRemoved
  <2> DEFINE a == work.rows[slot].account
  <2>1. /\ slot \in Listed(work) /\ work = index /\ at = "write" /\ Release
        /\ forgotten' = forgotten \union {a} /\ UNCHANGED <<keyring, sealed, folder, answers>>
    BY <1>0, <1>7 DEF WriteRemoved, Doing, Copies, disk, env
  <2>2. Found' = Found
    BY <2>1 DEF Found, Load
  <2>3. PICK heir : index' = RemovedFrom(work, slot, heir)
    BY <1>7 DEF WriteRemoved
  <2>4. KeysOf(index', a) = {}
    <3>1. /\ Listed(RemovedFrom(work, slot, heir)) = Listed(work) \ {slot}
          /\ \A l \in Keys \ {slot} : RemovedFrom(work, slot, heir).rows[l] = work.rows[l]
      BY <1>0, <2>1, RemovedLists
    <3>2. \A l \in Listed(work) : work.rows[l].account = a => l = slot
      BY <1>0, <2>1 DEF VaultInv, Sound, Readable
    <3> HIDE DEF a
    <3> QED
      BY <2>3, <3>1, <3>2 DEF KeysOf, Listed
  <2>5. ASSUME NEW l \in folder, OfAccount(Found[l], a) PROVE FALSE
    <3>1. l = slot
      BY <1>0, <2>1, <2>5 DEF Separate, Apart
    <3>2. Found[slot] = None
      BY <1>0, <2>1 DEF Storing
    <3> QED
      BY <2>5, <3>1, <3>2 DEF OfAccount
  <2>6. KeysOf(work', a) = {}
    BY <2>1 DEF Release, EmptyIndex, KeysOf, Listed
  <2> HIDE DEF a
  <2> QED
    BY <1>2, <1>3, <1>4, <1>5, <2>1, <2>2, <2>4, <2>5, <2>6 DEF Forgetting, Gone, NoTrace
<1> QED
  BY <1>1, <1>6, <1>7

LEMMA VisitedStep ==
  ASSUME SteadyInv, [Next]_vars, answers' = answers
  PROVE  Visited'
<1>0. /\ VaultTypeOK /\ VaultInv /\ Copies /\ OldSession /\ Separate /\ OneStore /\ Storing /\ Visited
      /\ index \in Index /\ work \in Index /\ Doing /\ Limit \in Nat
      /\ folder \in SUBSET Keys /\ visits \subseteq folder
      /\ Found \in [Keys -> Secret \union {None}] /\ \A k \in Keys : Found[k] = Load(k)
  BY VaultAssumption, FoundType DEF SteadyInv, Steady, VaultInv, VaultTypeOK, Copies
<1>1. CASE at' \notin {"visit", "assign"}
  BY <1>1 DEF Visited
<1>2. ASSUME at' \in {"visit", "assign"} PROVE Found' = Found /\ folder' = folder
  <2>1. ~Puts /\ ~Drops
    BY <1>2, PutsWhere DEF Puts, Drops, ClearKeyring, ClearSealed, SaveInKeyring, SaveSealed, Mark, Release, GoTo
  <2> QED
    BY <1>0, <2>1, SecretsStep
<1>3. ASSUME NEW o, NEW s, BeginReconciling(o, s) PROVE Visited'
  <2>1. at' = "visit" /\ visits' = folder
    BY <1>3 DEF BeginReconciling, Begin
  <2> QED
    BY <1>2, <2>1 DEF Visited
<1>4. ASSUME NEW k \in Keys, Visit(k) PROVE Visited'
  <2>1. /\ at = "visit" /\ at' = "visit" /\ k \in visits /\ visits' = visits \ {k}
        /\ Adoptable(k) \/ work' = work
    BY <1>4 DEF Visit
  <2>2. Found' = Found /\ folder' = folder
    BY <1>2, <2>1
  <2>3. ASSUME Adoptable(k)
        PROVE  /\ \A a : KeysOf(work, a) \subseteq KeysOf(work', a)
               /\ Found[k] # None => KeysOf(work', Found[k].account) # {}
               /\ Cardinality(SignedIn(work)) <= Cardinality(SignedIn(work'))
    <3>1. work' = Adopted(work, k, Found[k].account) /\ Found[k].account \in Metas /\ k \notin Listed(work)
      <4>1. Load(k) \in Secret \union {None} /\ Load(k) # None /\ Found[k] = Load(k)
        BY <1>0, <2>3, LoadType DEF Adoptable, Slots
      <4> QED
        BY <1>4, <2>3, <4>1 DEF Visit, Adoptable, Secret
    <3>2. Gives(work, work', k, Found[k].account)
      BY <3>1 DEF Adopted, Gives
    <3>3. /\ Listed(work') = Listed(work) \union {k} /\ SignedIn(work') = SignedIn(work) \union {k}
          /\ work'.rows[k].account = Found[k].account
          /\ \A l \in Keys : l # k => work'.rows[l] = work.rows[l]
      <4>1. work \in Index /\ Found[k].account \in Metas
        BY <1>0, <3>1
      <4>2. Listed(work') = Listed(work) \union {k}
        BY <3>2, <4>1, RowLists
      <4>3. SignedIn(work') = SignedIn(work) \union {k}
        BY <3>2, <4>1, RowLists
      <4>4. work'.rows[k].account = Found[k].account
        BY <3>2, <4>1 DEF Gives, Index, Fresh
      <4>5. \A l \in Keys : l # k => work'.rows[l] = work.rows[l]
        BY <3>2, <4>1 DEF Gives, Index
      <4> QED
        BY <4>2, <4>3, <4>4, <4>5
    <3>4. \A a : KeysOf(work, a) \subseteq KeysOf(work', a)
      BY <3>1, <3>3 DEF KeysOf, Listed
    <3>5. k \in KeysOf(work', Found[k].account)
      BY <3>3 DEF KeysOf
    <3>6. Cardinality(SignedIn(work)) <= Cardinality(SignedIn(work'))
      BY <3>3, CountLess
    <3> QED
      BY <3>4, <3>5, <3>6
  <2>4. ASSUME ~Adoptable(k), Found[k] # None
        PROVE  KeysOf(work, Found[k].account) # {} \/ Limit <= Cardinality(SignedIn(work))
    <3>1. CASE k \in Listed(work)
      <4>1. Found[k].account = work.rows[k].account
        BY <1>0, <2>4, <3>1 DEF Separate, Apart
      <4> QED
        BY <3>1, <4>1 DEF KeysOf
    <3>2. CASE k \notin Listed(work)
      BY <1>0, <2>4, <3>2, SignedInCount DEF Adoptable
    <3> QED
      BY <3>1, <3>2
  <2>5. ASSUME NEW l \in folder \ visits', Found[l] # None
        PROVE  KeysOf(work', Found[l].account) # {} \/ Limit <= Cardinality(SignedIn(work'))
    <3>1. CASE l = k
      BY <2>1, <2>3, <2>4, <2>5, <3>1
    <3>2. CASE l # k
      <4>1. KeysOf(work, Found[l].account) # {} \/ Limit <= Cardinality(SignedIn(work))
        BY <1>0, <2>1, <2>5, <3>2 DEF Visited
      <4>2. /\ KeysOf(work, Found[l].account) \subseteq KeysOf(work', Found[l].account)
            /\ Cardinality(SignedIn(work)) <= Cardinality(SignedIn(work'))
        BY <2>1, <2>3, SignedInCount
      <4> QED
        BY <1>0, <4>1, <4>2, SignedInCount
    <3> QED
      BY <3>1, <3>2
  <2> QED
    BY <2>1, <2>2, <2>5 DEF Visited
<1>5. CASE Reconciled
  <2>1. at = "visit" /\ visits = {} /\ (at' = "assign" => UNCHANGED <<work, visits>>) /\ at' # "visit"
    BY <1>5 DEF Reconciled, GoTo, Release
  <2> QED
    BY <1>0, <1>1, <1>2, <2>1 DEF Visited
<1>6. CASE UNCHANGED <<at, work, visits>>
  BY <1>0, <1>1, <1>2, <1>6 DEF Visited
<1>7. \/ at' \notin {"visit", "assign"} \/ UNCHANGED <<at, work, visits>> \/ Reconciled
      \/ (\E o, s : BeginReconciling(o, s)) \/ \E k \in Keys : Visit(k)
  <2>1. CASE Call
    BY <2>1 DEF Call, Reconcile, Migrate, Upsert, SignOut, Remove, UpdateProfile, SetActive, SetPrimary,
                Choose, BeginOn, Begin, task
  <2>2. CASE Step
    BY <2>2 DEF Step, Assign, Verify, SaveInKeyring, SaveSealed, Unseal, Mark, Enter,
                Recheck, ClearKeyring, ClearSealed, Unmark, WriteSignedOut, WriteRemoved, Release, GoTo
  <2>3. CASE Abort \/ Outage \/ (\E a \in Metas : RestoreLegacy(a)) \/ UNCHANGED vars
    BY <2>3 DEF Abort, Release, Outage, RestoreLegacy, vars, task
  <2> QED
    BY <2>1, <2>2, <2>3 DEF Next
<1> QED
  BY <1>1, <1>3, <1>4, <1>5, <1>6, <1>7

LEMMA StoringStep ==
  ASSUME SteadyInv, [Next]_vars, answers' = answers
  PROVE  Storing'
<1>0. /\ VaultTypeOK /\ VaultInv /\ Copies /\ OldSession /\ Separate /\ OneStore /\ Storing /\ Visited
      /\ index \in Index /\ work \in Index /\ Doing /\ Limit \in Nat
      /\ folder \in SUBSET Keys /\ Keys \subseteq Slots /\ answers \in BOOLEAN
      /\ keyring \in [Slots -> Secret \union {None}] /\ sealed \in [Slots -> Secret \union {None}]
      /\ Found \in [Keys -> Secret \union {None}] /\ \A k \in Keys : Found[k] = Load(k)
  BY VaultAssumption, FoundType DEF SteadyInv, Steady, VaultInv, VaultTypeOK, Copies, Slots
<1>1. ASSUME op' # "profile", at' \notin Writing \union {"clear_sealed", "unmark", "write"}
      PROVE  Storing'
  BY <1>1 DEF Storing, Writing
<1>2. ASSUME ~Puts, ~Drops PROVE Found' = Found /\ folder' = folder
  BY <1>0, <1>2, SecretsStep
<1>3. ASSUME NEW k \in Keys, UpdateProfile(k) PROVE Storing'
  <2>1. /\ k \in Listed(index) /\ index' = index /\ slot' = k /\ session' = Load(k)
        /\ Load(k).account = index.rows[k].account /\ op' = "profile" /\ at' = "save"
        /\ UNCHANGED <<keyring, sealed, answers>>
    BY <1>3 DEF UpdateProfile, BeginOn, Begin, Usable, SignedIn, disk, env
  <2>2. Found' = Found /\ Found[k] = Load(k)
    BY <1>0, <2>1 DEF Found, Load
  <2> QED
    BY <2>1, <2>2 DEF Storing
<1>4. ASSUME NEW k \in Keys, Assign(k) PROVE Storing'
  <2>1. /\ at = "assign" /\ at' = "save" /\ slot' = k /\ UNCHANGED <<op, session, work, index>>
        /\ HasRoom /\ SlotFor(k) /\ op \in {"upsert", "migrate"} /\ session \in Secret
        /\ UNCHANGED <<keyring, sealed, answers, folder>>
    BY <1>0, <1>4 DEF Assign, Doing, disk, env
  <2>2. Found' = Found
    BY <2>1 DEF Found, Load
  <2>3. ASSUME NEW l \in folder, OfAccount(Found[l], session.account) PROVE l = k
    <3>1. Found[l] # None /\ Found[l].account = session.account
      BY <2>3 DEF OfAccount
    <3>2. KeysOf(work, session.account) # {} \/ Limit <= Cardinality(SignedIn(work))
      BY <1>0, <2>1, <3>1 DEF Visited
    <3>3. KeysOf(work, session.account) # {}
      BY <1>0, <2>1, <3>2, SignedInCount DEF HasRoom
    <3>4. k \in Listed(work) /\ work.rows[k].account = session.account
      BY <2>1, <3>3 DEF SlotFor, KeysOf
    <3> QED
      BY <1>0, <2>3, <3>4 DEF Separate, Apart
  <2> QED
    BY <2>1, <2>2, <2>3 DEF Storing
<1>5. ASSUME Puts PROVE Storing'
  <2>1. /\ slot \in Keys /\ session \in Secret
        /\ \A l \in folder : OfAccount(Found[l], session.account) => l = slot
        /\ at' \in {"unseal", "mark", "check"} /\ UNCHANGED <<op, slot, session>>
    BY <1>0, <1>5, PutsWhere DEF SteadyInv
  <2>2. /\ Found' = [Found EXCEPT ![slot] = session] /\ folder' \subseteq folder \union {slot}
        /\ op \in {"upsert", "migrate"}
    BY <1>5 DEF Puts
  <2>3. Found'[slot] = session /\ \A l \in folder : l # slot => Found'[l] = Found[l]
    BY <1>0, <2>1, <2>2
  <2>4. \A l \in folder' : OfAccount(Found'[l], session.account) => l = slot
    BY <2>1, <2>2, <2>3
  <2> QED
    BY <2>1, <2>2, <2>3, <2>4 DEF Storing
<1>6. ASSUME ~Puts, SaveInKeyring \/ SaveSealed \/ Unseal \/ Mark PROVE Storing'
  <2>1. Found' = Found /\ folder' = folder
    BY <1>2, <1>6 DEF Drops, ClearKeyring, ClearSealed, SaveInKeyring, SaveSealed, Unseal, Mark
  <2>2. /\ at \in {"save", "unseal", "mark"} /\ index' = index
        /\ \/ at' = "idle" /\ op' = "none"
           \/ at' \in {"unseal", "mark", "check"} /\ UNCHANGED <<op, slot, session>>
    BY <1>6 DEF SaveInKeyring, SaveSealed, Unseal, Mark, GoTo, Release
  <2>3. op = "profile" \/ at # "save"
    <3>1. ASSUME op # "profile", at = "save" PROVE FALSE
      <4>1. SaveInKeyring \/ SaveSealed
        BY <1>6, <3>1 DEF Unseal, Mark
      <4>2. slot \in Keys /\ op \in {"upsert", "migrate"} /\ session \in Secret /\ session # None
        BY <1>0, <3>1, VaultAssumption DEF Doing
      <4>3. \A k \in Keys : Load(k)' = IF k = slot THEN session ELSE Load(k)
        <5>1. CASE SaveInKeyring
          BY <1>0, <4>2, <5>1 DEF SaveInKeyring, Load
        <5>2. CASE SaveSealed
          BY <1>0, <4>2, <5>2 DEF SaveSealed, Load
        <5> QED
          BY <4>1, <5>1, <5>2
      <4>4. Found' = [Found EXCEPT ![slot] = session]
        BY <4>3 DEF Found
      <4>5. folder \subseteq folder' /\ folder' \subseteq folder \union {slot}
        BY <4>1 DEF SaveInKeyring, SaveSealed
      <4> QED
        BY <1>6, <4>1, <4>2, <4>4, <4>5 DEF Puts
    <3> QED
      BY <3>1
  <2>4. Found[slot] = session
    BY <1>0, <2>2, <2>3 DEF Storing
  <2>5. CASE at' = "idle" /\ op' = "none"
    BY <1>1, <2>5 DEF Writing
  <2>6. CASE at' \in {"unseal", "mark", "check"} /\ UNCHANGED <<op, slot, session>>
    <3>1. /\ op = "profile" => slot \in Listed(index') /\ index'.rows[slot].account = session.account
          /\ op # "profile" => \A l \in folder : OfAccount(Found[l], session.account) => l = slot
      BY <1>0, <2>2 DEF Storing, Writing
    <3> QED
      BY <2>1, <2>4, <2>6, <3>1 DEF Storing
  <2> QED
    BY <2>2, <2>5, <2>6
<1>7. CASE ClearKeyring
  <2>1. /\ at' = "clear_sealed" /\ UNCHANGED <<op, slot, session>> /\ op \in {"sign_out", "remove", "migrate"}
        /\ op # "migrate" => slot \in Keys
    BY <1>0, <1>7 DEF ClearKeyring, GoTo, Doing, Listed
  <2>2. op # "migrate" => keyring'[slot] = None
    BY <1>0, <1>7, <2>1 DEF ClearKeyring, OneStore
  <2> QED
    BY <2>1, <2>2 DEF Storing, Writing
<1>8. CASE ClearSealed
  <2>1. CASE op = "migrate"
    BY <1>1, <1>8, <2>1 DEF ClearSealed, Release, Writing
  <2>2. CASE op # "migrate"
    <3>1. /\ at' = "unmark" /\ slot \in Keys /\ op' \in {"sign_out", "remove"} /\ slot' = slot
          /\ keyring'[slot] = None /\ sealed'[slot] = None
      BY <1>0, <1>8, <2>2 DEF ClearSealed, GoTo, Doing, Listed, Storing
    <3>2. Found'[slot] = None
      BY <3>1 DEF Found, Load
    <3> QED
      BY <3>1, <3>2 DEF Storing, Writing
  <2> QED
    BY <2>1, <2>2
<1>9. CASE Unmark
  <2>1. /\ at = "unmark" /\ at' = "write" /\ UNCHANGED <<op, slot, keyring, sealed, answers>>
        /\ op \in {"sign_out", "remove"}
    BY <1>0, <1>9 DEF Unmark, GoTo, Doing, env
  <2>2. Found' = Found /\ Found[slot] = None
    BY <1>0, <2>1 DEF Found, Load, Storing
  <2> QED
    BY <2>1, <2>2 DEF Storing, Writing
<1>10. CASE UNCHANGED vars
  <2>1. UNCHANGED <<index, keyring, sealed, folder, answers, op, at, slot, session>>
    BY <1>10 DEF vars, disk, task, env
  <2>2. Found' = Found /\ Listed(index') = Listed(index)
    BY <2>1 DEF Found, Load
  <2> QED
    BY <1>0, <2>1, <2>2 DEF Storing
<1>11. \/ op' # "profile" /\ at' \notin Writing \union {"clear_sealed", "unmark", "write"}
       \/ (\E k \in Keys : UpdateProfile(k) \/ Assign(k))
       \/ SaveInKeyring \/ SaveSealed \/ Unseal \/ Mark \/ ClearKeyring \/ ClearSealed \/ Unmark
       \/ UNCHANGED vars
  <2>1. CASE Call
    <3>1. CASE Reconcile \/ Migrate \/ \E a \in Metas : Upsert(a)
      BY <3>1 DEF Reconcile, Migrate, Upsert, BeginReconciling, Begin, Writing
    <3>2. CASE \E k \in Keys : SignOut(k) \/ Remove(k)
      BY <3>2 DEF SignOut, Remove, BeginOn, Begin, Writing
    <3>3. CASE \E k \in Keys : SetActive(k) \/ SetPrimary(k)
      BY <1>0, <3>3 DEF SetActive, SetPrimary, Choose, task, Copies, Writing
    <3> QED
      BY <2>1, <3>1, <3>2, <3>3 DEF Call
  <2>2. CASE Step
    <3>1. CASE Reconciled \/ (\E k \in Keys : Visit(k) \/ Verify(k)) \/ Recheck
      <4>1. op' # "profile" /\ at' \in {"visit", "verify", "assign", "recheck", "clear", "idle"}
        BY <1>0, <3>1 DEF Reconciled, Visit, Verify, Recheck, Release, GoTo, Doing
      <4> QED
        BY <4>1 DEF Writing
    <3>2. CASE Enter
      <4>1. op' # "profile" /\ at' \in {"recheck", "idle"}
        BY <1>0, <3>2 DEF Enter, Release, GoTo, Doing
      <4> QED
        BY <4>1 DEF Writing
    <3>3. CASE WriteSignedOut \/ WriteRemoved
      BY <3>3 DEF WriteSignedOut, WriteRemoved, Release, Writing
    <3> QED
      BY <2>2, <3>1, <3>2, <3>3 DEF Step
  <2>3. CASE Abort
    BY <2>3 DEF Abort, Release, Writing
  <2>4. CASE Outage
    <3>1. CASE answers = TRUE
      BY <2>4, <3>1 DEF Outage
    <3>2. CASE answers = FALSE
      BY <2>4, <3>2 DEF Outage
    <3> QED
      BY <1>0, <3>1, <3>2
  <2>5. CASE \E a \in Metas : RestoreLegacy(a)
    BY <1>0, <2>5 DEF RestoreLegacy, task, Copies, Writing
  <2> QED
    BY <2>1, <2>2, <2>3, <2>4, <2>5 DEF Next
<1> QED
  BY <1>1, <1>3, <1>4, <1>5, <1>6, <1>7, <1>8, <1>9, <1>10, <1>11

\* The slot that keeps a granted account keeps it, unless a sign-in brings the
\* account a new session.
LEMMA GrantKeptStep ==
  ASSUME SteadyInv, [Next]_vars, answers' = answers
  PROVE  GrantKept'
<1>0. /\ VaultTypeOK /\ VaultInv /\ Copies /\ OldSession /\ Separate /\ OneStore /\ Storing /\ GrantKept
      /\ Granting /\ index \in Index /\ work \in Index /\ Doing
      /\ folder \in SUBSET Keys /\ granted \in [Metas -> SUBSET (0..MaxOps)]
      /\ Found \in [Keys -> Secret \union {None}]
  BY FoundType DEF SteadyInv, Steady, VaultInv, VaultTypeOK, Copies
<1> SUFFICES ASSUME NEW a \in Metas, granted'[a] # {}
             PROVE  \E k \in Keys : /\ k \in Usable(index') \intersect marker' /\ index'.rows[k].account = a
                                    /\ OfAccount(Found'[k], a) /\ Found'[k].token \in granted'[a]
  BY DEF GrantKept, Keeps
<1>1. ASSUME Enter, session.account = a
      PROVE  \E k \in Keys : /\ k \in Usable(index') \intersect marker' /\ index'.rows[k].account = a
                             /\ OfAccount(Found'[k], a) /\ Found'[k].token \in granted'[a]
  <2>1. /\ at = "check" /\ slot \in Keys /\ session \in Secret /\ session # None
        /\ slot \in marker /\ Found[slot] = session
    BY <1>0, <1>1, VaultAssumption DEF Enter, Doing, Copies, Storing
  <2>2. /\ index' = Entered(work, slot, a) /\ granted' = [granted EXCEPT ![a] = {session.token}]
        /\ UNCHANGED <<keyring, sealed, marker, answers>>
    BY <1>1 DEF Enter, disk, env
  <2>3. Found' = Found
    BY <2>2 DEF Found, Load
  <2>4. Entered(work, slot, a).rows[slot] = Fresh(a)
    BY <1>0, <2>1 DEF Entered, Adopted, Index
  <2>5. slot \in Usable(index') /\ index'.rows[slot].account = a
    BY <2>1, <2>2, <2>4, FreshIsUsable
  <2>6. granted'[a] = {session.token}
    BY <1>0, <2>2
  <2> QED
    BY <1>1, <2>1, <2>2, <2>3, <2>5, <2>6 DEF OfAccount
<1>2. ASSUME ~(Enter /\ session.account = a) PROVE granted[a] # {} /\ granted[a] \subseteq granted'[a]
  <2>1. CASE granted' = granted
    BY <2>1
  <2>2. CASE Enter
    BY <1>0, <1>2, <2>2 DEF Enter
  <2>3. ASSUME NEW b \in Metas, Upsert(b) PROVE granted[a] # {} /\ granted[a] \subseteq granted'[a]
    BY <1>0, <2>3 DEF Upsert
  <2>4. ASSUME NEW k \in Keys, SignOut(k) \/ Remove(k) PROVE granted[a] # {} /\ granted[a] \subseteq granted'[a]
    BY <1>0, <2>4 DEF SignOut, Remove
  <2>5. \/ granted' = granted \/ Enter \/ (\E b \in Metas : Upsert(b)) \/ (\E k \in Keys : SignOut(k) \/ Remove(k))
    <3>1. CASE Call
      BY <3>1 DEF Call, Reconcile, Migrate, UpdateProfile, SetActive, SetPrimary, Choose, history
    <3>2. CASE Step
      BY <3>2 DEF Step, Visit, Assign, Verify, Reconciled, SaveInKeyring, SaveSealed, Unseal, Mark,
                  Recheck, ClearKeyring, ClearSealed, Unmark, WriteSignedOut, WriteRemoved, history
    <3>3. CASE Abort \/ Outage \/ (\E b \in Metas : RestoreLegacy(b)) \/ UNCHANGED vars
      BY <3>3 DEF Abort, Outage, RestoreLegacy, vars, history
    <3> QED
      BY <3>1, <3>2, <3>3 DEF Next
  <2> QED
    BY <2>1, <2>2, <2>3, <2>4, <2>5
<1>3. CASE ~(Enter /\ session.account = a)
  <2>1. PICK w \in Keys : Keeps(index, w, a)
    BY <1>0, <1>2, <1>3 DEF GrantKept
  <2>2. /\ w \in Usable(index) /\ w \in marker /\ w \in Listed(index) /\ index.rows[w].account = a
        /\ OfAccount(Found[w], a) /\ Found[w].token \in granted[a]
        /\ granted[a] # {} /\ granted[a] \subseteq granted'[a]
    BY <1>2, <1>3, <2>1 DEF Keeps, Usable, SignedIn
  <2>3. ASSUME op \in {"sign_out", "remove"}, at # "idle" PROVE w # slot
    <3>1. work = index /\ granted[work.rows[slot].account] = {}
      BY <1>0, <2>3 DEF Copies, Granting
    <3> QED
      BY <2>2, <3>1
  <2>4. w \in marker'
    <3>1. CASE marker \subseteq marker'
      BY <2>2, <3>1
    <3>2. CASE Unmark
      <4>1. op \in {"sign_out", "remove"} /\ at # "idle" /\ marker' = marker \ {slot}
        BY <1>0, <3>2 DEF Unmark, Doing
      <4> QED
        BY <2>2, <2>3, <4>1
    <3>3. marker \subseteq marker' \/ Unmark
      <4>1. CASE Call
        BY <4>1 DEF Call, Reconcile, Migrate, Upsert, SignOut, Remove, UpdateProfile, SetActive, SetPrimary,
                    Choose, BeginReconciling, BeginOn, Begin, disk
      <4>2. CASE Step
        BY <4>2 DEF Step, Visit, Assign, Verify, Reconciled, SaveInKeyring, SaveSealed, Unseal, Mark, Enter,
                    Recheck, ClearKeyring, ClearSealed, WriteSignedOut, WriteRemoved, disk
      <4>3. CASE Abort \/ Outage \/ (\E b \in Metas : RestoreLegacy(b)) \/ UNCHANGED vars
        BY <4>3 DEF Abort, Outage, RestoreLegacy, vars, disk
      <4> QED
        BY <4>1, <4>2, <4>3 DEF Next
    <3> QED
      BY <3>1, <3>2, <3>3
  <2>5. OfAccount(Found'[w], a) /\ Found'[w].token \in granted[a]
    <3>1. CASE Found' = Found
      BY <2>2, <3>1
    <3>2. CASE Puts
      <4>1. /\ slot \in Keys /\ session \in Secret /\ session.account \in Metas
            /\ Fits(index, slot, session.account)
            /\ at \in {"save", "mark"} /\ Found' = [Found EXCEPT ![slot] = session]
            /\ op \in {"upsert", "migrate"} /\ session # None
        BY <3>2, PutsWhere, VaultAssumption DEF Puts
      <4>2. CASE w = slot
        <5>1. session.account = a
          BY <2>2, <4>1, <4>2 DEF Fits
        <5>2. session.token \in granted[a]
          BY <1>0, <2>2, <4>1, <5>1 DEF Granting, Writing
        <5> QED
          BY <1>0, <4>1, <4>2, <5>1, <5>2 DEF OfAccount
      <4>3. CASE w # slot
        BY <1>0, <2>2, <4>1, <4>3
      <4> QED
        BY <4>2, <4>3
    <3>3. CASE Drops
      <4>1. op \in {"sign_out", "remove"} /\ at # "idle"
        BY <3>3 DEF Drops, ClearKeyring, ClearSealed
      <4>2. w # slot
        BY <2>3, <4>1
      <4> QED
        BY <1>0, <2>2, <3>3, <4>2 DEF Drops
    <3> QED
      BY <1>0, <3>1, <3>2, <3>3, SecretsStep
  <2>6. index'.rows[w] = index.rows[w] \/ index'.rows[w] = Fresh(a)
    <3>1. ASSUME NEW i, i.rows = index.rows, Choose(i) PROVE index'.rows[w] = index.rows[w]
      BY <3>1 DEF Choose
    <3>2. CASE \E k \in Keys : SetActive(k) \/ SetPrimary(k)
      <4>1. \A k : [index EXCEPT !.active = k].rows = index.rows /\ [index EXCEPT !.primary = k].rows = index.rows
        BY <1>0 DEF Index
      <4> QED
        BY <3>1, <3>2, <4>1 DEF SetActive, SetPrimary
    <3>3. CASE Reconciled
      BY <1>0, <2>2, <3>3 DEF Reconciled, Granting
    <3>4. CASE Enter
      <4>1. /\ slot \in Keys /\ Fits(work, slot, session.account) /\ work = index
            /\ index' = Entered(work, slot, session.account) /\ session.account # a
        BY <1>0, <1>3, <3>4 DEF Enter, Doing, Copies, Writing
      <4>2. w # slot
        BY <2>2, <4>1 DEF Fits
      <4>3. Entered(work, slot, session.account).rows[w] = work.rows[w]
        BY <1>0, <4>2 DEF Entered, Adopted, Index
      <4> QED
        BY <4>1, <4>3
    <3>5. ASSUME NEW k \in Keys, Verify(k) PROVE index'.rows[w] = index.rows[w] \/ index'.rows[w] = Fresh(a)
      <4>1. k \in Listed(work) /\ index' = Restored(work, k) /\ work = index
        BY <1>0, <3>5 DEF Verify, Held, KeysOf, Copies
      <4>2. /\ \A l \in Keys \ {k} : Restored(work, k).rows[l] = work.rows[l]
            /\ Restored(work, k).rows[k] = Fresh(work.rows[k].account)
        BY <1>0, <4>1, RestoredLists
      <4> QED
        BY <2>2, <4>1, <4>2
    <3>6. CASE WriteSignedOut \/ WriteRemoved
      <4>1. /\ slot \in Listed(work) /\ work = index /\ at # "idle" /\ op \in {"sign_out", "remove"}
            /\ index' = SignedOutOf(work, slot) \/ \E heir : index' = RemovedFrom(work, slot, heir)
        BY <1>0, <3>6 DEF WriteSignedOut, WriteRemoved, Doing, Copies
      <4>2. w # slot
        BY <2>3, <4>1
      <4>3. SignedOutOf(work, slot).rows[w] = work.rows[w]
        BY <1>0, <4>1, <4>2, SignedOutLists
      <4>4. \A heir : RemovedFrom(work, slot, heir).rows[w] = work.rows[w]
        BY <1>0, <4>1, <4>2, RemovedLists
      <4> QED
        BY <4>1, <4>3, <4>4
    <3>7. \/ UNCHANGED index \/ Reconciled \/ Enter \/ WriteSignedOut \/ WriteRemoved
          \/ \E k \in Keys : Verify(k) \/ SetActive(k) \/ SetPrimary(k)
      <4>1. CASE Call
        BY <4>1 DEF Call, Reconcile, Migrate, Upsert, SignOut, Remove, UpdateProfile,
                    BeginReconciling, BeginOn, Begin
      <4>2. CASE Step
        BY <4>2 DEF Step, Visit, Assign, SaveInKeyring, SaveSealed, Unseal, Mark, Recheck,
                    ClearKeyring, ClearSealed, Unmark
      <4>3. CASE Abort \/ Outage \/ (\E b \in Metas : RestoreLegacy(b)) \/ UNCHANGED vars
        BY <4>3 DEF Abort, Outage, RestoreLegacy, vars
      <4> QED
        BY <4>1, <4>2, <4>3 DEF Next
    <3> QED
      BY <3>2, <3>3, <3>4, <3>5, <3>6, <3>7
  <2>7. w \in Usable(index') /\ index'.rows[w].account = a
    <3>1. CASE index'.rows[w] = Fresh(a)
      BY <3>1, FreshIsUsable
    <3>2. CASE index'.rows[w] = index.rows[w]
      BY <2>2, <3>2 DEF Usable, SignedIn, Listed
    <3> QED
      BY <2>6, <3>1, <3>2
  <2> QED
    BY <2>2, <2>4, <2>5, <2>7
<1> QED
  BY <1>1, <1>3

LEMMA GrantingStep ==
  ASSUME SteadyInv, [Next]_vars
  PROVE  Granting'
<1>0. /\ VaultTypeOK /\ VaultInv /\ Copies /\ GrantKept /\ Granting
      /\ index \in Index /\ work \in Index /\ Doing
      /\ granted \in [Metas -> SUBSET (0..MaxOps)] /\ marker \in SUBSET Keys
  BY DEF SteadyInv, Steady, VaultInv, VaultTypeOK
<1>1. ASSUME op' \notin {"upsert", "migrate", "sign_out", "remove"}, at' # "visit" PROVE Granting'
  BY <1>1 DEF Granting
<1>2. ASSUME NEW o \in {"upsert", "reconcile", "migrate"}, NEW s, BeginReconciling(o, s), marker' = marker,
             o = "upsert" => granted'[s.account] = {} \/ s.token \in granted'[s.account]
      PROVE  Granting'
  <2>1. /\ op' = o /\ at' = "visit" /\ session' = s /\ work' = Marked(index) /\ index' = index
    BY <1>2 DEF BeginReconciling, Begin
  <2>2. \A k \in marker \intersect Keys : Marked(index).rows[k] = index.rows[k]
    BY <1>0, MarkedAccounts
  <2> QED
    BY <1>0, <1>2, <2>1, <2>2 DEF Granting, Writing
<1>3. ASSUME NEW a \in Metas, Upsert(a) PROVE Granting'
  <2> DEFINE s == [account |-> a, token |-> ops + 1]
  <2>1. s.account = a /\ s.token = ops + 1
    OBVIOUS
  <2>2. granted'[a] = {} \/ ops + 1 \in granted'[a]
    BY <1>0, <1>3 DEF Upsert
  <2>3. BeginReconciling("upsert", s) /\ marker' = marker
    BY <1>3 DEF Upsert, BeginReconciling, Begin, disk
  <2> HIDE DEF s
  <2> QED
    BY <1>2, <2>1, <2>2, <2>3
<1>4. CASE Reconcile \/ Migrate
  <2>1. marker' = marker
    BY <1>4 DEF Reconcile, Migrate, BeginReconciling, Begin, disk
  <2> QED
    BY <1>2, <1>4, <2>1 DEF Reconcile, Migrate
<1>5. ASSUME NEW k \in Keys, SignOut(k) \/ Remove(k) PROVE Granting'
  <2>1. /\ k \in Listed(index) /\ work' = index /\ slot' = k /\ op' \in {"sign_out", "remove"}
        /\ at' = "clear" /\ granted' = [granted EXCEPT ![index.rows[k].account] = {}]
    BY <1>5 DEF SignOut, Remove, BeginOn, Begin
  <2>2. index.rows[k].account \in Metas
    <3>1. index.rows[k] \in Row
      BY <1>0, <2>1 DEF Listed, Index
    <3> QED
      BY <3>1 DEF Row
  <2>3. granted'[index.rows[k].account] = {}
    BY <1>0, <2>1, <2>2
  <2> QED
    BY <2>1, <2>3 DEF Granting
<1>6. ASSUME NEW k \in Keys, Visit(k) PROVE Granting'
  <2>1. /\ at = "visit" /\ op \in {"upsert", "reconcile", "migrate"}
        /\ UNCHANGED <<at, op, session, index, granted, marker>>
        /\ work' = IF Adoptable(k) THEN Adopted(work, k, Load(k).account) ELSE work
    BY <1>0, <1>6 DEF Visit, Doing, disk, history
  <2>2. ASSUME NEW l \in Usable(index) \intersect marker PROVE work'.rows[l] = index.rows[l]
    <3>1. work.rows[l] = index.rows[l] /\ l \in Keys /\ l \in Listed(work)
      BY <1>0, <2>1, <2>2 DEF Granting, Usable, SignedIn, Listed
    <3>2. CASE Adoptable(k)
      <4>1. l # k /\ work' = Adopted(work, k, Load(k).account)
        BY <2>1, <3>1, <3>2 DEF Adoptable
      <4>2. Adopted(work, k, Load(k).account).rows[l] = work.rows[l]
        BY <1>0, <3>1, <4>1 DEF Adopted, Index
      <4> QED
        BY <3>1, <4>1, <4>2
    <3>3. CASE ~Adoptable(k)
      BY <2>1, <3>1, <3>3
    <3> QED
      BY <3>2, <3>3
  <2>3. Usable(index') = Usable(index)
    BY <2>1
  <2> QED
    BY <1>0, <2>1, <2>2, <2>3 DEF Granting, Writing
<1>7. CASE Reconciled
  <2>1. CASE op = "reconcile"
    BY <1>1, <1>7, <2>1 DEF Reconciled, Release
  <2>2. CASE op = "upsert"
    <3>1. at' \in {"verify", "assign"} /\ UNCHANGED <<op, session, granted>>
      BY <1>7, <2>2 DEF Reconciled, GoTo, history
    <3> QED
      BY <1>0, <2>2, <3>1 DEF Granting
  <2>3. CASE op = "migrate"
    <3>1. /\ at = "visit" /\ UNCHANGED <<op, session, granted>>
          /\ at' = IF \E k \in Keys : Held(k) THEN "verify" ELSE "assign"
      BY <1>7, <2>3 DEF Reconciled, GoTo, history
    <3>2. session.account \in Metas
      BY <1>0, <2>3, <3>1 DEF Doing, Secret
    <3>3. ASSUME at' = "assign", granted[session.account] # {} PROVE FALSE
      <4>1. PICK k \in Keys : Keeps(index, k, session.account)
        BY <1>0, <3>2, <3>3 DEF GrantKept
      <4>2. /\ k \in marker /\ k \in Listed(index) /\ work.rows[k] = index.rows[k]
            /\ index.rows[k].account = session.account
        BY <1>0, <3>1, <4>1 DEF Keeps, Granting, Usable, SignedIn
      <4>3. Held(k)
        BY <4>2 DEF Held, KeysOf, Listed
      <4> QED
        BY <3>1, <3>3, <4>3
    <3> QED
      BY <2>3, <3>1, <3>3 DEF Granting, Writing
  <2> QED
    BY <1>0, <1>7, <2>1, <2>2, <2>3 DEF Reconciled, Doing
<1>8. CASE Enter
  <2>1. CASE op = "upsert"
    BY <1>1, <1>8, <2>1 DEF Enter, Release
  <2>2. CASE op = "migrate"
    <3>1. at' = "recheck" /\ op' = "migrate"
      BY <1>8, <2>2 DEF Enter, GoTo
    <3> QED
      BY <3>1 DEF Granting, Writing
  <2> QED
    BY <1>0, <1>8, <2>1, <2>2 DEF Enter, Doing
<1>9. CASE SaveInKeyring \/ SaveSealed \/ Unseal \/ Mark
  <2>1. CASE Release
    BY <1>1, <2>1 DEF Release
  <2>2. CASE ~Release
    <3>1. /\ at \in Writing /\ at' \in Writing /\ UNCHANGED <<op, work, granted, session, slot>>
          /\ at' # "visit"
      BY <1>9, <2>2 DEF SaveInKeyring, SaveSealed, Unseal, Mark, GoTo, history, Writing
    <3> QED
      BY <1>0, <3>1 DEF Granting
  <2> QED
    BY <2>1, <2>2
<1>10. CASE ClearKeyring \/ ClearSealed \/ Unmark
  <2>1. CASE Release
    BY <1>1, <2>1 DEF Release
  <2>2. CASE ~Release
    <3>1. at' \in {"clear_sealed", "unmark", "write"} /\ UNCHANGED <<op, work, granted, session, slot>>
      BY <1>10, <2>2 DEF ClearKeyring, ClearSealed, Unmark, GoTo, history
    <3> QED
      BY <1>0, <3>1 DEF Granting, Writing
  <2> QED
    BY <2>1, <2>2
<1>11. CASE Recheck \/ \E k \in Keys : Assign(k) \/ Verify(k)
  <2>1. CASE \E k \in Keys : Assign(k)
    <3>1. /\ at = "assign" /\ at' = "save" /\ UNCHANGED <<op, work, granted, session>>
          /\ op \in {"upsert", "migrate"}
      BY <1>0, <2>1 DEF Assign, history, Doing
    <3> QED
      BY <1>0, <3>1 DEF Granting, Writing
  <2>2. CASE Recheck \/ \E k \in Keys : Verify(k)
    <3>1. at' \in {"clear", "recheck"} /\ op' = "migrate"
      BY <1>0, <2>2 DEF Recheck, Verify, Doing
    <3> QED
      BY <3>1 DEF Granting, Writing
  <2> QED
    BY <1>11, <2>1, <2>2
<1>12. CASE Outage \/ (\E a \in Metas : RestoreLegacy(a)) \/ UNCHANGED vars
  <2>1. UNCHANGED <<op, at, work, granted, session, slot, index, marker>>
    BY <1>12 DEF Outage, RestoreLegacy, vars, task, disk, history
  <2>2. Usable(index') = Usable(index)
    BY <2>1
  <2> QED
    BY <1>0, <2>1, <2>2 DEF Granting
<1>13. CASE Abort \/ WriteSignedOut \/ WriteRemoved
  BY <1>1, <1>13 DEF Abort, WriteSignedOut, WriteRemoved, Release
<1>14. ASSUME NEW k \in Keys, UpdateProfile(k) PROVE Granting'
  BY <1>1, <1>14 DEF UpdateProfile, BeginOn, Begin
<1>15. ASSUME NEW k \in Keys, SetActive(k) \/ SetPrimary(k) PROVE Granting'
  BY <1>0, <1>1, <1>15 DEF SetActive, SetPrimary, Choose, task, Copies
<1> QED
  BY <1>3, <1>4, <1>5, <1>6, <1>7, <1>8, <1>9, <1>10, <1>11, <1>12, <1>13, <1>14, <1>15
  DEF Next, Call, Step

LEMMA SteadyInit == Init => Steady
<1> SUFFICES ASSUME Init PROVE Steady
  OBVIOUS
<1>0. VaultInv /\ Legacy \notin Keys /\ Keys \subseteq Slots
  BY VaultInit, VaultAssumption DEF Slots
<1>1. Listed(index) = {} /\ Listed(work) = {} /\ folder = {} /\ visits = {} /\ op = "none" /\ at = "idle"
  BY DEF Init, EmptyIndex, Listed
<1>2. OneStore
  BY <1>0, <1>1 DEF Init, OneStore
<1>3. GrantKept
  BY DEF Init, GrantKept
<1>4. Separate /\ Storing /\ Visited
  BY <1>1 DEF Separate, Apart, OneEach, Storing, Visited, Writing
<1>5. Forgetting /\ Granting
  BY <1>1 DEF Init, Forgetting, Gone, NoTrace, Granting
<1> QED
  BY <1>2, <1>3, <1>4, <1>5 DEF Steady

\* An outage counts, so while none is counted the keyring answers, or does not,
\* as it did at the start.
LEMMA SteadyStep ==
  VaultInv /\ Copies /\ OldSession /\ (outages = 0 => Steady) /\ [Next]_vars => (outages = 0 => Steady)'
<1> SUFFICES ASSUME VaultInv, Copies, OldSession, outages = 0 => Steady, [Next]_vars, outages' = 0
             PROVE  Steady'
  OBVIOUS
<1>1. outages = 0 /\ answers' = answers
  <2>1. outages \in Nat
    BY VaultAssumption DEF VaultInv, VaultTypeOK
  <2>2. ~Outage
    BY <2>1 DEF Outage
  <2>3. CASE Call
    BY <2>3 DEF Call, Reconcile, Migrate, Upsert, SignOut, Remove, UpdateProfile, SetActive, SetPrimary,
                Choose, BeginReconciling, BeginOn, Begin, env
  <2>4. CASE Step
    BY <2>4 DEF Step, Visit, Assign, Verify, Reconciled, SaveInKeyring, SaveSealed, Unseal, Mark, Enter,
                Recheck, ClearKeyring, ClearSealed, Unmark, WriteSignedOut, WriteRemoved, env
  <2>5. CASE Abort \/ (\E a \in Metas : RestoreLegacy(a)) \/ UNCHANGED vars
    BY <2>5 DEF Abort, RestoreLegacy, vars, env
  <2> QED
    BY <2>2, <2>3, <2>4, <2>5 DEF Next
<1>2. SteadyInv
  BY <1>1 DEF SteadyInv
<1>3. OneStore' /\ Separate' /\ Forgetting'
  BY <1>1, <1>2, OneStoreStep, SeparateStep, ForgettingStep
<1>4. Storing' /\ Visited'
  BY <1>1, <1>2, StoringStep, VisitedStep
<1>5. GrantKept' /\ Granting'
  BY <1>1, <1>2, GrantKeptStep, GrantingStep
<1> QED
  BY <1>3, <1>4, <1>5 DEF Steady

LEMMA SteadyInvariant == Spec => [](VaultInv /\ (outages = 0 => Steady))
<1>1. Init => OldSession /\ Copies /\ (outages = 0 => Steady)
  BY OldSessionInit, CopiesInit, SteadyInit
<1>2. VaultInv /\ Copies /\ OldSession /\ [Next]_vars => OldSession'
  BY OldSessionStep
<1>3. VaultInv /\ Copies /\ OldSession /\ (outages = 0 => Steady) /\ [Next]_vars => (outages = 0 => Steady)'
  BY SteadyStep
<1> QED
  BY <1>1, <1>2, <1>3, CopiesInvariant, PTL DEF Spec

\* While the keyring does not come and go, an account that finished a sign-in
\* and was not signed out or removed is usable with the session of its last
\* sign-in: no interruption, repair or older copy takes it away.
THEOREM SessionsAreKept == Spec => []KeptSessions
<1>1. VaultInv /\ (outages = 0 => Steady) => KeptSessions
  <2> SUFFICES ASSUME VaultInv, Steady, NEW a \in Metas, granted[a] # {}
               PROVE  \E k \in Usable(index) : /\ index.rows[k].account = a
                                               /\ Load(k) # None
                                               /\ Load(k).account = a /\ Load(k).token \in granted[a]
    BY DEF KeptSessions
  <2>1. PICK k \in Keys : Keeps(index, k, a)
    BY DEF Steady, GrantKept
  <2>2. Found[k] = Load(k)
    BY DEF Found
  <2> QED
    BY <2>1, <2>2 DEF Keeps, OfAccount
<1> QED
  BY <1>1, SteadyInvariant, PTL

\* While the keyring does not come and go, a removed account stays out of the
\* index until it signs in again: no folder is left that a repair could adopt.
THEOREM RemovedStayForgotten == Spec => []ForgottenWhenReachable
<1>1. VaultInv /\ (outages = 0 => Steady) => ForgottenWhenReachable
  BY DEF Steady, Forgetting, Gone, ForgottenWhenReachable, RemovedIsForgotten
<1> QED
  BY <1>1, SteadyInvariant, PTL
=============================================================================
