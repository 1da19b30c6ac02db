------------------------------ MODULE JobList ------------------------------
(***************************************************************************)
(* What the download queue promises its user, without threads, entries or  *)
(* files: a list of rows, each a job and how far it is.  A row is asked    *)
(* for, waits, runs and ends; no more rows run than there are slots, and   *)
(* never two of one game; the end of the process, orderly or not, costs no *)
(* row that had something left to do, nor its place in the list.  The next *)
(* start may forget rows, where that is allowed, but adds or moves none.   *)
(***************************************************************************)
EXTENDS Naturals, Sequences, FiniteSets

CONSTANTS
  Requests,  (* the jobs that may be asked for                             *)
  Restored,  (* the jobs of the first start                                *)
  Keys,      (* accounts that may take over the jobs of nobody             *)
  Nobody,    (* the account of a job of an old file                        *)
  Slots,     (* rows that may run at one time                              *)
  MayForget  (* whether a start may come back without some of the rows     *)

VARIABLES rows, up

SameJob(a, b) == a.app = b.app /\ a.account = b.account /\ a.version = b.version

Halted(s) == [i \in DOMAIN s |-> [job |-> s[i], status |-> "paused"]]
Going     == {i \in DOMAIN rows : rows[i].status = "running"}
Becomes(i, s) == rows' = [rows EXCEPT ![i].status = s]

\* Any of the elements, in their order.
Some(s) ==
  {[i \in DOMAIN at |-> s[at[i]]] :
     at \in {f \in UNION {[1..n -> DOMAIN s] : n \in 0..Len(s)} :
              \A i, k \in DOMAIN f : i < k => f[i] < f[k]}}

\* What a start brings back.
Back(s) == IF MayForget THEN Some(s) ELSE {s}

ListInit == (\E s \in Back(Restored) : rows = Halted(s)) /\ up = TRUE

Ask(r) ==
  /\ up
  /\ \/ /\ \A i \in DOMAIN rows : ~SameJob(rows[i].job, r)
        /\ rows' = Append(rows, [job |-> r, status |-> "queued"])
     \/ \E i \in DOMAIN rows :
          /\ SameJob(rows[i].job, r)
          /\ rows[i].status \notin {"queued", "running"}
          /\ Becomes(i, "queued")
  /\ UNCHANGED up

Begin(i) ==
  /\ rows[i].status = "queued"
  /\ Cardinality(Going) < Slots
  /\ \A k \in Going : rows[k].job.app # rows[i].job.app
  /\ Becomes(i, "running")
  /\ UNCHANGED up

End(i, s) ==
  /\ rows[i].status = "running"
  /\ Becomes(i, s)
  /\ UNCHANGED up

\* Any of the waiting rows, at once.
Pause(some) ==
  /\ \A i \in some : rows[i].status = "queued"
  /\ rows' = [i \in DOMAIN rows |-> IF i \in some THEN [rows[i] EXCEPT !.status = "paused"] ELSE rows[i]]
  /\ UNCHANGED up

Drop(i) ==
  /\ rows' = [k \in 1..(Len(rows) - 1) |-> IF k < i THEN rows[k] ELSE rows[k + 1]]
  /\ UNCHANGED up

Swap(i, k) ==
  /\ rows' = [rows EXCEPT ![i] = rows[k], ![k] = rows[i]]
  /\ UNCHANGED up

\* A running row learns the name of its folder.
Name(i) ==
  /\ rows[i].status = "running"
  /\ rows' = [rows EXCEPT ![i].job.named = TRUE]
  /\ UNCHANGED up

Adopt(a) ==
  /\ rows' = [i \in DOMAIN rows |-> IF rows[i].job.account = Nobody
                                    THEN [rows[i] EXCEPT !.job.account = a]
                                    ELSE rows[i]]
  /\ UNCHANGED up

\* The rows that had something left to do stay, in their order.
Fall ==
  /\ up
  /\ up' = FALSE
  /\ LET Left == {i \in DOMAIN rows : rows[i].status # "complete"}
     IN  \E at \in [1..Cardinality(Left) -> Left] :
           /\ \A i, k \in DOMAIN at : i < k => at[i] < at[k]
           /\ rows' = Halted([i \in DOMAIN at |-> rows[at[i]].job])

Rise == ~up /\ up' = TRUE /\ \E s \in Back(rows) : rows' = s

ListNext ==
  \/ \E r \in Requests : Ask(r)
  \/ up /\ \E i \in DOMAIN rows :
       \/ Begin(i) \/ Drop(i) \/ Name(i)
       \/ \E s \in {"paused", "failed", "complete"} : End(i, s)
       \/ \E k \in DOMAIN rows : Swap(i, k)
  \/ up /\ \E some \in SUBSET DOMAIN rows : Pause(some)
  \/ up /\ \E a \in Keys : Adopt(a)
  \/ Fall
  \/ Rise

ListSpec == ListInit /\ [][ListNext]_<<rows, up>>
=============================================================================
