-------------------------- MODULE MCDownloadQueue --------------------------
(***************************************************************************)
(* DownloadQueue on two games and two accounts.  One account has a job for *)
(* both games and a pinned version of the first; the other has the first   *)
(* game only.                                                              *)
(***************************************************************************)
EXTENDS DownloadQueue, TLC

CONSTANTS g1, g2, alice, bob, v1

Ask(app, account, version) ==
  [app |-> app, account |-> account, version |-> version, named |-> version # Newest]

MCRequests == {Ask(g1, alice, Newest), Ask(g1, alice, v1), Ask(g2, alice, Newest),
               Ask(g1, bob, Newest)}

\* A queue saved before accounts were kept apart holds a job of nobody.
MCRestored == <<Ask(g1, NoAccount, Newest), Ask(g2, alice, Newest)>>

\* Longer sequences of calls about one job.
MCOneRequest == {Ask(g1, alice, Newest)}
MCNothingSaved == <<>>

\* Workers are interchangeable: the invariants name no worker.
MCSymmetry == Permutations(Workers)
=============================================================================
