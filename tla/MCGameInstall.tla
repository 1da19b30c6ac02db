--------------------------- MODULE MCGameInstall ---------------------------
(***************************************************************************)
(* GameInstall on one game of two files, whose two builds share one of     *)
(* them, and two accounts that own it.  A job that is asked for again once *)
(* it ended, removed while a second worker has it and asked for once more  *)
(* puts two workers in the folder, after four calls.                       *)
(***************************************************************************)
EXTENDS GameInstall, TLC

CONSTANTS g1, alice, bob, b1, b2, f1, f2, s1, s2, s3

Ask(account, named) == [app |-> g1, account |-> account, version |-> Newest, named |-> named]

\* The builds share the first file.
MCContent == [b \in Versions |-> [f \in Files |-> IF f = f1 THEN s1 ELSE IF b = b1 THEN s2 ELSE s3]]
MCOneBuild == g1 :> {b1}
MCBuildsOf == g1 :> {b1, b2}

\* Both accounts may ask, or one; one of them left a paused job in the file.
MCRequests == {Ask(alice, FALSE), Ask(bob, FALSE)}
MCRestored == <<Ask(alice, TRUE)>>
MCOneRequest == {Ask(alice, FALSE)}
MCNothingSaved == <<>>

MCSymmetry == Permutations(Workers)
=============================================================================
