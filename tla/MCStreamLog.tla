---------------------------- MODULE MCStreamLog ----------------------------
(* Small instances of StreamLog.                                           *)
EXTENDS StreamLog, TLC

CONSTANTS s1, s2, b

(* One stream for every subject, where subjects are interchangeable, and   *)
(* two streams that overlap in subject b.                                  *)
Everything == s1 :> Subjects
Overlapping == s1 :> Subjects @@ s2 :> {b}
Symmetry == Permutations(Subjects)
=============================================================================
