------------------------------ MODULE MCFields ------------------------------
(* Instances of Fields for TLC. *)
EXTENDS Fields, TLC

CONSTANTS f1, f2, s1, s2, s3, v1, v2, e1, e2, text, number

\* No action tells two fields, names, types or sessions apart.
AnyOrder == Permutations(FieldIds) \cup Permutations(Slugs)
            \cup Permutations(Types) \cup Permutations(Sessions)
=============================================================================
