-------------------------- MODULE MCTokenRotation --------------------------
(***************************************************************************)
(* A small instance of TokenRotation: two lines of tokens, one of them     *)
(* always due, and two administrators.                                     *)
(***************************************************************************)
EXTENDS TokenRotation

CONSTANTS n1, n2, t1, t2, a1, a2

TwoNames  == {n1, n2}
OneFlag   == {n2}
TwoRows   == {t1, t2}
TwoAdmins == {a1, a2}

=============================================================================
