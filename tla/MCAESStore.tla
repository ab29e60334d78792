------------------------------ MODULE MCAESStore ------------------------------
(* Two keys, two indices and two contents, one of which is an index, too. *)
EXTENDS AESStore

CONSTANTS k1, k2, i1, i2, v1

=============================================================================
