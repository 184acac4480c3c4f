------------------------------ MODULE KyberKemMC ------------------------------
(* An instance of KyberKem for TLC. *)
EXTENDS KyberKem

\* None, and each bit 0 and bit 7 of bytes of both halves of a ciphertext:
\* bytes 0, 9 and 29 of u, the first and the last of v.
SomeChanges == {<<0, 0>>} \cup {0, 9, 29, 30, CtBytes - 1} \X {1, 128}
==============================================================================
