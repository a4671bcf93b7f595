----------------------------- MODULE MCSessions -----------------------------
(* Sessions on three connections and fewer slots.                          *)
EXTENDS Sessions

CONSTANTS s1, s2, s3

ThreeSessions == {s1, s2, s3}
=============================================================================
