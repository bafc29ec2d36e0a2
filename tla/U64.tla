-------------------------------- MODULE U64 --------------------------------
(***************************************************************************)
(* Rust's u64 arithmetic as the verifiers and issuers use it on times, at  *)
(* a width small enough to reach the end of.                               *)
(***************************************************************************)
EXTENDS Naturals

CONSTANT U64Max  \* the largest u64

(* checked_add: no sum, rather than one that does not fit. *)
CheckedAdd(a, b) == IF a + b <= U64Max THEN {a + b} ELSE {}

(* What saturation avoids. *)
WrappingAdd(a, b) == (a + b) % (U64Max + 1)

SaturatingAdd(a, b) == IF a + b > U64Max THEN U64Max ELSE a + b

SaturatingSub(a, b) == IF a > b THEN a - b ELSE 0
=============================================================================
