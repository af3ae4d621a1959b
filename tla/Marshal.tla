------------------------------ MODULE Marshal -------------------------------
(***************************************************************************)
(* src/tpl/napi/macro.hpp: what becomes of a number on its way from        *)
(* JavaScript to a native function and back.  A JavaScript value is        *)
(* [kind, v]; a number is its integer part, TRUE is 1 and FALSE is 0.      *)
(* FN_ARG_F32 lacks a semicolon: no function with an f32 argument compiles.*)
(***************************************************************************)
EXTENDS Integers

CONSTANTS Half32, Half64        \* 2^31, 2^63

ASSUME HalfAssumption == Half32 \in Nat \ {0} /\ Half64 \in Nat \ {0}

ArgTypes    == {"bool", "i32", "u32", "i64", "u64", "f64"}
NumberTypes == ArgTypes \cup {"f32"}

Signed(v, half)   == ((v + half) % (2 * half)) - half
Unsigned(v, half) == v % (2 * half)

\* The values of a type; a float stands for the integers it is taken for.
Native(type) ==
    CASE type = "bool" -> {0, 1}
      [] type = "i32"  -> (-Half32)..(Half32 - 1)
      [] type = "u32"  -> 0..(2 * Half32 - 1)
      [] type = "i64"  -> (-Half64)..(Half64 - 1)
      [] type = "u64"  -> 0..(2 * Half64 - 1)
      [] type \in {"f32", "f64"} -> Int

\* What N-API calls the kind of a type: 64-bit integers are BigInts.
Kind(type) == CASE type = "bool" -> "boolean"
                [] type \in {"i64", "u64"} -> "bigint"
                [] type \in {"i32", "u32", "f32", "f64"} -> "number"

\* Mutation: an i32 is read as a u32.
ReadUnsigned(type, v) ==
    CASE type \in {"i32", "u32"} -> Unsigned(v, Half32)
      [] type \in {"i64", "u64"} -> Unsigned(v, Half64)
      [] OTHER -> v

(* FN_ARG_*: napi_get_value_... takes the low bits of what does not fit,   *)
(* and nobody looks at the lossless flag of a BigInt.                      *)
Read(type, v) ==
    CASE type = "i32" -> Signed(v, Half32)
      [] type = "u32" -> Unsigned(v, Half32)
      [] type = "i64" -> Signed(v, Half64)
      [] type = "u64" -> Unsigned(v, Half64)
      [] type \in {"bool", "f64"} -> v

\* FN_RET_*_CREATE: the value as it is, in the kind of its type.
Create(type, v) == [kind |-> Kind(type), v |-> v]
=============================================================================
