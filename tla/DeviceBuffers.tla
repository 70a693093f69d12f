---------------------------- MODULE DeviceBuffers ----------------------------
(***************************************************************************)
(* How the CUDA operators size their device buffers                        *)
(* (src/src/cuda/device_buffer.hpp and the next_capacity functions): a     *)
(* buffer that is too small is replaced by one of a doubled capacity and   *)
(* is never made smaller.                                                  *)
(***************************************************************************)
EXTENDS Integers

CONSTANT MaxInt      \* the largest value a capacity can have

ASSUME SizeAssumption == MaxInt \in Nat

(* Mutant of NextCapacity: doubled once at most. *)
NextCapacity_Once(current, required, least) ==
  IF required = 0 THEN 0
  ELSE IF current > 0 THEN current * 2 ELSE IF required > least THEN required ELSE least

(* Mutant of NextCapacity: doubled without a look at the largest value. *)
NextCapacity_Overflows(current, required, least) ==
  LET doubled[c \in Nat] == IF c >= required THEN c ELSE doubled[2 * c]
      first == IF required > least THEN required ELSE least
  IN IF required = 0 THEN 0 ELSE doubled[IF current = 0 THEN first ELSE current]

\* next_capacity_bytes and next_capacity_len: doubled until it is enough, or set to what is
\* required when doubling would overflow.
NextCapacity(current, required, least) ==
  LET doubled[c \in Nat] ==
        IF c >= required THEN c
        ELSE IF c > MaxInt \div 2 THEN required
        ELSE doubled[2 * c]
      first == IF required > least THEN required ELSE least
  IN IF required = 0 THEN 0 ELSE doubled[IF current = 0 THEN first ELSE current]

\* The capacity of a buffer once it has been asked for `required`.
Ensured(current, required, least) ==
  IF current >= required THEN current ELSE NextCapacity(current, required, least)
=============================================================================
