------------------------------ MODULE Quantity ------------------------------
(***************************************************************************)
(* How a uint64 byte or nanocore count travels from the kubelet's summary  *)
(* to a Prometheus sample: pkg/decode wraps it in a scaled resource        *)
(* quantity (uint64Quantity) and pkg/worker reads it back with AsInt64,    *)
(* ignoring the flag that tells whether the reading succeeded.             *)
(* Integers keep their width: MaxInt64 is 2^63 - 1 in the program and a    *)
(* small number of the same shape in a model.                              *)
(***************************************************************************)
EXTENDS Integers

CONSTANT MaxInt64   \* the largest value of an int64

ASSUME MaxInt64Assumption == MaxInt64 \in Nat /\ MaxInt64 >= 9

Int64  == -(MaxInt64 + 1) .. MaxInt64
Uint64 == 0 .. 2 * MaxInt64 + 1

(* Two's complement: what an int64 multiplication leaves of the product x. *)
WrapInt64(x) == ((x + MaxInt64 + 1) % (2 * MaxInt64 + 2)) - (MaxInt64 + 1)

(* The quantity value * 10^scale, the int64Amount form only.               *)
Quantities   == [value: Int64, scale: Int]
ZeroQuantity == [value |-> 0, scale |-> 0]

Nano == -9   \* the scale of CPU nanocores

(* A value too large for an int64 loses its last decimal digit.            *)
uint64Quantity(val, scale) ==
  IF val <= MaxInt64 THEN [value |-> val,        scale |-> scale]
                     ELSE [value |-> val \div 10, scale |-> scale + 1]

(* The scales int64MultiplyScale10 and its kin multiply by a power of ten  *)
(* of their own; the power of any other scale comes from a loop.           *)
Unrolled == {1, 2, 3, 6, 9}

(* The number read and whether it may be used. A negative scale is never   *)
(* read. A product that overflows is returned wrapped for an unrolled      *)
(* scale and as 0 for another, with ok = FALSE.                            *)
AsInt64(q) ==
  LET product == 10 ^ q.scale * q.value
  IN  CASE q.scale = 0 -> [n |-> q.value, ok |-> TRUE]
        [] q.scale < 0 -> [n |-> 0, ok |-> FALSE]
        [] q.scale \in Unrolled ->
             [n |-> WrapInt64(product), ok |-> WrapInt64(product) = product]
        [] OTHER ->
             [n |-> IF product \in Int64 THEN product ELSE 0, ok |-> product \in Int64]

(* A collector drops the flag: cpuUsage, _ := ....AsInt64().               *)
Reading(q) == AsInt64(q).n
=============================================================================
