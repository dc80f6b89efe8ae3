----------------------------- MODULE MptcpCrypto -----------------------------
(***************************************************************************)
(* The derivations mptcp.c consumes as black boxes (sha1_least_32bits,    *)
(* sha1_least_64bits, hmac_sha1, hmac_sha1_truncat_64) and the byte-order *)
(* conversions it applies when it writes option fields.                   *)
(*                                                                         *)
(* A digest is a record of what it was computed from: two digests are     *)
(* equal exactly when their inputs are, which is all the properties use.  *)
(*                                                                         *)
(* A 32- or 64-bit field is a "byte image" [v, swapped]: the value v as   *)
(* it lies in host memory (swapped = FALSE) or byte-reversed.  The wire   *)
(* carries bytes, so two images compare equal only if the bytes do.       *)
(***************************************************************************)
CONSTANT HostLittleEndian   \* TRUE on x86: htonl/htobe64 reverse the bytes

\* token = sha1_least_32bits(key)
Token(k) == [token |-> k]

\* IDSN = sha1_least_64bits(key)
Idsn(k) == [idsn |-> k]

\* hmac_sha1 (width 160) or hmac_sha1_truncat_64 (width 64) keyed with the
\* 16 bytes "keys" over the 8 bytes "msg" (both pairs in memory order)
Hmac(keys, msg, width) == [hkeys |-> keys, hmsg |-> msg, width |-> width]

\* The bytes of a value as the host stores it
Host(v) == [v |-> v, swapped |-> FALSE]

\* htonl / htons / htobe64: a byte reversal on a little-endian host
Hton(b) == IF HostLittleEndian THEN [b EXCEPT !.swapped = ~@] ELSE b
==============================================================================
