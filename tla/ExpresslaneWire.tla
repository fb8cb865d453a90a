--------------------------- MODULE ExpresslaneWire ---------------------------
(***************************************************************************)
(* ExpressLane packets and the AEAD, shared by the sending and the         *)
(* receiving half of a session (session.rs, cipher.rs, key.rs, version.rs).*)
(*                                                                         *)
(* A key is the number of its generation; 0 is the all-zero sentinel       *)
(* ExpresslaneKey::INVALID.  AES-GCM is ideal: a packet opens only under   *)
(* the key and the associated data it was sealed with, and only if its     *)
(* ciphertext, iv and tag arrived unchanged.                               *)
(***************************************************************************)
EXTENDS Integers

CONSTANTS VersionByte, \* wire version the session was created with
          MaxU64,      \* u64::MAX, the highest wire counter
          MaxKey,      \* bound on the key generations of a behaviour
          NoThread     \* the holder of a free lock

Unknown == 0

\* ExpresslaneVersion::from.
version_from(byte) == IF byte \in {1, 2} THEN byte ELSE Unknown

Version == version_from(VersionByte)

\* he_expresslane_session_create returns NULL for any other version byte.
ASSUME WireAssumption == /\ VersionByte \in 0 .. 255
                         /\ version_from(VersionByte) # Unknown
                         /\ MaxU64 \in Nat
                         /\ MaxKey \in Nat

INVALID == 0
NoKey == -1
Keys == 1 .. MaxKey

is_invalid(key) == key = INVALID

\* The 16-bit flags field: bit 0 stands for FLAG_ENCODED (0x8000 on the wire),
\* bit 1 for the fifteen reserved bits.
Flags == 0 .. 3
encoded_flags(is_encoded) == IF is_encoded THEN 1 ELSE 0

\* Fault: version 2 leaves the flags out of the associated data.
build_aad_without_flags(version, counter, flags) ==
    [counter |-> counter, flags |-> {}]

\* The session id is the same at both ends and is left out.
build_aad(version, counter, flags) ==
    [counter |-> counter, flags |-> IF version >= 2 THEN {flags} ELSE {}]

\* What encrypt writes into the caller's buffer: the header fields, which
\* travel in the clear, and the sealed payload.
seal(key, counter, flags) ==
    [counter |-> counter, flags |-> flags,
     sealed  |-> [key |-> key, aad |-> build_aad(Version, counter, flags)],
     intact  |-> TRUE, length |-> "whole"]

authentic(key, packet) ==
    /\ packet.intact
    /\ packet.sealed.key = key
    /\ packet.sealed.aad = build_aad(Version, packet.counter, packet.flags)

\* Cipher::decrypt works in place.  A buffer that does not hold this packet's
\* ciphertext cannot authenticate, and a failure leaves the buffer in an
\* unspecified state: unchanged, wiped or scrambled.
cipher_decrypt(key, packet, buffer) ==
    IF buffer = "ciphertext" /\ authentic(key, packet)
    THEN {[ok |-> TRUE, out |-> "plaintext"]}
    ELSE {[ok |-> FALSE, out |-> left] : left \in {buffer, "zero", "scrambled"}}
=============================================================================
