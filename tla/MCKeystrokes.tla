---------------------------- MODULE MCKeystrokes ----------------------------
(* Keystrokes for TLC: short raw data, and keys without those whose bytes    *)
(* also begin the bytes of others.                                         *)
EXTENDS Keystrokes

UpTo(S, n) == UNION {[1..k -> S] : k \in 0..n}

ShortData == UpTo(Byte, 5)

TypedPlain == UpTo(PlainKeys, 2)
=============================================================================
