------------------------------ MODULE MCSigner ------------------------------
(* Small signer lists for TLC. *)
EXTENDS Signer

Hex(len, bytes, case) == [hex |-> TRUE, len |-> len, bytes |-> bytes, case |-> case]
Name(n) == [hex |-> FALSE, len |-> 0, bytes |-> n, case |-> "none"]
Text(pad, prefix, body) == [pad |-> pad, prefix |-> prefix, body |-> body]

Entries == {
    Text(FALSE, FALSE, Hex(0, "empty", "none")),      \* nothing between two commas
    Text(TRUE, TRUE, Hex(0, "empty", "none")),        \* "0x" and no digit
    Text(FALSE, TRUE, Hex(64, "key1", "lower")),
    Text(TRUE, TRUE, Hex(64, "key1", "lower")),       \* the same text, padded
    Text(FALSE, FALSE, Hex(64, "zero", "none")),      \* no scalar
    Text(FALSE, FALSE, Hex(63, "key2", "lower")),     \* a truncated paste
    Text(FALSE, FALSE, Name("alias/a")),
    Text(TRUE, FALSE, Name("alias/b"))}

\* kms2 is the negation of kms1: one x, and the other y.
Points == [k \in {"key1", "key2", "kms1", "kms2"} |->
              [x |-> IF k = "kms2" THEN "kms1" ELSE k, odd |-> IF k = "kms1" THEN 0 ELSE 1]]

AllLists == UNION {[1..n -> Entries] : n \in 1..3}

\* Plain keys, each spelled as it may be.
LocalLists == [1..2 -> {Text(FALSE, prefix, Hex(64, key, case)) :
                  prefix \in BOOLEAN, key \in {"key1", "key2"},
                  case \in {"lower", "upper"}}]
=============================================================================
