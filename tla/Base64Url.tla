------------------------------ MODULE Base64Url ------------------------------
(***************************************************************************)
(* The base64url codec of the native passkey ceremony                      *)
(* (packages/react-native/src/passkey.ts), which carries key material.  A  *)
(* text is a sequence of characters: the 6-bit value of a letter of either *)
(* base64 alphabet, or one of the others.  A byte is a number below 256.   *)
(***************************************************************************)
EXTENDS Naturals, Sequences, SequencesExt

Padding == 64
Blank == 65
Foreign == 66

Letters == 0..63
IsTolerated(c) == c \in {Padding, Blank}
Malformed == [bad |-> TRUE, bytes |-> <<>>]

(* bytesToBase64Url: the letters of the three bytes from i, the last of    *)
(* which may be missing.                                                   *)
GroupToText(bytes, i) ==
    LET a == bytes[i]
        b == IF i + 1 <= Len(bytes) THEN bytes[i + 1] ELSE 0
        c == IF i + 2 <= Len(bytes) THEN bytes[i + 2] ELSE 0
    IN SubSeq(<<a \div 4, (a % 4) * 16 + b \div 16, (b % 16) * 4 + c \div 64, c % 64>>,
              1, IF i + 2 <= Len(bytes) THEN 4 ELSE Len(bytes) - i + 2)

BytesToText(bytes) ==
    FlattenSeq([g \in 1..((Len(bytes) + 2) \div 3) |-> GroupToText(bytes, 3 * g - 2)])

(* The loop of base64UrlToBytes: out, and the bits of buffer not yet in    *)
(* it.  The bits above those in use are never looked at again.             *)
Take(acc, letter) ==
    LET buffer == (acc.buffer * 64 + letter) % 2^14
        bits == acc.bits + 6
    IN IF bits >= 8
       THEN [buffer |-> buffer, bits |-> bits - 8,
             out |-> Append(acc.out, (buffer \div 2^(bits - 8)) % 256)]
       ELSE [buffer |-> buffer, bits |-> bits, out |-> acc.out]

(* base64UrlToBytes: padding and blanks are skipped, and anything else but *)
(* a letter is an error.                                                   *)
TextToBytes(text) ==
    IF \E i \in 1..Len(text) : text[i] \notin Letters /\ ~IsTolerated(text[i]) THEN Malformed
    ELSE [bad |-> FALSE,
          bytes |-> FoldLeft(Take, [buffer |-> 0, bits |-> 0, out |-> <<>>],
                             SelectSeq(text, LAMBDA c : c \in Letters)).out]
=============================================================================
