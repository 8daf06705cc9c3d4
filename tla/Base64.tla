------------------------------- MODULE Base64 --------------------------------
(***************************************************************************)
(* ZBase64 of base64.cpp.                                                  *)
(***************************************************************************)
EXTENDS Integers, Sequences

szTable ==
  <<"A", "B", "C", "D", "E", "F", "G", "H", "I", "J", "K", "L", "M", "N", "O", "P", "Q", "R", "S",
    "T", "U", "V", "W", "X", "Y", "Z", "a", "b", "c", "d", "e", "f", "g", "h", "i", "j", "k", "l",
    "m", "n", "o", "p", "q", "r", "s", "t", "u", "v", "w", "x", "y", "z", "0", "1", "2", "3", "4",
    "5", "6", "7", "8", "9", "+", "/">>
GetB64char(n) == szTable[n + 1]
Digits        == {GetB64char(n) : n \in 0 .. 63}
IndexOf       == [c \in Digits |-> CHOOSE n \in 0 .. 63 : GetB64char(n) = c]
GetB64Index(c) == IF c \in Digits THEN IndexOf[c] ELSE -1

\* The i-th group of n; beyond the end there are zeros.
Group(s, n, i, zero) == [j \in 1 .. n |-> IF n * (i - 1) + j <= Len(s) THEN s[n * (i - 1) + j] ELSE zero]
Groups(s, n) == (Len(s) + n - 1) \div n

\* Four characters of three bytes, or of the one or two that are left.
Quad(b, rest) ==
  <<GetB64char(b[1] \div 4), GetB64char(((b[1] % 4) * 16) + b[2] \div 16),
    IF rest > 1 THEN GetB64char(((b[2] % 16) * 4) + b[3] \div 64) ELSE "=",
    IF rest > 2 THEN GetB64char(b[3] % 64) ELSE "=">>
Encode(bytes) ==
  LET quad(i) == Quad(Group(bytes, 3, i, 0), Len(bytes) - 3 * (i - 1))
  IN  [k \in 1 .. 4 * Groups(bytes, 3) |-> quad(1 + (k - 1) \div 4)[1 + ((k - 1) % 4)]]

\* Three bytes of four characters: what is not of the alphabet has all bits set.
Triple(c) ==
  LET i == [j \in 1 .. 4 |-> GetB64Index(c[j])]
  IN  <<IF i[2] = -1 THEN 255 ELSE ((i[1] * 4) % 256) + i[2] \div 16,
        IF i[3] = -1 THEN 255 ELSE ((i[2] * 16) % 256) + i[3] \div 4,
        IF i[4] = -1 THEN 255 ELSE ((i[3] * 64) % 256) + i[4]>>

\* Mutant of Kept: padding counts.
KeptAll(c) == 1 .. 3
\* Which bytes of the last group count.
Kept(c) == {1} \cup (IF "=" \in {c[2], c[3]} THEN {} ELSE {2})
               \cup (IF "=" \in {c[3], c[4]} THEN {} ELSE {3})

Decode(chars) ==
  LET n    == Groups(chars, 4)
      c(i) == Group(chars, 4, i, "zero")
      last == Triple(c(n))
      kept(j) == IF j \in Kept(c(n)) THEN <<last[j]>> ELSE << >>
  IN  IF n = 0 THEN << >>
      ELSE [k \in 1 .. 3 * (n - 1) |-> Triple(c(1 + (k - 1) \div 3))[1 + ((k - 1) % 3)]]
             \o kept(1) \o kept(2) \o kept(3)
==============================================================================
