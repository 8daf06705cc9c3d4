--------------------------------- MODULE Der ---------------------------------
(***************************************************************************)
(* Entitlements as DER: _DER of signing.cpp, and the format it is meant to *)
(* have.  A character of a text counts for one byte.                       *)
(***************************************************************************)
EXTENDS Values

Byte(n)  == <<"byte", n>>
Chars(s) == [i \in DOMAIN s |-> <<"char", s[i]>>]

\* The bytes of a number, the highest first; n > 0.
RECURSIVE BigEndian(_)
BigEndian(n) == IF n < 256 THEN <<Byte(n)>> ELSE Append(BigEndian(n \div 256), Byte(n % 256))

DERLength(n) == IF n < 128 THEN <<Byte(n)>> ELSE <<Byte(128 + Len(BigEndian(n)))>> \o BigEndian(n)

BooleanTag == 1
IntegerTag == 2
StringTag  == 12
ListTag    == 48
TableTag   == 49

\* Mutant of EntryLength: the entry's key has no header.
EntryLengthShort(key, value) == Len(key) + Len(value)
\* What an entry is said to be long: the header of a short key is counted for every key.
EntryLength(key, value) == 2 + Len(key) + Len(value)

\* An integer is written with its value for a length.  Reals, dates and data are refused.
RECURSIVE DER(_)
DER(v) ==
  LET string(s)      == <<Byte(StringTag)>> \o DERLength(Len(s)) \o Chars(s)
      entry(k)       == The({<<Byte(ListTag)>> \o DERLength(EntryLength(k, x)) \o string(k) \o x
                             : x \in {DER(v[2][k])}})
      all(seqs, tag) == The({<<Byte(tag)>> \o DERLength(Len(f)) \o f : f \in {Flat(seqs)}})
  IN  CASE TypeIs(v, "bool")   -> <<Byte(BooleanTag), Byte(1), Byte(IF v[2] THEN 1 ELSE 0)>>
        [] TypeIs(v, "int")    -> <<Byte(IntegerTag)>> \o DERLength(v[2]) \o BigEndian(v[2])
        [] TypeIs(v, "string") -> string(v[2])
        [] TypeIs(v, "array")  -> all([i \in DOMAIN v[2] |-> DER(v[2][i])], ListTag)
        [] TypeIs(v, "dict")   -> all([i \in DOMAIN keys(v) |-> entry(keys(v)[i])], TableTag)

(***************************************************************************)
(* The format: everything is a tag, the length of its content, and that.   *)
(* BER leaves open which byte but 0 is true; DER, which is to be one way   *)
(* of writing it, wants 255, where the code writes 1.                      *)
(***************************************************************************)
Element(tag, content) == <<Byte(tag)>> \o DERLength(Len(content)) \o content

RECURSIVE Encoding(_, _)
Encoding(v, true) ==
  CASE TypeIs(v, "bool")   -> Element(BooleanTag, <<Byte(IF v[2] THEN true ELSE 0)>>)
    [] TypeIs(v, "int")    -> Element(IntegerTag, BigEndian(v[2]))
    [] TypeIs(v, "string") -> Element(StringTag, Chars(v[2]))
    [] TypeIs(v, "array")  -> Element(ListTag, Flat([i \in DOMAIN v[2] |-> Encoding(v[2][i], true)]))
    [] TypeIs(v, "dict")   -> Element(TableTag, Flat([i \in DOMAIN keys(v) |->
                                Element(ListTag, Encoding(Str(keys(v)[i]), true)
                                                   \o Encoding(v[2][keys(v)[i]], true))]))
==============================================================================
