------------------------------- MODULE Values --------------------------------
(***************************************************************************)
(* JValue of json.cpp: what property lists and the cache are read into and *)
(* written from.  A value is a pair of its type and what it holds.  A text *)
(* is a sequence of symbols: a character, a word nothing looks into, or a  *)
(* label such as "<dict>".                                                 *)
(***************************************************************************)
EXTENDS Integers, Sequences, SequencesExt, TLC

CONSTANTS
  KeyOrder, \* the keys, in the order of std::map
  Numbers   \* the integers that texts hold

Null      == <<"null", 0>>
Str(s)    == <<"string", s>>
Number(n) == <<"int", n>>
Bool(b)   == <<"bool", b>>
Real(r)   == <<"real", r>> \* "whole", "fine" (not so in 15 digits), "infinite", ...
Date(d)   == <<"date", d>> \* a day, in winter or in summer, and an hour
Bytes(b)  == <<"data", b>>
Arr(a)    == <<"array", a>>
Dict(d)   == <<"dict", d>>
NoEntries == [k \in {} |-> Null]

\* A number in a text is one symbol.
NumberOf == [s \in {ToString(n) : n \in Numbers} |-> CHOOSE n \in Numbers : ToString(n) = s]

TypeIs(v, t) == v[1] = t
asCString(v) == IF TypeIs(v, "string") THEN v[2] ELSE << >>
isEmpty(v)   == \/ TypeIs(v, "null")
                \/ TypeIs(v, "array") /\ v[2] = << >>
                \/ TypeIs(v, "dict") /\ DOMAIN v[2] = {}
isDataString(v) == TypeIs(v, "string") /\ v[2] # << >> /\ v[2][1] = "data:"
\* "date:", a day and an hour: 25 characters.  With every other day it is a string like any.
Days == {"winter", "summer"}
isDateString(v) == /\ TypeIs(v, "string") /\ Len(v[2]) = 3
                   /\ v[2][1] = "date:" /\ v[2][2] \in Days /\ v[2][3] \in DOMAIN NumberOf

\* The keys of a dictionary, as they are written.
keys(v) == SelectSeq(KeyOrder, LAMBDA k : k \in DOMAIN v[2])

has(v, k) == TypeIs(v, "dict") /\ k \in DOMAIN v[2]
Get(v, k) == IF has(v, k) THEN v[2][k] ELSE Null
\* operator[] makes a dictionary of what is none.
Put(v, k, x) == Dict((k :> x) @@ (IF TypeIs(v, "dict") THEN v[2] ELSE NoEntries))

\* Along a path of keys.
RECURSIVE GetPath(_, _), PutPath(_, _, _)
GetPath(v, p)    == IF p = << >> THEN v ELSE GetPath(Get(v, Head(p)), Tail(p))
PutPath(v, p, x) == IF p = << >> THEN x
                    ELSE Put(v, Head(p), PutPath(Get(v, Head(p)), Tail(p), x))

\* The only element.  The({F(x) : x \in {e}}) is LET x == e IN F(x), with e evaluated once.
The(S) == CHOOSE x \in S : TRUE

\* The sequences of seqs, one after another.
Flat(seqs) == The({FlattenSeq(s) : s \in {<< >> \o seqs}})

(***************************************************************************)
(* Texts.                                                                  *)
(***************************************************************************)
StartsWith(t, s) == Len(s) <= Len(t) /\ SubSeq(t, 1, Len(s)) = s

\* Where find finds from, not before look; 0 if nowhere.
FindFrom(t, from, look) ==
  LET there == {i \in look .. Len(t) + 1 - Len(from) : SubSeq(t, i, i + Len(from) - 1) = from}
  IN  IF there = {} THEN 0 ELSE Min(there)

\* One turn of StringReplace's loop: the text, and where it looks next.
Replaced(t, i, from, to) == SubSeq(t, 1, i - 1) \o to \o SubSeq(t, i + Len(from), Len(t))
LookNext(i, to) == i + Len(to)

\* The whole loop, for a from that is not empty.
RECURSIVE ReplaceFrom(_, _, _, _)
ReplaceFrom(t, from, to, look) ==
  LET next(i) == The({ReplaceFrom(s, from, to, LookNext(i, to)) : s \in {Replaced(t, i, from, to)}})
  IN  The({IF i = 0 THEN t ELSE next(i) : i \in {FindFrom(t, from, look)}})
StringReplace(t, from, to) == The({ReplaceFrom(s, from, to, 1) : s \in {t}})
==============================================================================
