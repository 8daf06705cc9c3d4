-------------------------------- MODULE Json ---------------------------------
(***************************************************************************)
(* The cache's format: JReader and JWriter of json.cpp, as styleWrite and  *)
(* read use them.  The layout - lines, tabs, short arrays on one line - is *)
(* left out; JReader skips it.                                             *)
(***************************************************************************)
EXTENDS Values, Base64

\* The letter that follows the backslash.
Escapes == ("\"" :> "\"") @@ ("\\" :> "\\") @@ ("backspace" :> "b") @@ ("\f" :> "f")
             @@ ("\n" :> "n") @@ ("\r" :> "r") @@ ("\t" :> "t")

\* Mutant of v2s: the backslash is not escaped.
v2sButBackslash(s) ==
  <<"\"">> \o Flat([i \in DOMAIN s |-> IF s[i] \in DOMAIN Escapes \ {"\\"}
                                             THEN <<"\\", Escapes[s[i]]>> ELSE <<s[i]>>]) \o <<"\"">>
\* A backslash in front of "u" and four digits is taken for an escape that is one already.
\* The four digits are the symbol "0041".
v2s(s) ==
  LET escaped(i) == s[i] = "\\" /\ StartsWith(SubSeq(s, i + 1, Len(s)), <<"u", "0041">>)
      char(i)    == IF s[i] \notin DOMAIN Escapes \/ escaped(i) THEN <<s[i]>>
                    ELSE <<"\\", Escapes[s[i]]>>
  IN  <<"\"">> \o Flat([i \in DOMAIN s |-> char(i)]) \o <<"\"">>

Joined(seqs) == The({FlattenSeq([i \in DOMAIN s |-> IF i = 1 THEN s[i] ELSE <<",">> \o s[i]]) :
                     s \in {<< >> \o seqs}})

RECURSIVE StyleWriteValue(_)
StyleWriteValue(v) ==
  CASE TypeIs(v, "null")   -> <<"null">>
    [] TypeIs(v, "int")    -> <<ToString(v[2])>>
    [] TypeIs(v, "bool")   -> <<IF v[2] THEN "true" ELSE "false">>
    [] TypeIs(v, "string") -> v2s(v[2])
    [] TypeIs(v, "data")   -> <<"\"", "data:">> \o Encode(v[2]) \o <<"\"">>
    [] TypeIs(v, "array")  -> <<"[">> \o Joined([i \in DOMAIN v[2] |-> StyleWriteValue(v[2][i])]) \o <<"]">>
    [] TypeIs(v, "dict")   ->
         The({<<"{">> \o Joined([i \in DOMAIN ks |-> v2s(ks[i]) \o <<":">> \o StyleWriteValue(v[2][ks[i]])])
                \o <<"}">> : ks \in {keys(v)}})

(***************************************************************************)
(* Reading.                                                                *)
(***************************************************************************)
\* Mutant of NoEnd: the end of the text ends a string.
NoEndNeeded(t) == Len(t) + 1
NoEnd(t) == 0
\* Where the string in t ends, from i on: a backslash hides what follows it.
RECURSIVE StringEnd(_, _)
StringEnd(t, i) == CASE i > Len(t)  -> NoEnd(t)
                     [] i <= Len(t) -> IF t[i] = "\\" THEN StringEnd(t, i + 2)
                                       ELSE IF t[i] = "\"" THEN i ELSE StringEnd(t, i + 1)

\* The escapes of a string undone; "bad" for one that is unknown.
RECURSIVE decodeString(_)
decodeString(s) ==
  LET known == {c \in DOMAIN Escapes : Len(s) > 1 /\ Escapes[c] = s[2]}
  IN  CASE s = << >> -> << >>
        [] s # << >> /\ s[1] # "\\" -> <<s[1]>> \o decodeString(Tail(s))
        [] s # << >> /\ s[1] = "\\" ->
             IF StartsWith(s, <<"\\", "u", "0041">>) THEN <<"A">> \o decodeString(SubSeq(s, 4, Len(s)))
             ELSE IF known = {} THEN <<"bad">>
             ELSE <<CHOOSE c \in known : TRUE>> \o decodeString(SubSeq(s, 3, Len(s)))

\* What comes next in t: its first character, and what follows it.
NextIs(t, chars) == t # << >> /\ t[1] \in chars

RECURSIVE readJson(_), readObject(_, _), readElements(_, _)
readJson(t) ==
  LET is(v, n)       == [ok |-> TRUE, v |-> v, rest |-> SubSeq(t, n + 1, Len(t))]
      failed         == [ok |-> FALSE, v |-> Null, rest |-> t]
      string(end)    == The({IF Contains(s, "bad") THEN failed ELSE is(Str(s), end)
                             : s \in {decodeString(SubSeq(t, 2, end - 1))}})
  IN  IF t = << >> THEN failed
      ELSE CASE t[1] = "true"  -> is(Bool(TRUE), 1)
             [] t[1] = "false" -> is(Bool(FALSE), 1)
             [] t[1] = "null"  -> is(Null, 1)
             [] t[1] = "\""    -> The({IF end = 0 THEN failed ELSE string(end) : end \in {StringEnd(t, 2)}})
             [] t[1] = "{"     -> readObject(NoEntries, Tail(t))
             [] t[1] = "["     -> IF Len(t) > 1 /\ t[2] = "]" THEN is(Arr(<< >>), 2)
                                  ELSE readElements(<< >>, Tail(t))
             [] OTHER          -> IF t[1] \in DOMAIN NumberOf THEN is(Number(NumberOf[t[1]]), 1) ELSE failed
readObject(d, t) ==
  LET broken(e)   == [ok |-> FALSE, v |-> Dict(e), rest |-> t]
      more(e, r)  == CASE ~r.ok \/ ~NextIs(r.rest, {",", "}"}) -> broken(e)
                       [] r.ok /\ NextIs(r.rest, {"}"}) -> [ok |-> TRUE, v |-> Dict(e), rest |-> Tail(r.rest)]
                       [] r.ok /\ NextIs(r.rest, {","}) -> readObject(e, Tail(r.rest))
      value(name) == The({more(x[1], x[2]) : x \in {<<(name.v[2] :> r.v) @@ d, r>> :
                                                    r \in {readJson(Tail(name.rest))}}})
  IN  IF NextIs(t, {"}"}) THEN [ok |-> TRUE, v |-> Dict(d), rest |-> Tail(t)]
      ELSE The({IF name.ok /\ TypeIs(name.v, "string") /\ NextIs(name.rest, {":"}) THEN value(name)
                ELSE broken(d) : name \in {readJson(t)}})
readElements(a, t) ==
  LET more(e, r) == CASE ~r.ok \/ ~NextIs(r.rest, {",", "]"}) -> [ok |-> FALSE, v |-> Arr(e), rest |-> t]
                      [] r.ok /\ NextIs(r.rest, {"]"}) -> [ok |-> TRUE, v |-> Arr(e), rest |-> Tail(r.rest)]
                      [] r.ok /\ NextIs(r.rest, {","}) -> readElements(e, Tail(r.rest))
  IN  The({more(x[1], x[2]) : x \in {<<Append(a, r.v), r>> : r \in {readJson(t)}}})
==============================================================================
