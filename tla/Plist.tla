-------------------------------- MODULE Plist --------------------------------
(***************************************************************************)
(* Property lists: PReader and PWriter of json.cpp, and beside them what   *)
(* Apple's own reader and writer make of the same grammar.  White space    *)
(* between labels is left out.                                             *)
(***************************************************************************)
EXTENDS Values, Base64

CONSTANTS
  Zone, \* the local time, in hours ahead of UTC
  Dst   \* and what summer adds to it

Labels == {"<plist>", "</plist>", "<dict>", "</dict>", "<dict/>", "<array>", "</array>", "<array/>",
           "<key>", "</key>", "<string>", "</string>", "<string/>", "<date>", "</date>", "<data>",
           "</data>", "<integer>", "</integer>", "<real>", "</real>", "<true/>", "<false/>",
           "<plist/>", "<key/>", "<data/>", "<date/>", "<integer/>", "<real/>"}
EndLabel == [l \in {"<key>", "<string>", "<date>", "<data>", "<integer>", "<real>"} |->
           CASE l = "<key>" -> "</key>" [] l = "<string>" -> "</string>" [] l = "<date>" -> "</date>"
             [] l = "<data>" -> "</data>" [] l = "<integer>" -> "</integer>" [] l = "<real>" -> "</real>"]
EmptyLabel == [l \in {"<key>", "<string>", "<data>"} |->
           CASE l = "<key>" -> "<key/>" [] l = "<string>" -> "<string/>" [] l = "<data>" -> "<data/>"]

\* One text replaced by another, and then a third by a fourth.
Twice(s, from1, to1, from2, to2) ==
  The({StringReplace(t, from2, to2) : t \in {StringReplace(s, from1, to1)}})
\* Mutant of XMLEscape: "<" first.
XMLEscapeLtFirst(s) == Twice(s, <<"<">>, <<"&", "lt;">>, <<"&">>, <<"&", "amp;">>)
XMLEscape(s) == Twice(s, <<"&">>, <<"&", "amp;">>, <<"<">>, <<"&", "lt;">>)
\* In sequence, so that "&amp;lt;" becomes "<"; "&gt;" and the others stay.
XMLUnescape(s) == Twice(s, <<"&", "amp;">>, <<"&">>, <<"&", "lt;">>, <<"<">>)

(***************************************************************************)
(* Apple's conventions: every entity is read once, "<string/>" is the      *)
(* empty string, dates are UTC.  Apple's writer needs three entities; some *)
(* other tool's ("terse") uses all of them and leaves empty elements away. *)
(***************************************************************************)
EntityOf == ("&" :> "amp;") @@ ("<" :> "lt;") @@ (">" :> "gt;") @@ ("\"" :> "quot;") @@ ("'" :> "apos;")
              @@ ("accented" :> "#233;")
Escaped(by) == IF by = "terse" THEN DOMAIN EntityOf ELSE {"&", "<", ">"}
Escape(s, by) == Flat([i \in DOMAIN s |-> IF s[i] \in Escaped(by) THEN <<"&", EntityOf[s[i]]>>
                                         ELSE <<s[i]>>])
RECURSIVE Unescape(_)
Unescape(s) ==
  IF s = << >> THEN s
  ELSE LET e == {c \in DOMAIN EntityOf : Len(s) > 1 /\ s[1] = "&" /\ s[2] = EntityOf[c]}
       IN  IF e = {} THEN <<s[1]>> \o Unescape(Tail(s))
           ELSE <<CHOOSE c \in e : TRUE>> \o Unescape(SubSeq(s, 3, Len(s)))

(***************************************************************************)
(* Writing; by: "zsign", "apple" or "terse".                               *)
(***************************************************************************)
\* d2s is given a moment and writes the local time.
d2s(d) == <<d[1], ToString(d[2] + Zone + IF d[1] = "summer" THEN Dst ELSE 0)>>
WriteReal(r) == CASE r = "fine" -> "rounded" [] r = "infinite" -> "+infinity" [] OTHER -> r

RECURSIVE FastWriteValue(_, _)
FastWriteValue(v, by) ==
  LET escape(s)  == IF by = "zsign" THEN XMLEscape(s) ELSE Escape(s, by)
      in(l, t)   == IF by = "terse" /\ t = << >> THEN <<EmptyLabel[l]>> ELSE <<l>> \o t \o <<EndLabel[l]>>
      entry(k)   == IF TypeIs(v[2][k], "null") THEN << >>
                    ELSE in("<key>", escape(k)) \o FastWriteValue(v[2][k], by)
      \* That other tool has the keys in another order.
      ordered    == IF by = "terse" THEN Reverse(keys(v)) ELSE keys(v)
      entries    == The({Flat([i \in DOMAIN ks |-> entry(ks[i])]) : ks \in {ordered}})
      elements   == Flat([i \in DOMAIN v[2] |-> FastWriteValue(v[2][i], by)])
      date       == IF by = "zsign" THEN d2s(v[2]) ELSE <<v[2][1], ToString(v[2][2])>>
  IN  CASE TypeIs(v, "null")   -> << >>
        [] TypeIs(v, "dict")   -> IF isEmpty(v) THEN <<"<dict/>">> ELSE <<"<dict>">> \o entries \o <<"</dict>">>
        [] TypeIs(v, "array")  -> IF isEmpty(v) THEN <<"<array/>">> ELSE <<"<array>">> \o elements \o <<"</array>">>
        [] TypeIs(v, "date")   -> in("<date>", date)
        [] TypeIs(v, "data")   -> in("<data>", Encode(v[2]))
        [] TypeIs(v, "string") -> CASE by = "zsign" /\ isDateString(v) -> in("<date>", Tail(v[2]))
                                    [] by = "zsign" /\ isDataString(v) -> in("<data>", Tail(v[2]))
                                    [] OTHER -> in("<string>", escape(v[2]))
        [] TypeIs(v, "bool")   -> <<IF v[2] THEN "<true/>" ELSE "<false/>">>
        [] TypeIs(v, "int")    -> in("<integer>", <<ToString(v[2])>>)
        [] TypeIs(v, "real")   -> in("<real>", <<WriteReal(v[2])>>)
FastWrite(v, by) == <<"<plist>">> \o FastWriteValue(v, by) \o <<"</plist>">>

(***************************************************************************)
(* Reading: a token, or a value, and what is left of the text.             *)
(***************************************************************************)
\* readString goes to the next "<", where the end label has to be.  What "<plist/>" and "</plist>"
\* stand for is no value.
RECURSIVE readToken(_)
readToken(t) ==
  LET error     == [type |-> "error", chars |-> << >>, rest |-> t]
      closed(n) == n <= Len(t) /\ t[n] = EndLabel[t[1]]
      text(n)   == [type |-> t[1], chars |-> SubSeq(t, 2, n - 1), rest |-> SubSeq(t, n + 1, Len(t))]
      upTo      == SelectInSubSeq(t, 2, Len(t), LAMBDA c : c \in Labels \cup {"<"})
  IN  IF t = << >> THEN error
      ELSE CASE t[1] \notin Labels  -> error
             [] t[1] = "<plist>"    -> The({readToken(s) : s \in {Tail(t)}})
             [] t[1] \in DOMAIN EndLabel -> The({IF n > 0 /\ closed(n) THEN text(n) ELSE error : n \in {upTo}})
             [] t[1] \in Labels \ (DOMAIN EndLabel \cup {"<plist>"}) ->
                  [type |-> t[1], chars |-> << >>, rest |-> Tail(t)]

\* mktime takes the text for local time, never in summer.
ReadDate(c, by) == Date(<<c[1], NumberOf[c[2]] - IF by = "zsign" THEN Zone ELSE 0>>)
Filtered(c) == SelectSeq(c, LAMBDA x : x # "\n")

RECURSIVE readValue(_, _), readNext(_, _), readDictionary(_, _, _, _), readArray(_, _, _)
\* by: the reader.  What was read before a failure stays.
readValue(k, by) ==
  LET is(v)     == [ok |-> TRUE, v |-> v, rest |-> k.rest]
      failed    == [ok |-> FALSE, v |-> Null, rest |-> k.rest]
      text      == IF by = "zsign" THEN XMLUnescape(k.chars) ELSE Unescape(k.chars)
  IN  CASE k.type = "<true/>"   -> is(Bool(TRUE))
        [] k.type = "<false/>"  -> is(Bool(FALSE))
        [] k.type = "<string/>" /\ by = "apple" -> is(Str(<< >>))
        [] k.type = "<data/>" /\ by = "apple"   -> is(Bytes(<< >>))
        [] k.type \in {"<data/>", "<date/>", "<string/>", "<integer/>", "<real/>"} ->
             IF by = "zsign" THEN is(Null) ELSE failed
        [] k.type = "<dict/>"   -> is(Dict(NoEntries))
        [] k.type = "<array/>"  -> is(Arr(<< >>))
        [] k.type = "<dict>"    -> readDictionary(NoEntries, << >>, k.rest, by)
        [] k.type = "<array>"   -> readArray(<< >>, k.rest, by)
        [] k.type = "<date>"    -> is(ReadDate(k.chars, by))
        [] k.type = "<data>"    -> is(Bytes(Decode(Filtered(k.chars))))
        [] k.type = "<string>"  -> is(Str(text))
        [] k.type = "<integer>" -> is(Number(NumberOf[k.chars[1]]))
        [] k.type = "<real>"    -> IF k.chars # <<"+infinity">> THEN is(Real(k.chars[1]))
                                   ELSE IF by = "zsign" THEN failed ELSE is(Real("infinite"))
        [] OTHER                -> failed
readNext(t, by) == The({readValue(k, by) : k \in {readToken(t)}})
\* last: the key before.  zsign has one token for all keys, and "<key/>" leaves its text as it was.
readDictionary(d, last, t, by) ==
  LET chars(key)   == IF key.type = "<key/>" /\ by = "zsign" THEN last ELSE key.chars
      name(key)    == IF by = "zsign" THEN XMLUnescape(Filtered(chars(key))) ELSE Unescape(key.chars)
      with(key, r) == (name(key) :> r.v) @@ d
      more(key, r) == IF r.ok THEN The({readDictionary(e, chars(key), r.rest, by) : e \in {with(key, r)}})
                      ELSE [ok |-> FALSE, v |-> Dict(with(key, r)), rest |-> t]
      entry(key)   == The({more(key, r) : r \in {readNext(key.rest, by)}})
  IN  The({CASE key.type = "</dict>"           -> [ok |-> TRUE, v |-> Dict(d), rest |-> key.rest]
             [] key.type \in {"<key>", "<key/>"} -> entry(key)
             [] OTHER                          -> [ok |-> FALSE, v |-> Dict(d), rest |-> t]
           : key \in {readToken(t)}})
readArray(a, t, by) ==
  LET more(r)    == IF r.ok THEN The({readArray(e, r.rest, by) : e \in {Append(a, r.v)}})
                    ELSE [ok |-> FALSE, v |-> Arr(Append(a, r.v)), rest |-> t]
  IN  The({IF k.type = "</array>" THEN [ok |-> TRUE, v |-> Arr(a), rest |-> k.rest]
           ELSE The({more(r) : r \in {readValue(k, by)}})
           : k \in {readToken(t)}})

(***************************************************************************)
(* Binary property lists: the value, as Apple means it, is what is there.  *)
(***************************************************************************)
\* readUnicode takes each half of a surrogate pair for a character.
readUnicode(s) == Flat([i \in DOMAIN s |-> IF s[i] = "emoji" THEN <<"high", "low">> ELSE <<s[i]>>])

RECURSIVE readBinaryValue(_)
readBinaryValue(v) ==
  CASE TypeIs(v, "string") -> Str(readUnicode(v[2]))
    [] TypeIs(v, "real")   -> Real(IF v[2] = "short" THEN "garbage" ELSE v[2])
    [] TypeIs(v, "date")   -> Date(<<v[2][1], v[2][2] - 8>>) \* 978278400: the epoch, but in UTC+8
    \* An array of nothing is nothing, and so is a dictionary; an entry of nothing is left out.
    [] TypeIs(v, "array")  -> IF isEmpty(v) THEN Null
                              ELSE Arr([i \in DOMAIN v[2] |-> readBinaryValue(v[2][i])])
    [] TypeIs(v, "dict")   -> LET there == {k \in DOMAIN v[2] : ~TypeIs(readBinaryValue(v[2][k]), "null")}
                              IN  IF there = {} THEN Null
                                  ELSE Dict([n \in {readUnicode(k) : k \in there} |->
                                       readBinaryValue(v[2][CHOOSE k \in there : readUnicode(k) = n])])
    [] OTHER               -> v

(***************************************************************************)
(* Documents: a form, and a text, "xml" or "terse", or a value, "binary".  *)
(***************************************************************************)
readPList(doc) ==
  IF doc[1] = "binary" THEN [ok |-> TRUE, v |-> readBinaryValue(doc[2])]
  ELSE The({[ok |-> r.ok, v |-> r.v] : r \in {readNext(doc[2], "zsign")}})
writePList(v) == <<"xml", FastWrite(v, "zsign")>>

\* What Apple's reader takes a document for.
Meaning(doc) == IF doc[1] = "binary" THEN doc[2] ELSE readNext(doc[2], "apple").v
==============================================================================
