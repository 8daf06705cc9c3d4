---------------------------- MODULE MCDocuments ------------------------------
(***************************************************************************)
(* Applications, command lines and files for Documents.                    *)
(***************************************************************************)
EXTENDS Documents

Row(k, v) == <<k>> :> v
Table(rows) == Dict(FoldSeq(LAMBDA r, d : r @@ d, NoEntries, rows))
AsXml(v)    == <<"xml", FastWrite(v, "apple")>>
AsTerse(v)  == <<"terse", FastWrite(v, "terse")>>
AsBinary(v) == <<"binary", v>>

\* One entry of every kind; those that only the binary form has, or only the text.
Kinds ==
  <<Row("t1", Str(<<"a", "&", "<", "b">>)), Row("t2", Str(<<"a", ">", "b">>)),
    Row("t3", Str(<<"&", "lt;">>)), Row("t4", Str(<<"emoji", "\n">>)), Row("t5", Str(<< >>)),
    Row("t6", Str(<<"data:", "0">>)), Row("t9", Str(<<"date:", "winter", "10">>)), Row("t7", Bool(FALSE)), Row("t8", Number(-1)),
    Row("d1", Date(<<"winter", 10>>)), Row("d2", Date(<<"summer", 10>>)), Row("r1", Real("whole")),
    Row("r2", Real("fine")), Row("b1", Bytes(<<0, 255, 16, 77>>)), Row("b2", Bytes(<< >>)),
    (<<"<", "k", "&">>) :> Arr(<<Str(<<"x">>), Dict(NoEntries), Arr(<<Number(1), Bool(TRUE)>>)>>),
    Row("e1", Arr(<< >>)), Row("e2", Dict(NoEntries)), Row("e3", Table(<<Row("t1", Str(<<"&">>))>>))>>
BinaryKinds == Kinds \o <<Row("r3", Real("short")), Row("r4", Real("infinite"))>>

OldApp  == <<"c", "a">>
Base(id, name) == <<Id :> Str(id), Exe :> Str(<<"m">>), Name :> Str(name)>>
PlugIn == Table(Base(OldApp \o <<"x">>, << >>)
                  \o <<Row("companion", Str(OldApp)),
                       Row("extension", Table(<<Row("attributes", Table(<<Row("app", Str(OldApp))>>))>>))>>)
Widget == Table(Base(OldApp \o OldApp, <<"w">>))
Quoted == <<"\"", "\\", "n", "\n", "\\">>
Unicode == <<"\\", "u", "0041">>

\* What another tool writes in its own way, some of it under an empty key.
TerseKinds ==
  <<Row("t1", Str(<<"&", "<">>)), Row("t2", Str(<<"\"", "'">>)), Row("t3", Str(<<"accented">>)),
    Row("t4", Str(<< >>)), Row("b1", Bytes(<<0>>)), Row("b2", Bytes(<< >>)),
    Row("e3", Table(<<(<< >>) :> Number(1), Row("t1", Bool(TRUE))>>))>>

Delivery(info, plug, faults) == [info |-> info, plug |-> plug, faults |-> faults]
Small(n) == Table(Base(OldApp, n) \o <<Row("t1", Str(<<"&">>))>>)
MCDeliveries ==
  {Delivery(AsXml(Table(Base(OldApp, Quoted) \o Kinds)), AsXml(PlugIn), 0),
   Delivery(AsBinary(Table(Base(OldApp, Unicode) \o BinaryKinds)), AsBinary(PlugIn), 0),
   Delivery(AsTerse(Table(Base(OldApp, << >>) \o TerseKinds)), AsTerse(PlugIn), 0),
   Delivery(AsXml(Small(Quoted)), AsXml(Widget), 1),
   Delivery(AsBinary(Table(<<Exe :> Str(<<"m">>)>>)), AsXml(Widget), 0)}

MCPaths == {<<"p">>, <<"p", "&", "<">>}
MCSumOf == [p \in MCPaths |-> IF Len(p) = 1 THEN <<255, 254, 253>> ELSE <<0, 63, 128, 200>>]
Entitlement ==
  AsXml(Table(<<Row("t1", Bool(TRUE)), Row("t2", Arr(<<Str(<<"g", "&">>), Str(<<"h">>)>>)),
                Row("e3", Table(<<Row("t1", Number(1)), Row("t2", Str([i \in 1 .. 130 |-> "z"]))>>))>>))

LongKey == AsXml(Dict([i \in 1 .. 130 |-> "z"] :> Bool(TRUE)))

Line(i, n) == [id |-> i, name |-> n, force |-> FALSE, ents |-> Entitlement]
MCOptions == {Line(None, None), [Line(None, <<"<", "n">>) EXCEPT !.ents = LongKey], Line(<<"n">>, None), Line(OldApp \o <<"b">>, None)}

MCKeyOrder ==
  << << >>, (<<"<", "k", "&">>), <<"app">>, <<"attributes">>, <<"b1">>, <<"b2">>, <<"companion">>, <<"d1">>,
    <<"d2">>, <<"e1">>, <<"e2">>, <<"e3">>, Exe, <<"extension">>, Listed, Listed2, Folders, HashKey,
    Id, Name, <<"p">>, <<"p", "&", "<">>, <<"r1">>, <<"r2">>, <<"r3">>, <<"r4">>,
    <<"t1">>, <<"t2">>, <<"t3">>, <<"t4">>, <<"t5">>, <<"t6">>, <<"t7">>, <<"t8">>, <<"t9">>, [i \in 1 .. 130 |-> "z"]>>
MCNumbers == -20 .. 60
==============================================================================
