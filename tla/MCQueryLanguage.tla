-------------------------- MODULE MCQueryLanguage --------------------------
(* Instances of QueryLanguage for TLC: an index and the queries over it. *)
EXTENDS QueryLanguage

CONSTANT MaxLength

MCSummers == {<<DayNumber(2024, 3, 31) * TicksPerDay + 1, DayNumber(2024, 10, 27) * TicksPerDay + 1>>}

\* In winter, but for the last.
MCToday == {<<2023, 12, 31>>, <<2024, 1, 1>>, <<2024, 2, 29>>, <<2024, 3, 6>>, <<2024, 4, 7>>}

Midday(date) == DayNumber(date[1], date[2], date[3]) * TicksPerDay + TicksPerDay \div 2

MCNumeral ==
    [c \in {"0", "1", "7", "2023", "2024", "01", "02", "12", "29", "31"} |->
        CASE c = "0" -> [digits |-> 1, value |-> 0]
          [] c = "1" -> [digits |-> 1, value |-> 1]
          [] c = "7" -> [digits |-> 1, value |-> 7]
          [] c = "2023" -> [digits |-> 4, value |-> 2023]
          [] c = "2024" -> [digits |-> 4, value |-> 2024]
          [] c = "01" -> [digits |-> 2, value |-> 1]
          [] c = "02" -> [digits |-> 2, value |-> 2]
          [] c = "12" -> [digits |-> 2, value |-> 12]
          [] c = "29" -> [digits |-> 2, value |-> 29]
          [] c = "31" -> [digits |-> 2, value |-> 31]]

MCExtensions == [image |-> {<<"x">>}, music |-> {<<"b">>}]

\* An entry of C:\t, or a folder of C:\; date <<>> is one that is not known,
\* part the time since midnight.
Named(name, attributes, size, date, part) ==
    LET tick == IF date = <<>> THEN 0
                ELSE DayNumber(date[1], date[2], date[3]) * TicksPerDay + part - Ahead(Midday(date))
    IN  [name |-> name,
         path |-> <<"C:", "\\">> \o (IF "d" \in attributes THEN <<>> ELSE <<"t", "\\">>) \o name,
         attributes |-> attributes, size |-> size, date |-> date,
         modified |-> tick, created |-> tick, accessed |-> tick]

MCIndexed ==
    {Named(<<"t">>, {"d"}, 0, <<2023, 11, 30>>, 0),
     Named(<<"t", "a", "b">>, {"d", "h"}, 0, <<2024, 2, 1>>, 0),
     Named(<<"a">>, {}, 0, <<>>, 0),
     Named(<<"A", "b">>, {"h"}, 1, <<2023, 12, 31>>, 1),
     Named(<<"b", "a", "b", "a">>, {}, 7, <<2024, 1, 1>>, 0),
     Named(<<"a", " ", "b">>, {"r"}, Kilo, <<2024, 1, 31>>, 1),
     Named(<<"a", ".", "x">>, {}, 10 * Kilo, <<2024, 2, 28>>, 0),
     Named(<<"b", "b", ".", "b">>, {"s"}, 7 * Kilo, <<2024, 2, 29>>, 3),
     Named(<<"a", "a", "b">>, {}, Kilo * Kilo, <<2024, 3, 3>>, 0),
     Named(<<"a", "a">>, {}, Kilo * Kilo, <<2024, 4, 1>>, 0),
     Named(<<"a", "b", "a">>, {}, Kilo * Kilo, <<2024, 4, 7>>, 1),
     [Named(<<"b", ".", "X">>, {}, Kilo * Kilo + 1, <<2024, 3, 6>>, 1) EXCEPT
        !.path = <<"C:", "\\", "t", "a", "b", "\\", "b", ".", "X">>]}

Words(characters, n) == BoundedSeq(characters, n)

\* Words with their quotes, bars, spaces and negations; options; patterns.
PlainTexts == Words({"a", "b", " ", Quote, "|", "!"}, MaxLength)
KeywordTexts == Words({"a", "A", " ", "|", "!", "folder:", "ww:", "path:", "case:", "nocase:"}, 4)
RegexTexts == {<<"regex:", " ">> \o t : t \in Words({"a", "b", " ", "|"}, 3)}
PatternTexts == Words({"a", "b", "*", "?"}, MaxLength - 1)

SizeValues == {<<c>> : c \in {"0", "1", "7"}} \cup {<<"1", "kb">>, <<"7", "kb">>, <<"1", "mb">>, <<"7", "tb">>}
DateValues == {<<"2024">>, <<"2023", "-", "12">>, <<"2024", "-", "02", "-", "29">>, <<"2023", "-", "02", "-", "31">>,
               <<"2024", "-", "01", "-", "01">>}
Operators == {"<", "<=", ">", ">=", "="}

ValueTexts ==
    {<<"size:">> \o v : v \in SizeValues}
    \cup {<<"size:", o>> \o v : o \in Operators, v \in SizeValues}
    \cup {<<"size:">> \o v \o <<s>> \o w : s \in {"..", "-"}, v, w \in SizeValues}
    \cup {<<"dm:", o>> \o v : o \in Operators, v \in DateValues}
    \cup {<<"dc:">> \o v \o <<"..">> \o w : v, w \in DateValues}
    \cup {<<"dm:">> \o v : v \in DateValues}
    \cup {<<"size:", c>> : c \in DOMAIN SizeConstant}
    \cup {<<"dm:", c>> : c \in DOMAIN DateConstant}
    \cup {<<"da:", ">", c>> : c \in DOMAIN DateConstant}

OtherTexts ==
    {<<w>> : w \in AloneWords}
    \cup {<<"ext:", "x">>, <<"ext:", "x", ";", "b">>, <<"ext:">>, <<"attrib:", "d", "h">>, <<"attrib:", "a">>}

MCQuestions ==
    LET other == ValueTexts \cup OtherTexts
        texts == PlainTexts \cup KeywordTexts \cup RegexTexts \cup PatternTexts
                     \cup other \cup {<<"!">> \o t : t \in other}
        dated == {<<"dm:", c>> : c \in DOMAIN DateConstant}
        categorized == Words({"a", "b", ".", " "}, 3) \X {"folder", "image", "music"}
    IN  {<<q[1], q[2], date, Midday(date)>> : q \in texts \X {"all"} \cup categorized, date \in {<<2024, 3, 6>>}}
        \cup {<<t, "all", date, Midday(date)>> : t \in dated, date \in MCToday}

MCExcludeFolders == {<<"c:", "\\", "t", "a">>}
=============================================================================
