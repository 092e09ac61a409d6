---------------------------- MODULE QueryLanguage ----------------------------
(***************************************************************************)
(* query.cpp, and NtfsIndex::Search: what a typed query selects from an    *)
(* index.  A text is a sequence of characters; a keyword with its colon, a *)
(* number, a unit and a date word count as one character.                  *)
(*                                                                         *)
(* Times are in ticks since a day long ago by clocks on standard time; the *)
(* constant bias of these from UTC shifts all of them alike and is left    *)
(* out.  In summer the clocks are ahead by Shift.                          *)
(***************************************************************************)
EXTENDS Integers, SequencesExt

CONSTANTS
    Questions,  \* what may be asked: a text, a category, the day, as <<y, m, d>>,
                \* and the time
    Indexed,    \* the index: records of name, path, attributes, size, modified,
                \* created, accessed, and date, the day of modified (in properties)
    Summers,    \* when daylight saving began, and when it ended: pairs of times
    Shift,      \* an hour
    Extensions, \* the extensions of each category
    ExcludeFolders, \* paths
    Numeral,    \* the numbers that may be typed: [digits, value] of each
    Kilo,       \* 1024 in the code
    SizeLimit,  \* sizes are computed modulo this, 2^64 in the code
    TicksPerDay

Quote == "\""

FirstYear == 1601
LastYear == 30827

VARIABLES text, category, now, clock, asked, found

vars == <<text, category, now, clock, asked, found>>

-----------------------------------------------------------------------------
(* Matching of text *)

ToLower(s) == [i \in DOMAIN s |-> CASE s[i] = "A" -> "a" [] s[i] = "B" -> "b" [] OTHER -> s[i]]

\* i, p: the next characters; star: the last star met, or 0; from: what it has
\* to take next.
Position(pattern) ==
    [i : Nat, p : 1 .. Len(pattern) + 1, star : 0 .. Len(pattern), from : Nat]

AtStart == [i |-> 1, p |-> 1, star |-> 0, from |-> 1]

\* Mutant of WildcardMatch: after a mismatch the star takes no more.
WildcardMatchStuck(t, pattern) ==
    LET Rest[s \in Position(pattern)] ==
            IF s.i > Len(t) THEN \A k \in s.p .. Len(pattern) : pattern[k] = "*"
            ELSE IF s.p <= Len(pattern) /\ pattern[s.p] \in {"?", t[s.i]}
                 THEN Rest[[s EXCEPT !.i = @ + 1, !.p = @ + 1]]
            ELSE s.p <= Len(pattern) /\ pattern[s.p] = "*" /\ Rest[[s EXCEPT !.p = @ + 1]]
    IN  Rest[AtStart]

\* A mismatch goes back to the star and gives it one more.
Matching(t, pattern) ==
    LET Rest[s \in Position(pattern)] ==
            IF s.i > Len(t) THEN \A k \in s.p .. Len(pattern) : pattern[k] = "*"
            ELSE IF s.p <= Len(pattern) /\ pattern[s.p] \in {"?", t[s.i]}
                 THEN Rest[[s EXCEPT !.i = @ + 1, !.p = @ + 1]]
            ELSE IF s.p <= Len(pattern) /\ pattern[s.p] = "*"
                 THEN Rest[[s EXCEPT !.p = @ + 1, !.star = s.p, !.from = s.i]]
            ELSE s.star # 0 /\ Rest[[s EXCEPT !.i = s.from + 1, !.p = s.star + 1, !.from = @ + 1]]
    IN  Rest

WildcardMatch(t, pattern) == Matching(t, pattern)[AtStart]

\* Where n occurs in h.
Occurrences(h, n) ==
    {i \in 1 .. Len(h) - Len(n) + 1 : SubSeq(h, i, i + Len(n) - 1) = n}

Alphanumeric == {"a", "A", "b", "B"}

WordBounds(h, n, i) ==
    /\ i > 1 => h[i - 1] \notin Alphanumeric
    /\ i + Len(n) <= Len(h) => h[i + Len(n)] \notin Alphanumeric

\* std::regex_search, of a pattern without other special characters than "|".
RegexSearch(h, pattern) ==
    LET bars == {0, Len(pattern) + 1} \cup {i \in DOMAIN pattern : pattern[i] = "|"}
    IN  \E i, j \in bars :
            /\ i < j /\ \A k \in bars : ~(i < k /\ k < j)
            /\ Occurrences(h, SubSeq(pattern, i + 1, j - 1)) # {}

MatchText(haystack, needle, options) ==
    LET h == IF "case:" \in options THEN haystack ELSE ToLower(haystack)
        n == IF "case:" \in options THEN needle ELSE ToLower(needle)
    IN  CASE "regex:" \in options -> RegexSearch(h, n)
          [] "regex:" \notin options /\ {"*", "?"} \cap ToSet(n) # {} -> WildcardMatch(h, n)
          [] OTHER -> \E i \in Occurrences(h, n) : "ww:" \in options => WordBounds(h, n, i)

LastDot(name) ==
    LET dots == {i \in DOMAIN name : name[i] = "."}
    IN  IF dots = {} THEN 0 ELSE CHOOSE i \in dots : \A j \in dots : j <= i

Extension(name) ==
    IF LastDot(name) = 0 THEN <<>> ELSE ToLower(SubSeq(name, LastDot(name) + 1, Len(name)))

\* The parts between semicolons, empty ones included.
MatchExt(name, wanted) ==
    LET seps == {0, Len(wanted) + 1} \cup {i \in DOMAIN wanted : wanted[i] = ";"}
    IN  \E i, j \in seps :
            /\ i < j /\ \A k \in seps : ~(i < k /\ k < j)
            /\ ToLower(SubSeq(wanted, i + 1, j - 1)) = Extension(name)

\* Letters that name no attribute are passed over.
MatchAttrib(attributes, letters) ==
    ToSet(letters) \cap {"r", "h", "s", "d"} \subseteq attributes

-----------------------------------------------------------------------------
(* Sizes *)

Failed == -1

\* A value that could not be parsed leaves the term as it was made.
Default == [op |-> "=", lo |-> 0, hi |-> 0]

Compared(op, value) == IF value = Failed THEN Default ELSE [op |-> op, lo |-> value, hi |-> 0]

Between(lo, hi) == IF Failed \in {lo, hi} THEN Default ELSE [op |-> "..", lo |-> lo, hi |-> hi]

CompareValue(v, x) ==
    CASE v.op = "=" -> x = v.lo
      [] v.op = "<" -> x < v.lo
      [] v.op = "<=" -> x <= v.lo
      [] v.op = ">" -> x > v.lo
      [] v.op = ">=" -> x >= v.lo
      [] v.op = ".." -> x >= v.lo /\ x < v.hi

\* ParseOperatorPrefix
HasOperator(t) == t # <<>> /\ t[1] \in {"<", "<=", ">", ">=", "="}

\* Mutant of Separator: a dash is looked for first.
SeparatorDash(t) ==
    LET dashes == {i \in 2 .. Len(t) : t[i] = "-"}
        dots == {i \in DOMAIN t : t[i] = ".."}
    IN  CASE dashes # {} -> Min(dashes)
          [] dashes = {} /\ dots # {} -> Min(dots)
          [] OTHER -> 0

\* SplitRange: the position of ".." or else of a dash behind the first character.
Separator(t) ==
    LET dots == {i \in DOMAIN t : t[i] = ".."}
        dashes == {i \in 2 .. Len(t) : t[i] = "-"}
    IN  CASE dots # {} -> Min(dots)
          [] dots = {} /\ dashes # {} -> Min(dashes)
          [] OTHER -> 0

Before(t, i) == SubSeq(t, 1, i - 1)
After(t, i) == SubSeq(t, i + 1, Len(t))

IsNumber(c) == c \in DOMAIN Numeral

Unit == [kb |-> Kilo, mb |-> Kilo * Kilo, gb |-> Kilo * Kilo * Kilo, tb |-> Kilo * Kilo * Kilo * Kilo]

\* The product may overflow.
ParseSizeNumber(t) ==
    CASE Len(t) = 1 /\ IsNumber(t[1]) -> Numeral[t[1]].value
      [] Len(t) = 2 /\ IsNumber(t[1]) /\ t[2] \in DOMAIN Unit ->
             (Numeral[t[1]].value * Unit[t[2]]) % SizeLimit
      [] OTHER -> Failed

SizeConstant ==
    LET mega == Kilo * Kilo
    IN  [empty |-> <<0, 0>>,
         tiny |-> <<1, 10 * Kilo>>,
         small |-> <<10 * Kilo + 1, 100 * Kilo>>,
         medium |-> <<100 * Kilo + 1, mega>>,
         large |-> <<mega + 1, 16 * mega>>,
         huge |-> <<16 * mega + 1, 128 * mega>>,
         gigantic |-> <<128 * mega + 1, SizeLimit - 1>>]

ParseSizeValue(t) ==
    LET sep == Separator(t)
    IN  CASE HasOperator(t) -> Compared(t[1], ParseSizeNumber(Tail(t)))
          [] ~HasOperator(t) /\ sep # 0 ->
                 Between(ParseSizeNumber(Before(t, sep)), ParseSizeNumber(After(t, sep)))
          [] ~HasOperator(t) /\ sep = 0 /\ Len(t) = 1 /\ t[1] \in DOMAIN SizeConstant ->
                 Between(SizeConstant[t[1]][1], SizeConstant[t[1]][2])
          [] OTHER -> Compared("=", ParseSizeNumber(t))

-----------------------------------------------------------------------------
(* Dates *)

\* The Gregorian calendar, with years that begin in March.
DayNumber(y, m, d) ==
    LET year == IF m <= 2 THEN y - 1 ELSE y
    IN  365 * year + year \div 4 - year \div 100 + year \div 400
            + ((153 * ((m + 9) % 12) + 2) \div 5) + d

\* 0 is Sunday.
DayOfWeek(day) == (day + 2) % 7

AddMonths(y, m, delta) ==
    LET total == y * 12 + (m - 1) + delta
    IN  <<total \div 12, (total % 12) + 1>>

DaysIn(y, m) ==
    DayNumber(IF m = 12 THEN y + 1 ELSE y, (m % 12) + 1, 1) - DayNumber(y, m, 1)

\* A date SystemTimeToFileTime has a time for.
IsDate(y, m, d) == y \in FirstYear .. LastYear /\ m \in 1 .. 12 /\ d \in 1 .. DaysIn(y, m)

\* How far the clocks are ahead at a time.
Ahead(time) == IF \E s \in Summers : s[1] <= time /\ time < s[2] THEN Shift ELSE 0

\* A time that people call a time of that day.
OnDay(time, y, m, d) == (time + Ahead(time)) \div TicksPerDay = DayNumber(y, m, d)

\* LocalFileTimeToFileTime takes the clocks to be ahead on any day by what they
\* are at the moment.  A date that does not exist becomes 0.
LocalDateToUtcFileTime(y, m, d) ==
    IF IsDate(y, m, d) THEN DayNumber(y, m, d) * TicksPerDay - Ahead(clock) ELSE 0

StartOfMonth(ym) == LocalDateToUtcFileTime(ym[1], ym[2], 1)

DateConstant ==
    [today |-> <<"day", 0>>, yesterday |-> <<"day", -1>>, tomorrow |-> <<"day", 1>>,
     thisweek |-> <<"week", 0>>, lastweek |-> <<"week", -1>>, nextweek |-> <<"week", 1>>,
     thismonth |-> <<"month", 0>>, lastmonth |-> <<"month", -1>>, nextmonth |-> <<"month", 1>>,
     thisyear |-> <<"year", 0>>, lastyear |-> <<"year", -1>>, nextyear |-> <<"year", 1>>]

\* When the period begins, and when the next one does.
ResolveDateConstant(word, date) ==
    LET unit == DateConstant[word][1]
        delta == DateConstant[word][2]
        today == DayNumber(date[1], date[2], date[3])
        startOfDay(days) == LocalDateToUtcFileTime(date[1], date[2], date[3]) + days * TicksPerDay
        sunday == delta * 7 - DayOfWeek(today)
    IN  CASE unit = "day" -> <<startOfDay(delta), startOfDay(delta + 1)>>
          [] unit = "week" -> <<startOfDay(sunday), startOfDay(sunday + 7)>>
          [] unit = "month" -> <<StartOfMonth(AddMonths(date[1], date[2], delta)),
                                 StartOfMonth(AddMonths(date[1], date[2], delta + 1))>>
          [] unit = "year" -> <<StartOfMonth(<<date[1] + delta, 1>>),
                                StartOfMonth(<<date[1] + delta + 1, 1>>)>>

IsDateConstant(t) == Len(t) = 1 /\ t[1] \in DOMAIN DateConstant

\* The first two digits.
TwoDigits(c) ==
    CASE ~IsNumber(c) -> 0
      [] IsNumber(c) /\ Numeral[c].digits = 4 -> Numeral[c].value \div 100
      [] OTHER -> Numeral[c].value

\* ParseAbsoluteDate, and the time its day begins.  Months and days are taken
\* to be typed with two digits.
AbsoluteDate(t) ==
    LET year == t # <<>> /\ IsNumber(t[1]) /\ Numeral[t[1]].digits = 4
        hasMonth == Len(t) >= 3 /\ t[2] = "-"
        hasDay == hasMonth /\ Len(t) >= 5 /\ t[4] = "-"
        month == IF hasMonth THEN TwoDigits(t[3]) ELSE 1
        day == IF hasDay THEN TwoDigits(t[5]) ELSE 1
    IN  IF year /\ month \in 1 .. 12 /\ day \in 1 .. 31
        THEN LocalDateToUtcFileTime(Numeral[t[1]].value, month, day)
        ELSE Failed

ParseDateValue(t) ==
    LET sep == Separator(t)
        period(word) == ResolveDateConstant(word, now)
        begin == AbsoluteDate(t)
    IN  CASE HasOperator(t) ->
                 Compared(t[1], IF IsDateConstant(Tail(t)) THEN period(t[2])[1] ELSE AbsoluteDate(Tail(t)))
          [] ~HasOperator(t) /\ sep # 0 ->
                 Between(AbsoluteDate(Before(t, sep)), AbsoluteDate(After(t, sep)))
          [] ~HasOperator(t) /\ sep = 0 /\ IsDateConstant(t) -> Between(period(t[1])[1], period(t[1])[2])
          [] OTHER -> Between(begin, IF begin = Failed THEN Failed ELSE begin + TicksPerDay)

-----------------------------------------------------------------------------
(* Parsing of a query *)

ReadCharacter(state, c) ==
    LET cut == IF state.current = <<>> THEN state.tokens ELSE Append(state.tokens, state.current)
    IN  CASE c = Quote -> [state EXCEPT !.quoted = ~@]
          [] c = " " /\ ~state.quoted -> [state EXCEPT !.tokens = cut, !.current = <<>>]
          [] c = "|" /\ ~state.quoted ->
                 [state EXCEPT !.tokens = Append(cut, <<"|">>), !.current = <<>>]
          [] OTHER -> [state EXCEPT !.current = Append(@, c)]

\* The variables of the loop after n characters.
Reading(raw) ==
    LET read[n \in 0 .. Len(raw)] ==
            IF n = 0 THEN [tokens |-> <<>>, current |-> <<>>, quoted |-> FALSE]
            ELSE ReadCharacter(read[n - 1], raw[n])
    IN  read

Tokenize(raw) ==
    LET end == Reading(raw)[Len(raw)]
    IN  IF end.current = <<>> THEN end.tokens ELSE Append(end.tokens, end.current)

OptionWords == {"case:", "ww:", "path:", "regex:"}  \* ww: is wholeword:, too
ResetWords == [c \in {"nocase:", "nowholeword:", "nopath:", "noregex:"} |->
    CASE c = "nocase:" -> "case:" [] c = "nowholeword:" -> "ww:"
      [] c = "nopath:" -> "path:" [] c = "noregex:" -> "regex:"]

\* A toggle counts wherever it stands; the last one of an option decides.
ReadToken(sorted, token) ==
    CASE Len(token) = 1 /\ token[1] \in OptionWords ->
             [sorted EXCEPT !.options = @ \cup {token[1]}]
      [] Len(token) = 1 /\ token[1] \in DOMAIN ResetWords ->
             [sorted EXCEPT !.options = @ \ {ResetWords[token[1]]}]
      [] OTHER -> [sorted EXCEPT !.remaining = Append(@, token)]

\* The options and the remaining tokens, after n tokens.
Sorting(tokens) ==
    LET sorted[n \in 0 .. Len(tokens)] ==
            IF n = 0 THEN [options |-> {}, remaining |-> <<>>]
            ELSE ReadToken(sorted[n - 1], tokens[n])
    IN  sorted

DateField == [c \in {"dm:", "dc:", "da:"} |->
    CASE c = "dm:" -> "modified" [] c = "dc:" -> "created" [] c = "da:" -> "accessed"]
AloneWords == {"folder:", "file:", "dupe:", "sizedupe:", "namepartdupe:", "attribdupe:",
               "dmdupe:", "dcdupe:", "dadupe:"}
ValueWords == {"ext:", "attrib:", "size:"} \cup DOMAIN DateField

\* A word that has to stand alone but does not is text.
TermOf(negate, body) ==
    LET kind == IF \/ Len(body) = 1 /\ body[1] \in AloneWords
                   \/ body # <<>> /\ body[1] \in ValueWords
                THEN body[1] ELSE "text"
    IN  [negate |-> negate,
         kind |-> kind,
         text |-> IF kind = "text" THEN body ELSE Tail(body),
         value |-> CASE kind = "size:" -> ParseSizeValue(Tail(body))
                     [] kind \in DOMAIN DateField -> ParseDateValue(Tail(body))
                     [] OTHER -> Default]

ParseTerm(token) ==
    TermOf(token[1] = "!", IF token[1] = "!" THEN Tail(token) ELSE token)

\* Mutant of AddToken: the terms after a bar go on with the group before it.
AddTokenSameGroup(groups, token) ==
    IF token = <<"|">> THEN groups
    ELSE [groups EXCEPT ![Len(groups)] = Append(@, ParseTerm(token))]

\* The last group is the current one.
AddToken(groups, token) ==
    IF token = <<"|">>
    THEN IF Last(groups) = <<>> THEN groups ELSE Append(groups, <<>>)
    ELSE [groups EXCEPT ![Len(groups)] = Append(@, ParseTerm(token))]

Joined(tokens) ==
    FoldLeft(LAMBDA pattern, t : IF pattern = <<>> THEN t ELSE pattern \o <<" ">> \o t, <<>>, tokens)

\* The groups after n tokens, the current one last.
Grouping(tokens) ==
    LET groups[n \in 0 .. Len(tokens)] ==
            IF n = 0 THEN <<<<>>>> ELSE AddToken(groups[n - 1], tokens[n])
    IN  groups

\* The current group counts unless it is empty.
Closed(groups) == IF Last(groups) = <<>> THEN Front(groups) ELSE groups

Groups(tokens) == Closed(Grouping(tokens)[Len(tokens)])

ParseQuery(raw) ==
    LET tokens == Tokenize(raw)
        sorted == Sorting(tokens)[Len(tokens)]
        pattern == [negate |-> FALSE, kind |-> "text", text |-> Joined(sorted.remaining),
                    value |-> Default]
    IN  [options |-> sorted.options,
         groups |-> IF "regex:" \in sorted.options THEN <<<<pattern>>>>
                    ELSE Groups(sorted.remaining)]

-----------------------------------------------------------------------------
(* Matching of entries *)

\* BuildDupeSet: another entry of the index has the same key.  A date that is
\* not known is nobody's.
Duplicate(kind, e) ==
    LET namePart(n) == ToLower(IF LastDot(n) = 0 THEN n ELSE SubSeq(n, 1, LastDot(n) - 1))
        same(f) ==
            CASE kind = "dupe:" -> ToLower(e.name) = ToLower(f.name)
              [] kind = "sizedupe:" -> e.size = f.size
              [] kind = "namepartdupe:" -> namePart(e.name) = namePart(f.name)
              [] kind = "attribdupe:" -> e.attributes = f.attributes
              [] kind = "dmdupe:" -> e.modified = f.modified /\ e.modified # 0
              [] kind = "dcdupe:" -> e.created = f.created /\ e.created # 0
              [] kind = "dadupe:" -> e.accessed = f.accessed /\ e.accessed # 0
    IN  \E f \in Indexed \ {e} : same(f)

MatchesTerm(term, options, e) ==
    CASE term.kind = "ext:" -> MatchExt(e.name, term.text)
      [] term.kind = "folder:" -> "d" \in e.attributes
      [] term.kind = "file:" -> "d" \notin e.attributes
      [] term.kind = "attrib:" -> MatchAttrib(e.attributes, term.text)
      [] term.kind = "size:" -> CompareValue(term.value, e.size)
      [] term.kind \in DOMAIN DateField ->
             /\ e[DateField[term.kind]] # 0
             /\ CompareValue(term.value, e[DateField[term.kind]])
      [] term.kind = "text" ->
             MatchText(IF "path:" \in options THEN e.path ELSE e.name, term.text, options)
      [] OTHER -> Duplicate(term.kind, e)

MatchesQuery(q, e) ==
    \E g \in ToSet(q.groups) :
        \A term \in ToSet(g) : MatchesTerm(term, q.options, e) = ~term.negate

\* CATEGORIES, enum EC_Category and enum class ResultCategory, in their order.
Categories ==
    <<"all", "music", "archive", "document", "executable", "folder", "image", "video">>

\* Mutant of ResultCategory: another order than that of CATEGORIES.
ResultCategoryMoved ==
    <<"all", "music", "archive", "document", "executable", "image", "folder", "video">>

ResultCategory ==
    <<"all", "music", "archive", "document", "executable", "folder", "image", "video">>

\* Numbers are no words of the language; names hold no star; an entry has a
\* date when it has a time.
ASSUME QueryAssumption ==
    /\ Kilo \in Nat /\ SizeLimit \in Nat \ {0} /\ TicksPerDay \in Nat \ {0}
    /\ Summers \subseteq Nat \X Nat /\ Shift \in 0 .. TicksPerDay - 1
    /\ DOMAIN Extensions \subseteq ToSet(Categories)
    /\ \A c \in DOMAIN Numeral : Numeral[c].digits \in Nat /\ Numeral[c].value \in Nat
    /\ DOMAIN Numeral \cap ({"<", "<=", ">", ">=", "="} \cup DOMAIN DateConstant) = {}
    /\ \A question \in Questions :
           /\ question[1] \in Seq(STRING)
           /\ question[2] \in {"all", "folder"} \cup DOMAIN Extensions
           /\ question[3][1] \in FirstYear + 1 .. LastYear - 2
           /\ IsDate(question[3][1], question[3][2], question[3][3])
           /\ question[4] \in Nat
           /\ OnDay(question[4], question[3][1], question[3][2], question[3][3])
    /\ \A e \in Indexed :
           /\ e.name \in Seq(STRING) /\ "*" \notin ToSet(e.name) /\ e.path \in Seq(STRING)
           /\ {e.size, e.modified, e.created, e.accessed} \subseteq Nat
           /\ e.modified = 0 <=> e.date = <<>>
           /\ e.modified # 0 =>
                  /\ IsDate(e.date[1], e.date[2], e.date[3])
                  /\ OnDay(e.modified, e.date[1], e.date[2], e.date[3])

CategoryIndex(name) == CHOOSE i \in DOMAIN Categories : Categories[i] = name

MatchesCategory(kind, e) ==
    CASE kind = "all" -> TRUE
      [] kind = "folder" -> "d" \in e.attributes
      [] OTHER -> "d" \notin e.attributes /\ LastDot(e.name) # 0 /\ Extension(e.name) \in Extensions[kind]

\* The folder itself, or what follows it with a separator.
IsUnderFolder(path, folder) ==
    /\ IsPrefix(ToLower(folder), ToLower(path))
    /\ Len(path) > Len(folder) => path[Len(folder) + 1] = "\\"

\* NtfsIndex::Search without its limit, called with an index for the category.
Rows(raw) ==
    LET q == ParseQuery(raw)
        kind == ResultCategory[CategoryIndex(category)]
    IN  {e \in Indexed :
            /\ q.groups = <<>> \/ MatchesQuery(q, e)
            /\ MatchesCategory(kind, e)
            /\ \A folder \in ExcludeFolders : ~IsUnderFolder(e.path, folder)}

\* file_search.search and matches_category, the search without the DLL.
SlowRows(raw) ==
    LET ends == {0, Len(raw) + 1} \cup {i \in DOMAIN raw : raw[i] = " "}
        spans == {p \in ends \X ends : p[1] < p[2] /\ \A k \in ends : ~(p[1] < k /\ k < p[2])}
        terms == {ToLower(SubSeq(raw, p[1] + 1, p[2] - 1)) : p \in spans} \ {<<>>}
        kind == category
    IN  {e \in Indexed :
            /\ \A term \in terms :
                   Occurrences(ToLower(e.name) \o <<" ">> \o ToLower(e.path), term) # {}
            /\ MatchesCategory(kind, e)}

Init ==
    /\ \E question \in Questions :
           /\ text = question[1] /\ category = question[2]
           /\ now = question[3] /\ clock = question[4]
    /\ asked = FALSE
    /\ found = {}

Search ==
    /\ ~asked
    /\ asked' = TRUE
    /\ found' = Rows(text)
    /\ UNCHANGED <<text, category, now, clock>>

Next == Search

Spec == Init /\ [][Next]_vars

-----------------------------------------------------------------------------
(* Properties: how the answers to different queries are related. *)

Toggled(raw) == ToSet(raw) \cap (OptionWords \cup DOMAIN ResetWords) # {}

Balanced(raw) == Cardinality({i \in DOMAIN raw : raw[i] = Quote}) % 2 = 0

Plain(raw) == ToSet(raw) \subseteq Alphanumeric \cup {".", " "}

\* A pattern matches a text when the text can be cut into what each of its
\* characters takes: a star anything, the others one character.
Glob(t, pattern) ==
    \E cut \in [1 .. Len(pattern) + 1 -> 1 .. Len(t) + 1] :
        /\ cut[1] = 1 /\ cut[Len(pattern) + 1] = Len(t) + 1
        /\ \A p \in DOMAIN pattern :
               IF pattern[p] = "*" THEN cut[p] <= cut[p + 1]
               ELSE /\ cut[p + 1] = cut[p] + 1
                    /\ pattern[p] \in {"?", t[cut[p]]}

\* The backtracking of WildcardMatch finds a match whenever there is one.
GlobMatches ==
    asked /\ category = "all"
          /\ ToSet(text) \subseteq Alphanumeric \cup {"*", "?"} /\ {"*", "?"} \cap ToSet(text) # {} =>
        found = {e \in Rows(<<>>) : Glob(ToLower(e.name), ToLower(text))}

\* "OR": a bar outside quotes, with something to look for on both sides, finds
\* what either side finds.
BarIsUnion ==
    asked /\ ~Toggled(text) =>
        \A i \in DOMAIN text :
            LET left == Before(text, i)
                right == After(text, i)
            IN  /\ text[i] = "|" /\ Balanced(left)
                /\ \A side \in {left, right} : ParseQuery(side).groups # <<>>
                => found = Rows(left) \cup Rows(right)

\* A space outside quotes is an "and".
SpaceIsIntersection ==
    asked /\ ~Toggled(text) /\ "|" \notin ToSet(text) =>
        \A i \in DOMAIN text :
            text[i] = " " /\ Balanced(Before(text, i)) =>
                found = Rows(Before(text, i)) \cap Rows(After(text, i))

\* "NOT": what ! and one word find is all that the word alone does not find,
\* entries whose size or date is not known included.
BangIsComplement ==
    asked /\ ~Toggled(text) /\ text # <<>> /\ {" ", "|", Quote} \cap ToSet(text) = {} =>
        \/ text[1] # "!"
        \/ Len(text) > 1 /\ text[2] = "!"
        \/ found = Rows(<<>>) \ Rows(Tail(text))

\* What is typed is evaluated as it reads, although the text is cut in one loop
\* and the groups are built in another.
OperatorsAreBoolean == BarIsUnion /\ SpaceIsIntersection /\ BangIsComplement

\* A range is what lies on or above its lower and below its upper bound, for
\* sizes and for dates.
RangeIsBothBounds ==
    asked => \A i \in 2 .. Len(text) :
        LET lower == SubSeq(text, 2, i - 1)
            upper == After(text, i)
            known(t) == IF text[1] = "size:" THEN ParseSizeNumber(t) ELSE AbsoluteDate(t)
        IN  /\ text[1] \in {"size:"} \cup DOMAIN DateField
            /\ text[i] \in (IF text[1] = "size:" THEN {"..", "-"} ELSE {".."})
            /\ ToSet(lower \o upper) \cap {"..", " ", "|", Quote} = {}
            /\ known(lower) # Failed /\ known(upper) # Failed
            => found = Rows(<<text[1], ">=">> \o lower) \cap Rows(<<text[1], "<">> \o upper)

\* Set to what it is at the moment, a clock would have shown another day.
AcrossMidnight(e) ==
    LET sinceMidnight == (e.modified + Ahead(e.modified)) % TicksPerDay
    IN  sinceMidnight + Ahead(clock) - Ahead(e.modified) \notin 0 .. TicksPerDay - 1

\* What a word for a period means: a day, a week from Sunday, a month or a year
\* of the calendar, before, at or after that of a date.
InPeriod(word, day, date) ==
    LET unit == DateConstant[word][1]
        delta == DateConstant[word][2]
        number(of) ==
            LET days == DayNumber(of[1], of[2], of[3])
            IN  CASE unit = "day" -> days
                  [] unit = "week" -> (days + 2) \div 7
                  [] unit = "month" -> 12 * of[1] + of[2]
                  [] unit = "year" -> of[1]
    IN  number(day) = number(date) + delta

\* The periods named by a word are those of the calendar, but for the hour by
\* which the clocks of a day were not set as they are at the moment.
PeriodsAreCalendar ==
    asked /\ text \in {<<"dm:", word>> : word \in DOMAIN DateConstant} =>
        \A e \in Rows(<<>>) :
            \/ e.date # <<>> /\ AcrossMidnight(e)
            \/ e \in found <=> e.date # <<>> /\ InPeriod(text[2], e.date, now)

\* Bounds are kept at both ends, where they were written and, within an hour,
\* where they are a calendar's.
BoundsAreMeant == RangeIsBothBounds /\ PeriodsAreCalendar

\* What the fast engine finds for plain words the slow search finds as well,
\* which looks at the path, too.
SlowFindsAll == asked /\ Plain(text) => found \subseteq SlowRows(text)

(* What README.md says of the language, and the code does not do. *)

\* "YYYY-MM-DD absolute dates": the date of an entry finds it.
DateIsFound ==
    asked /\ Len(text) = 6 /\ text[1] = "dm:" /\ AbsoluteDate(Tail(text)) # Failed =>
        found = {e \in Rows(<<>>) :
                     e.date = <<Numeral[text[2]].value, TwoDigits(text[4]), TwoDigits(text[6])>>}

\* Periods "can be off by up to an hour right around a DST transition": otherwise
\* they are the calendar's.
OffWhenClocksChange ==
    asked /\ text \in {<<"dm:", word>> : word \in DOMAIN DateConstant} =>
        \A e \in Rows(<<>>) :
            \/ \E s \in Summers : \E change \in ToSet(s), time \in {clock, e.modified} :
                   change \in time - TicksPerDay .. time + TicksPerDay
            \/ e \in found <=> e.date # <<>> /\ InPeriod(text[2], e.date, now)

\* A word is looked for in "the name or the path".
WordIsInNameOrPath ==
    asked /\ category = "all" /\ text # <<>> /\ ToSet(text) \subseteq Alphanumeric =>
        found = {e \in Rows(<<>>) :
                     \E where \in {e.name, e.path} : Occurrences(ToLower(where), ToLower(text)) # {}}

\* "An exact phrase": what is in quotes is looked for as it is.
PhraseIsText ==
    asked /\ category = "all" /\ Len(text) > 2 /\ text[1] = Quote /\ text[Len(text)] = Quote =>
        LET phrase == SubSeq(text, 2, Len(text) - 1)
        IN  Quote \in ToSet(phrase) \/ found = {e \in Rows(<<>>) : MatchText(e.name, phrase, {})}

\* "The rest as a whole is a regular expression".
RegexIsRest ==
    asked /\ category = "all" /\ Len(text) > 2 /\ text[1] = "regex:" /\ text[2] = " "
          /\ Quote \notin ToSet(text) /\ ~Toggled(Tail(text)) =>
        found = {e \in Rows(<<>>) :
                     RegexSearch(ToLower(e.name), ToLower(SubSeq(text, 3, Len(text))))}

\* The seven names of sizes leave no size out.
SizesAreNamed ==
    \A e \in Rows(<<>>) :
        \E word \in DOMAIN SizeConstant : CompareValue(ParseSizeValue(<<word>>), e.size)
=============================================================================
