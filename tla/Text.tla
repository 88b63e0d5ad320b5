--------------------------------- MODULE Text ---------------------------------
(***************************************************************************)
(* Functions of upnpplib.cxx, smallut.cpp and base64.cxx on text: lists of *)
(* strings and the one string they are put into, escapes, splitting,       *)
(* numbers.  A string is a sequence of characters, which are strings of    *)
(* length one here, or their codes where a function computes with them.    *)
(*                                                                         *)
(* The state machine makes one call: a state is a call and its result.     *)
(***************************************************************************)
EXTENDS Base64, FiniteSetsExt

CONSTANTS
  Chars,     \* characters of the strings that are put together
  MaxLen,    \* bound: length of strings
  MaxTokens, \* bound: length of lists
  Codes,     \* bytes of URLs and of data
  Bits       \* width of integers

VARIABLES call, result
textVars == <<call, result>>

Whites == {" ", "\t", "\n", "\r"}
Strings(chars) == BoundedSeq(chars, MaxLen)
\* The shortest strings say most about lists of them.
TextLists == BoundedSeq(BoundedSeq(Chars, 2), MaxTokens)
Join(tokens, sep) ==
  FlattenSeq([i \in DOMAIN tokens |-> IF i = 1 THEN tokens[i] ELSE sep \o tokens[i]])
NextIn(s, set, i) == Min({j \in i..Len(s) : s[j] \in set} \cup {Len(s) + 1})
NextNotIn(s, set, i) == Min({j \in i..Len(s) : s[j] \notin set} \cup {Len(s) + 1})

-----------------------------------------------------------------------------
(* Lists of strings in one.                                                 *)

\* csvToStrings(): commas, escaped with backslashes.
CsvStep(p, c) ==
  CASE c = "," /\ ~p.escape -> [p EXCEPT !.tokens = Append(@, p.current), !.current = <<>>]
    [] c = "\\" /\ ~p.escape -> [p EXCEPT !.escape = TRUE]
    [] OTHER -> [p EXCEPT !.current = Append(@, c), !.escape = FALSE]
CsvToStrings(s) ==
  LET p == FoldLeft(CsvStep, [tokens |-> <<>>, current |-> <<>>, escape |-> FALSE], s)
  IN  [ok |-> ~p.escape, tokens |-> IF p.escape THEN p.tokens ELSE Append(p.tokens, p.current)]

\* stringToStrings(): blanks, double quotes, and backslashes inside of them.
\* A blank after a backslash leaves the state as it is.
InSpace(p, c, addseps) ==
  CASE c = "\"" -> [p EXCEPT !.state = "inquote"]
    [] c \in Whites -> p
    [] c \in addseps -> [p EXCEPT !.tokens = Append(@, <<c>>)]
    [] OTHER -> [p EXCEPT !.current = Append(@, c), !.state = "token"]
InToken(p, c, addseps) ==
  CASE c \in Whites ->
         [tokens |-> Append(p.tokens, p.current), current |-> <<>>, state |-> "space"]
    [] c \in addseps ->
         [tokens |-> p.tokens \o <<p.current, <<c>>>>, current |-> <<>>, state |-> "space"]
    [] OTHER -> [p EXCEPT !.current = Append(@, c)]
InQuote(p, c) ==
  CASE c = "\"" -> [tokens |-> Append(p.tokens, p.current), current |-> <<>>, state |-> "space"]
    [] c = "\\" -> [p EXCEPT !.state = "escape"]
    [] OTHER -> [p EXCEPT !.current = Append(@, c)]
InEscape(p, c) ==
  [p EXCEPT !.current = Append(@, c), !.state = IF c \in Whites THEN "escape" ELSE "inquote"]

StringToStrings(s, addseps) ==
  LET Step(p, c) ==
        CASE p.state = "space" -> InSpace(p, c, addseps)
          [] p.state = "token" -> InToken(p, c, addseps)
          [] p.state = "inquote" -> InQuote(p, c)
          [] p.state = "escape" -> InEscape(p, c)
      p == FoldLeft(Step, [tokens |-> <<>>, current |-> <<>>, state |-> "space"], s)
  IN  [ok |-> p.state \in {"space", "token"},
       tokens |-> IF p.state = "token" THEN Append(p.tokens, p.current) ELSE p.tokens]

\* stringsToString(): a carriage return is no blank here, and backslashes are
\* put before quotes alone.
Quoted(token) ==
  LET escaped == FlattenSeq([i \in DOMAIN token |->
                   IF token[i] = "\"" THEN <<"\\", "\"">> ELSE <<token[i]>>])
  IN  IF token = <<>> \/ ToSet(token) \cap (Whites \ {"\r"}) # {}
        THEN <<"\"">> \o escaped \o <<"\"">> ELSE escaped
StringsToString(tokens) == Join([i \in DOMAIN tokens |-> Quoted(tokens[i])], <<" ">>)

-----------------------------------------------------------------------------
(* Splitting.                                                               *)

StringToTokens(str, delims, skipinit, allowempty) ==
  LET n == Len(str)
      first == IF skipinit THEN NextNotIn(str, delims, 1) ELSE 1
      from[start \in 1..(n + 1)] ==
        LET pos == NextIn(str, delims, start) IN
        IF start > n THEN <<>>
        ELSE IF pos > n THEN <<SubSeq(str, start, n)>>
        ELSE (IF pos = start /\ ~allowempty /\ start # first
                THEN <<>> ELSE <<SubSeq(str, start, pos - 1)>>) \o from[pos + 1]
  IN  from[first]

\* As if the search went on one character after a separator of any length.
StringSplitString_One(str, sep) ==
  LET n == Len(str)
      Next_(i) == Min({j \in i..(n + 1 - Len(sep)) : SubSeq(str, j, j + Len(sep) - 1) = sep}
                        \cup {n + 1})
      from[start \in 1..(n + Len(sep))] ==
        IF start > n THEN <<>>
        ELSE IF Next_(start) > n THEN <<SubSeq(str, start, n)>>
        ELSE <<SubSeq(str, start, Next_(start) - 1)>> \o from[Next_(start) + 1]
  IN  IF sep = <<>> THEN <<>> ELSE from[1]
StringSplitString(str, sep) ==
  LET n == Len(str)
      Next_(i) == Min({j \in i..(n + 1 - Len(sep)) : SubSeq(str, j, j + Len(sep) - 1) = sep}
                        \cup {n + 1})
      from[start \in 1..(n + Len(sep))] ==
        IF start > n THEN <<>>
        ELSE IF Next_(start) > n THEN <<SubSeq(str, start, n)>>
        ELSE <<SubSeq(str, start, Next_(start) - 1)>> \o from[Next_(start) + Len(sep)]
  IN  IF sep = <<>> THEN <<>> ELSE from[1]

\* neutchars(): a run of the characters becomes one replacement, and a leading
\* run nothing.
Neutchars(str, chars, rep) ==
  LET n == Len(str)
      from[at \in 1..(n + 1)] ==
        LET start == NextNotIn(str, chars, at)
            pos == NextIn(str, chars, start)
        IN  IF start > n THEN <<>>
            ELSE IF pos > n THEN SubSeq(str, start, n)
            ELSE SubSeq(str, start, pos - 1) \o <<rep>> \o from[pos]
  IN  from[1]

\* breakIntoLines(): one line more than maxlines, then dots.  A line ends after
\* the last blank it has room for, or after the first one there is.
LineAt(in, start, ll) ==
  LET n == Len(in)
      room == start..(start + ll - 1)
      blanks == {j \in start..n : in[j] = " "}
  IN  IF start + ll - 1 > n THEN SubSeq(in, start, n)
      ELSE IF blanks \cap room # {} THEN SubSeq(in, start, Max(blanks \cap room))
      ELSE IF blanks # {} THEN SubSeq(in, start, Min(blanks))
      ELSE SubSeq(in, start, n)
BreakIntoLines(in, ll, maxlines) ==
  LET from[start \in 1..(Len(in) + 1), nlines \in 0..(maxlines + 1)] ==
        LET line == LineAt(in, start, ll) IN
        IF start > Len(in) THEN <<>>
        ELSE IF nlines >= maxlines THEN <<line, <<".", ".", ".">>>>
        ELSE <<line>> \o from[start + Len(line), nlines + 1]
  IN  from[1, 0]

-----------------------------------------------------------------------------
(* Escapes and substitutions.                                               *)

Percent == 37
Hex(d) == IF d < 10 THEN 48 + d ELSE 55 + d
H2D(c) ==
  CASE c \in 48..57 -> c - 48
    [] c \in 65..70 -> c - 55
    [] c \in 97..102 -> c - 87
    [] OTHER -> -1

\* reSanitizeURL(), with the default of the characters to escape: !$'()+,
ReSanitizeURL(in) ==
  FlattenSeq([i \in DOMAIN in |->
    LET c == in[i] IN
    IF c <= 32 \/ c >= 127 \/ c \in {33, 36, 39, 40, 41, 43, 44}
      THEN <<Percent, Hex(c \div 16), Hex(c % 16)>> ELSE <<c>>])

\* pc_decode(): after a percent sign the two next characters are used or copied.
PcDecode(in) ==
  LET n == Len(in)
      from[i \in 1..(n + 1)] ==
        IF i > n THEN <<>>
        ELSE IF i > n - 2 \/ in[i] # Percent THEN <<in[i]>> \o from[i + 1]
        ELSE LET d1 == H2D(in[i + 1])
                 d2 == H2D(in[i + 2])
             IN  (IF d1 # -1 /\ d2 # -1 THEN <<d1 * 16 + d2>> ELSE SubSeq(in, i, i + 2))
                   \o from[i + 3]
  IN  from[1]

\* pcSubst() of one-letter keys.
PcSubst(in, subs) ==
  LET n == Len(in)
      from[i \in 1..(n + 1)] ==
        IF i > n THEN <<>>
        ELSE IF in[i] # "%" THEN <<in[i]>> \o from[i + 1]
        ELSE IF i = n THEN <<"%">>
        ELSE (CASE in[i + 1] = "%" -> <<"%">>
                [] in[i + 1] \in DOMAIN subs -> subs[in[i + 1]]
                [] OTHER -> <<"%", in[i + 1]>>) \o from[i + 2]
  IN  from[1]

\* domap(): an unknown key of one letter loses its parentheses.
DoMap(key, subs) ==
  CASE Len(key) = 1 /\ key[1] \in DOMAIN subs -> subs[key[1]]
    [] Len(key) = 1 /\ key[1] \notin DOMAIN subs -> <<"%">> \o key
    [] OTHER -> <<"%", "(">> \o key \o <<")">>
\* pcSubst() of keys with and without parentheses.
PcSubstMap(in, subs) ==
  LET n == Len(in)
      from[i \in 1..(n + 1)] ==
        LET close == NextIn(in, {")"}, i + 2) IN
        IF i > n THEN <<>>
        ELSE IF in[i] # "%" THEN <<in[i]>> \o from[i + 1]
        ELSE IF i = n THEN <<"%">>
        ELSE IF in[i + 1] = "%" THEN <<"%">> \o from[i + 2]
        ELSE IF in[i + 1] # "(" THEN DoMap(<<in[i + 1]>>, subs) \o from[i + 2]
        ELSE IF close > n THEN SubSeq(in, i, n)
        ELSE DoMap(SubSeq(in, i + 2, close - 1), subs) \o from[close + 1]
  IN  from[1]

-----------------------------------------------------------------------------
(* Numbers.                                                                 *)

Lowest == -(2 ^ (Bits - 1))
\* The remainder has the sign of the number.
CRem(a, b) == IF a < 0 THEN -((-a) % b) ELSE a % b
CDiv(a, b) == IF a < 0 THEN -((-a) \div b) ELSE a \div b
\* lltodecstr(): the lowest number is its own opposite.
LLToDecStr(val) ==
  LET magnitude == IF val < 0 /\ val # Lowest THEN -val ELSE val
      digits[v \in Lowest..(-Lowest - 1)] ==
        (IF CDiv(v, 10) = 0 THEN <<>> ELSE digits[CDiv(v, 10)]) \o <<CRem(v, 10)>>
  IN  [neg |-> val < 0, digits |-> digits[magnitude]]

-----------------------------------------------------------------------------

TextInit == call = [fn |-> "none"] /\ result = <<>>

Calls(fn, args, r) ==
  call' = [fn |-> fn, in |-> args] /\ result' = r

\* What a comma separated list should look like.
Escaped(token) ==
  FlattenSeq([i \in DOMAIN token |->
    IF token[i] \in {",", "\\"} THEN <<"\\", token[i]>> ELSE <<token[i]>>])
CallCsv ==
  \E l \in TextLists \ {<<>>} :
    Calls("csv", l, CsvToStrings(Join([i \in DOMAIN l |-> Escaped(l[i])], <<",">>)))
CallStrings == \E l \in TextLists : Calls("strings", l, StringToStrings(StringsToString(l), {}))
CallAddSeps ==
  \E s \in Strings(Chars) : Calls("addseps", s, StringToStrings(s, {","}))
CallTokens ==
  \E s \in Strings({"a", " ", ","}) :
    Calls("tokens", s, [tokens |-> StringToTokens(s, {" ", ","}, TRUE, FALSE),
                        all |-> StringToTokens(s, {" ", ","}, FALSE, TRUE),
                        neutral |-> Neutchars(s, {" ", ","}, "_")])
CallSplit ==
  \E s \in Strings({"a", ","}), sep \in {<<"a">>, <<"a", ",">>, <<"a", "a">>} :
    Calls("split", [str |-> s, sep |-> sep], StringSplitString(s, sep))
CallLines ==
  \E s \in Strings({"a", " "}), ll \in 1..2, maxlines \in 0..2 :
    Calls("lines", [str |-> s, ll |-> ll, maxlines |-> maxlines],
          BreakIntoLines(s, ll, maxlines))
CallURL ==
  \E s \in BoundedSeq(Codes, 3) : Calls("url", s, PcDecode(ReSanitizeURL(s)))
CallSubst ==
  \E s \in Strings({"%", "(", ")", "a"}) :
    LET subs == [k \in {"a"} |-> <<"b", "b">>] IN
    Calls("subst", s, [chars |-> PcSubst(s, subs), keys |-> PcSubstMap(s, subs)])
CallDecimal == \E v \in Lowest..(-Lowest - 1) : Calls("decimal", v, LLToDecStr(v))
CallBase64 ==
  \E s \in BoundedSeq(Codes, 4), at \in 1..9 :
    /\ at <= Len(Base64Encode(s)) + 1
    /\ Calls("base64", s, Base64Decode(InsertAt(Base64Encode(s), at, Space)))

TextNext ==
  /\ call.fn = "none"
  /\ \/ CallCsv \/ CallStrings \/ CallAddSeps \/ CallTokens \/ CallSplit \/ CallLines
     \/ CallURL \/ CallSubst \/ CallDecimal \/ CallBase64

-----------------------------------------------------------------------------
(* Properties.                                                              *)

Of(fn) == call.fn = fn

\* Tokens that stringsToString() writes in a way that stringToStrings() reads.
Readable(token) ==
  /\ "\\" \notin ToSet(token)
  /\ ToSet(token) \cap {"\"", "\r"} # {} => ToSet(token) \cap {" ", "\t", "\n"} # {}
\* What is written can be read again: base64 of bytes that fill their last group
\* or not, wherever a blank is put into the text; comma separated lists, with
\* empty strings in them and escapes at their ends; a URL escaped a second time;
\* lists of strings with blanks; and numbers of either sign.
ReadsWhatIsWritten ==
  /\ Of("base64") => result.ok /\ result.out = call.in
  /\ Of("csv") => result.ok /\ result.tokens = call.in
  /\ Of("url") /\ Percent \notin ToSet(call.in) => result = call.in
  /\ Of("strings") /\ (\A i \in DOMAIN call.in : Readable(call.in[i]))
       => result.ok /\ result.tokens = call.in
  /\ Of("decimal") /\ call.in # Lowest =>
       /\ FoldLeft(LAMBDA v, d : 10 * v + d, 0, result.digits)
            = IF result.neg THEN -call.in ELSE call.in
       /\ \A i \in DOMAIN result.digits : result.digits[i] \in 0..9

\* The functions that split agree with each other and lose nothing but what
\* they split at: tokens are the text between delimiters, with allowempty those
\* that are empty too, and neutchars() is the tokens put together again; the
\* parts of stringSplitString() joined are the text; lines are the text.
SplitsWhatIsThere ==
  /\ Of("tokens") =>
       LET joined == Join(result.tokens, <<"_">>)
           delims == {" ", ","}
       IN  /\ result.neutral \in {joined, joined \o <<"_">>}
           /\ result.tokens = SelectSeq(result.all, LAMBDA t : t # <<>>)
           /\ FlattenSeq(result.tokens) = SelectSeq(call.in, LAMBDA c : c \notin delims)
  /\ Of("split") =>
       LET joined == Join(result, call.in.sep)
       IN  call.in.str \in {joined, joined \o call.in.sep}
  /\ Of("lines") =>
       LET cut == result # <<>> /\ Last(result) = <<".", ".", ".">>
           text == FlattenSeq(IF cut THEN Front(result) ELSE result)
       IN  /\ IF cut THEN IsPrefix(text, call.in.str) ELSE text = call.in.str
           /\ \A i \in DOMAIN result :
                Len(result[i]) > call.in.ll /\ ~(cut /\ i = Len(result))
                  => " " \notin ToSet(Front(result[i]))
  /\ Of("addseps") =>
       \A i \in DOMAIN result.tokens :
         "," \in ToSet(result.tokens[i]) /\ "\"" \notin ToSet(call.in)
           => result.tokens[i] = <<",">>
  /\ Of("subst") /\ "(" \notin ToSet(call.in) => result.chars = result.keys

TextSound == ReadsWhatIsWritten /\ SplitsWhatIsThere

\* "Inverse operation" (smallut.h): not for a backslash, nor for a quote in a
\* string that has no blank.
StringsInverse == Of("strings") => result.ok /\ result.tokens = call.in
===============================================================================
