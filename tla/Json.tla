------------------------------- MODULE Json -------------------------------
(***************************************************************************)
(* The JSON reader and printer of src/TransportSystem/json.cpp: json::Load *)
(* (LoadNode and its helpers) and json::Print (PrintNode, PrintValue,     *)
(* PrintString).                                                           *)
(*                                                                         *)
(* Text is a sequence of one-character strings over the small alphabet    *)
(* Chars, listed in ASCII order (std::map<std::string> orders keys by     *)
(* char).  A reader position is the index of the next unread character,  *)
(* so putback(c) is the position of c.  Nodes are the records of          *)
(* JsonFrames: [t |-> "null"], [t |-> "bool", v], [t |-> "int", v],       *)
(* [t |-> "string", v |-> text], [t |-> "array", items],                  *)
(* [t |-> "dict", entries]; a parsed double is [t |-> "double", v |->     *)
(* its text].  A ParsingError is NoParse.                                 *)
(*                                                                         *)
(* Left out: printing a double (operator<< with six significant digits)   *)
(* and stod's range error for exponents past 308; no double is printed or *)
(* read back here.  isspace also holds for \v and \f, which are not in     *)
(* Chars.                                                                  *)
(***************************************************************************)
EXTENDS Integers, Sequences, SequencesExt

Chars == <<"\t", "\n", "\r", " ", "\"", "+", ",", "-", ".",
           "0", "1", "2", "3", "4", "5", "6", "7", "8", "9", ":", "E", "[", "\\", "]",
           "a", "e", "f", "l", "n", "r", "s", "t", "u", "{", "}">>

CharRank(ch) == CHOOSE k \in DOMAIN Chars : Chars[k] = ch

DigitChars == <<"0", "1", "2", "3", "4", "5", "6", "7", "8", "9">>
Digits == ToSet(DigitChars)
IsDigit(ch) == ch \in Digits
DigitValue(ch) == CHOOSE d \in 0..9 : DigitChars[d + 1] = ch
IsSpace(ch) == ch \in {" ", "\t", "\n", "\r"}
Alpha == {"E", "a", "e", "f", "l", "n", "r", "s", "t", "u"}   \* the letters of Chars

NoParse == [ok |-> FALSE]
Loaded(node, pos) == [ok |-> TRUE, node |-> node, pos |-> pos]

(* input.peek(): the character at the position, or EOF *)
Peek(s, i) == IF i <= Len(s) THEN s[i] ELSE "EOF"

(* input >> c: skips white space, then reads one character or fails *)
RECURSIVE Extract(_, _)
Extract(s, i) ==
    IF i > Len(s) THEN [ok |-> FALSE]
    ELSE IF IsSpace(s[i]) THEN Extract(s, i + 1)
    ELSE [ok |-> TRUE, ch |-> s[i], pos |-> i + 1]

(* the first position from i whose character is not in the set cs *)
RECURSIVE SkipWhile(_, _, _)
SkipWhile(s, i, cs) == IF i <= Len(s) /\ s[i] \in cs THEN SkipWhile(s, i + 1, cs) ELSE i

(***************************************************************************)
(* LoadString, after the opening quote, on the raw stream buffer: a quote *)
(* ends it, a backslash takes one of five escapes, a raw line break or    *)
(* the end of the text is an error.                                        *)
(***************************************************************************)
Unescape == ("n" :> "\n") @@ ("t" :> "\t") @@ ("r" :> "\r") @@ ("\"" :> "\"") @@ ("\\" :> "\\")

RECURSIVE LoadString(_, _, _)
LoadString(s, i, acc) ==
    IF i > Len(s) THEN NoParse
    ELSE IF s[i] = "\"" THEN Loaded([t |-> "string", v |-> acc], i + 1)
    ELSE IF s[i] = "\\"
         THEN IF i + 1 > Len(s) \/ s[i + 1] \notin DOMAIN Unescape THEN NoParse
              ELSE LoadString(s, i + 2, Append(acc, Unescape[s[i + 1]]))
    ELSE IF s[i] \in {"\n", "\r"} THEN NoParse
    ELSE LoadString(s, i + 1, Append(acc, s[i]))

(* LoadBool / LoadNull on the letters LoadLiteral collects *)
LoadLiteral(s, i) == [word |-> SubSeq(s, i, SkipWhile(s, i, Alpha) - 1), pos |-> SkipWhile(s, i, Alpha)]

LoadBool(s, i) ==
    LET l == LoadLiteral(s, i)
    IN  IF l.word = <<"t", "r", "u", "e">> THEN Loaded([t |-> "bool", v |-> TRUE], l.pos)
        ELSE IF l.word = <<"f", "a", "l", "s", "e">> THEN Loaded([t |-> "bool", v |-> FALSE], l.pos)
        ELSE NoParse

LoadNull(s, i) ==
    LET l == LoadLiteral(s, i)
    IN  IF l.word = <<"n", "u", "l", "l">> THEN Loaded([t |-> "null"], l.pos) ELSE NoParse

(***************************************************************************)
(* LoadNumber: an optional minus, a single 0 or digits, an optional       *)
(* fraction and an optional exponent, each requiring a digit.  An integer *)
(* text goes through std::stoi, and one out of int's range falls back to  *)
(* std::stod; any other text is a double.                                 *)
(***************************************************************************)
IntMaxDigits == <<"2", "1", "4", "7", "4", "8", "3", "6", "4", "7">>
IntMinDigits == <<"2", "1", "4", "7", "4", "8", "3", "6", "4", "8">>

(* stoi succeeds: at most as many digits as the limit, and not above it *)
FitsInt(neg, ds) ==
    LET lim == IF neg THEN IntMinDigits ELSE IntMaxDigits
    IN  \/ Len(ds) < Len(lim)
        \/ /\ Len(ds) = Len(lim)
           /\ \E k \in 0..Len(ds) :
                 /\ SubSeq(ds, 1, k) = SubSeq(lim, 1, k)
                 /\ k = Len(ds) \/ DigitValue(ds[k + 1]) < DigitValue(lim[k + 1])

(* accumulated downwards so that INT_MIN itself is representable *)
StoiValue(neg, ds) ==
    LET down == FoldLeft(LAMBDA acc, d : acc * 10 - DigitValue(d), 0, ds)
    IN  IF neg THEN down ELSE -down

LoadNumber(s, i) ==
    LET i1 == IF Peek(s, i) = "-" THEN i + 1 ELSE i
        i2 == IF Peek(s, i1) = "0" THEN i1 + 1 ELSE SkipWhile(s, i1, Digits)
        frac == Peek(s, i2) = "."
        i3 == IF frac THEN SkipWhile(s, i2 + 1, Digits) ELSE i2
        exp == Peek(s, i3) \in {"e", "E"}
        i3s == IF Peek(s, i3 + 1) \in {"+", "-"} THEN i3 + 2 ELSE i3 + 1
        i4 == IF exp THEN SkipWhile(s, i3s, Digits) ELSE i3
        text == SubSeq(s, i, i4 - 1)
        ds == SubSeq(s, i1, i2 - 1)
    IN  IF \/ ~IsDigit(Peek(s, i1))
           \/ frac /\ ~IsDigit(Peek(s, i2 + 1))
           \/ exp /\ ~IsDigit(Peek(s, i3s))
        THEN NoParse
        ELSE IF ~frac /\ ~exp /\ FitsInt(i1 > i, ds)
        THEN Loaded([t |-> "int", v |-> StoiValue(i1 > i, ds)], i4)
        ELSE Loaded([t |-> "double", v |-> text], i4)

(***************************************************************************)
(* LoadNode reads one non-blank character and dispatches on it; a letter *)
(* or digit is put back for the literal and number readers.  LoadArray    *)
(* reads until ']', putting back anything but a comma before the next     *)
(* element; LoadDict reads until '}', skips commas, and otherwise needs a *)
(* quoted key, a colon and a key not seen before.                          *)
(***************************************************************************)
RECURSIVE LoadNode(_, _), LoadArray(_, _, _), LoadDict(_, _, _)

LoadNode(s, i) ==
    LET r == Extract(s, i)
    IN  IF ~r.ok THEN NoParse
        ELSE CASE r.ch = "["  -> LoadArray(s, r.pos, <<>>)
               [] r.ch = "{"  -> LoadDict(s, r.pos, <<>>)
               [] r.ch = "\"" -> LoadString(s, r.pos, <<>>)
               [] r.ch \in {"t", "f"} -> LoadBool(s, r.pos - 1)
               [] r.ch = "n"  -> LoadNull(s, r.pos - 1)
               [] OTHER       -> LoadNumber(s, r.pos - 1)

LoadArray(s, i, items) ==
    LET r == Extract(s, i)
    IN  IF ~r.ok THEN NoParse
        ELSE IF r.ch = "]" THEN Loaded([t |-> "array", items |-> items], r.pos)
        ELSE LET e == LoadNode(s, IF r.ch # "," THEN r.pos - 1 ELSE r.pos)
             IN  IF ~e.ok THEN NoParse ELSE LoadArray(s, e.pos, Append(items, e.node))

LoadDict(s, i, entries) ==
    LET r == Extract(s, i)
    IN  IF ~r.ok THEN NoParse
        ELSE IF r.ch = "}" THEN Loaded([t |-> "dict", entries |-> entries], r.pos)
        ELSE IF r.ch = "," THEN LoadDict(s, r.pos, entries)
        ELSE IF r.ch # "\"" THEN NoParse
        ELSE LET key   == LoadString(s, r.pos, <<>>)
                 colon == Extract(s, key.pos)
                 val   == LoadNode(s, colon.pos)
             IN  IF ~key.ok THEN NoParse
                 ELSE IF ~colon.ok \/ colon.ch # ":" THEN NoParse
                 ELSE IF key.node.v \in DOMAIN entries THEN NoParse
                 ELSE IF ~val.ok THEN NoParse
                 ELSE LoadDict(s, val.pos, (key.node.v :> val.node) @@ entries)

(* json::Load: the document is the first node; what follows is not read *)
Load(s) == LET r == LoadNode(s, 1) IN IF r.ok THEN [ok |-> TRUE, node |-> r.node] ELSE NoParse

-----------------------------------------------------------------------------
(***************************************************************************)
(* json::Print.  A string is quoted with \r, \n, \" and \\ escaped and   *)
(* every other character as it is; an int in decimal; an array or dict   *)
(* opens a line, prints each element on its own line indented by four    *)
(* more spaces, separated by ",\n", and closes on a new line at the outer *)
(* indentation; dict entries come in key order as `"key": value`.         *)
(***************************************************************************)
(* mutant: the case label for '"' missing, so a quote is printed bare *)
EscapedNoQuote(ch) ==
    CASE ch = "\r" -> <<"\\", "r">>
      [] ch = "\n" -> <<"\\", "n">>
      [] ch = "\\" -> <<"\\", ch>>
      [] OTHER -> <<ch>>

Escaped(ch) ==
    CASE ch = "\r" -> <<"\\", "r">>
      [] ch = "\n" -> <<"\\", "n">>
      [] ch \in {"\"", "\\"} -> <<"\\", ch>>
      [] OTHER -> <<ch>>

PrintString(v) == <<"\"">> \o FlattenSeq([k \in DOMAIN v |-> Escaped(v[k])]) \o <<"\"">>

RECURSIVE Decimal(_)
Decimal(n) == IF n < 10 THEN <<DigitChars[n + 1]>> ELSE Decimal(n \div 10) \o <<DigitChars[(n % 10) + 1]>>

(* operator<< of an int (INT_MIN, whose negation TLC cannot hold, is not a model value) *)
PrintInt(n) == IF n < 0 THEN <<"-">> \o Decimal(-n) ELSE Decimal(n)

Indent(n) == [k \in 1..n |-> " "]

(* the elements, each after a ",\n" but the first *)
Joined(parts) == FlattenSeq([k \in DOMAIN parts |-> (IF k = 1 THEN <<>> ELSE <<",", "\n">>) \o parts[k]])

RECURSIVE StrLess(_, _)
StrLess(a, b) ==
    IF b = <<>> THEN FALSE
    ELSE IF a = <<>> THEN TRUE
    ELSE IF a[1] # b[1] THEN CharRank(a[1]) < CharRank(b[1])
    ELSE StrLess(Tail(a), Tail(b))

RECURSIVE PrintNode(_, _)
PrintNode(n, indent) ==
    CASE n.t = "null" -> <<"n", "u", "l", "l">>
      [] n.t = "bool" -> IF n.v THEN <<"t", "r", "u", "e">> ELSE <<"f", "a", "l", "s", "e">>
      [] n.t = "int" -> PrintInt(n.v)
      [] n.t = "string" -> PrintString(n.v)
      [] n.t = "array" ->
            <<"[", "\n">>
            \o Joined([k \in DOMAIN n.items |-> Indent(indent + 4) \o PrintNode(n.items[k], indent + 4)])
            \o <<"\n">> \o Indent(indent) \o <<"]">>
      [] n.t = "dict" ->
            LET keys == SetToSortSeq(DOMAIN n.entries, StrLess)
            IN  <<"{", "\n">>
                \o Joined([k \in DOMAIN keys |->
                       Indent(indent + 4) \o PrintString(keys[k]) \o <<":", " ">>
                       \o PrintNode(n.entries[keys[k]], indent + 4)])
                \o <<"\n">> \o Indent(indent) \o <<"}">>

(* json::Print: the root at indentation 0 *)
PrintDocument(node) == PrintNode(node, 0)

=============================================================================
