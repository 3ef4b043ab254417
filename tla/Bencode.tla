------------------------------ MODULE Bencode ------------------------------
(***************************************************************************)
(* The codec of bencode.c.  A buffer is a sequence of bytes, a byte one of *)
(* the characters the grammar tells apart; a position is an index into it. *)
(* An object is a record whose only field is its type: [int |-> n],        *)
(* [string |-> bytes], [list |-> objects] or [dict |-> pairs].             *)
(*                                                                         *)
(* The parsers are translated as they are, with what they let through: a   *)
(* length with anything up to the colon behind it, a number with leading   *)
(* zeros or no digit at all, a key that starts with any byte, keys in any  *)
(* order.  Numbers stay far below the limits of long.                      *)
(***************************************************************************)
EXTENDS Integers, Sequences, SequencesExt, FiniteSetsExt

Digits == {"0", "1", "2", "3", "4", "5", "6", "7", "8", "9"}
DigitList == <<"0", "1", "2", "3", "4", "5", "6", "7", "8", "9">>
DigitValue == [d \in Digits |-> (CHOOSE k \in 1 .. 10 : DigitList[k] = d) - 1]

NULL  == [null |-> 0]    \* the null pointer
CRASH == [crash |-> 0]   \* the process is ended by a signal
HasType(o, type) == type \in DOMAIN o

-----------------------------------------------------------------------------
(* Encoding (encode_obj): numbers by %zu and %lld.                         *)
RECURSIVE Natural(_)
Natural(n) == IF n < 10 THEN <<DigitList[n + 1]>>
              ELSE Append(Natural(n \div 10), DigitList[(n % 10) + 1])
Decimal(n) == IF n < 0 THEN <<"-">> \o Natural(-n) ELSE Natural(n)
StringBytes(s) == Decimal(Len(s)) \o <<":">> \o s

RECURSIVE encode_obj(_)
Bug_DropsLast(obj) ==
  CASE HasType(obj, "list") -> <<"l">> \o FlattenSeq([k \in 1 .. Len(obj.list) - 1 |->
                                               encode_obj(obj.list[k])]) \o <<"e">>
    [] HasType(obj, "dict") -> <<"d">> \o FlattenSeq([k \in DOMAIN obj.dict |->
         StringBytes(obj.dict[k].key) \o encode_obj(obj.dict[k].value)]) \o <<"e">>
    [] HasType(obj, "string") -> StringBytes(obj.string)
    [] HasType(obj, "int")    -> <<"i">> \o Decimal(obj.int) \o <<"e">>
encode_obj(obj) ==
  CASE HasType(obj, "string") -> StringBytes(obj.string)
    [] HasType(obj, "int")    -> <<"i">> \o Decimal(obj.int) \o <<"e">>
    [] HasType(obj, "list")   ->
         <<"l">> \o FlattenSeq([k \in DOMAIN obj.list |-> encode_obj(obj.list[k])]) \o <<"e">>
    [] HasType(obj, "dict")   ->
         <<"d">> \o FlattenSeq([k \in DOMAIN obj.dict |->
              StringBytes(obj.dict[k].key) \o encode_obj(obj.dict[k].value)]) \o <<"e">>

-----------------------------------------------------------------------------
(* What a parser returns: the object and the position after it, or no      *)
(* position.  past_end: it looked at the byte behind the buffer.           *)
Parsed(next, obj) == [ok |-> TRUE, next |-> next, obj |-> obj, past_end |-> FALSE]
Failed(past_end)  == [ok |-> FALSE, next |-> 0, obj |-> NULL, past_end |-> past_end]

memchr(data, i, c) == {j \in i .. Len(data) : data[j] = c}
SkipOver(data, i, chars) ==
  Min({j \in i .. Len(data) : data[j] \notin chars} \union {Len(data) + 1})

(* strtol: blanks, a sign, digits; nothing is consumed without a digit.    *)
strtol(data, i) ==
  LET sign  == SkipOver(data, i, {" "})
      first == IF sign <= Len(data) /\ data[sign] \in {"-", "+"} THEN sign + 1 ELSE sign
      stop  == SkipOver(data, first, Digits)
      value == FoldLeft(LAMBDA n, d : 10 * n + DigitValue[d], 0, SubSeq(data, first, stop - 1))
  IN  IF stop = first THEN [value |-> 0, endptr |-> i]
      ELSE [value |-> IF data[sign] = "-" THEN -value ELSE value, endptr |-> stop]

Bug_LengthPastEnd(data, i) ==
  IF memchr(data, i, ":") = {} THEN Failed(FALSE)
  ELSE LET colon == Min(memchr(data, i, ":"))
           len   == strtol(data, i).value
       IN  IF len < 0 \/ colon + len >= Len(data) THEN Failed(FALSE)
           ELSE Parsed(colon + len + 1, [string |-> SubSeq(data, colon + 1, colon + len)])
parse_string(data, i) ==
  IF memchr(data, i, ":") = {} THEN Failed(FALSE)
  ELSE LET colon == Min(memchr(data, i, ":"))
           len   == strtol(data, i).value
       IN  IF len < 0 \/ colon + len > Len(data) THEN Failed(FALSE)
           ELSE Parsed(colon + len + 1, [string |-> SubSeq(data, colon + 1, colon + len)])

parse_int(data, i) ==
  IF memchr(data, i + 1, "e") = {} THEN Failed(FALSE)
  ELSE LET e == Min(memchr(data, i + 1, "e"))
           n == strtol(data, i + 1)
       IN  IF n.endptr = e THEN Parsed(e + 1, [int |-> n.value]) ELSE Failed(FALSE)

(* Parsing from position i on: a value of any type; the rest of the items  *)
(* of a list (the loop of parse_list); the rest of the pairs of a          *)
(* dictionary (parse_dict).  A failure inside leaves the loop in front of  *)
(* a byte other than e, so the whole container fails.                      *)
Container(type, rest) == IF rest.ok THEN Parsed(rest.next, [x \in {type} |-> rest.obj]) ELSE rest
Prepend(x, rest) == IF rest.ok THEN Parsed(rest.next, <<x>> \o rest.obj) ELSE rest

Parser(data) ==
  LET parse[at \in {"value", "items", "pairs"} \X (1 .. Len(data) + 1)] ==
        LET i     == at[2]
            value == parse[<<"value", i>>]
            key   == parse_string(data, i)      \* a key, or a value that is a string
        IN  IF i > Len(data) THEN Failed(at[1] = "value")
            ELSE IF at[1] = "value"
            THEN CASE data[i] \in Digits -> key
                   [] data[i] = "i"      -> parse_int(data, i)
                   [] data[i] = "l"      -> Container("list", parse[<<"items", i + 1>>])
                   [] data[i] = "d"      -> Container("dict", parse[<<"pairs", i + 1>>])
                   [] OTHER              -> Failed(FALSE)
            ELSE IF data[i] = "e" THEN Parsed(i + 1, <<>>)
            ELSE IF at[1] = "items"
            THEN IF value.ok THEN Prepend(value.obj, parse[<<"items", value.next>>]) ELSE value
            ELSE IF ~key.ok THEN key
            ELSE LET of == parse[<<"value", key.next>>]
                 IN  IF of.ok THEN Prepend([key |-> key.obj.string, value |-> of.obj],
                                           parse[<<"pairs", of.next>>])
                     ELSE of
  IN  parse

(* bencode_decode, as the set of its possible outcomes.  A buffer that is  *)
(* not there is dereferenced.  A string that fails leaves the type unset   *)
(* that bencode_free then switches on, and so does a number without its    *)
(* end; the byte behind a buffer without a terminator may be anything.     *)
(* All three may end the process, and otherwise fail like the rest.        *)
Undefined(data, r, terminated) ==
  \/ r.past_end /\ ~terminated
  \/ ~r.ok /\ data[1] \in Digits
  \/ data[1] = "i" /\ memchr(data, 2, "e") = {}
bencode_decode(data, terminated) ==
  IF data = <<>> THEN {CRASH}
  ELSE UNION {IF r.ok /\ r.next = Len(data) + 1 THEN {r.obj}
              ELSE IF Undefined(data, r, terminated) THEN {NULL, CRASH}
              ELSE {NULL} : r \in {Parser(data)[<<"value", 1>>]}}

(* bencode_dict_get: the first pair with the key.                          *)
bencode_dict_get(dict, key) ==
  LET found == IF HasType(dict, "dict") THEN {k \in DOMAIN dict.dict : dict.dict[k].key = key} ELSE {}
  IN  IF found = {} THEN NULL ELSE dict.dict[Min(found)].value

-----------------------------------------------------------------------------
(* The reference: bytes s are the bencoding of object o.  It is a relation *)
(* on the two that splits s by the lengths the parts of o must have, which *)
(* BenLen gives.                                                           *)
Power10[k \in Nat] == IF k = 0 THEN 1 ELSE 10 * Power10[k - 1]
Value(s) == MapThenSumSet(LAMBDA k : DigitValue[s[k]] * Power10[Len(s) - k], DOMAIN s)
IsNatural(s, n) ==
  /\ s # <<>> /\ Range(s) \subseteq Digits
  /\ s[1] = "0" => Len(s) = 1
  /\ n = Value(s)
IsInteger(s, n) ==
  \/ IsNatural(s, n)
  \/ n < 0 /\ s # <<>> /\ s[1] = "-" /\ IsNatural(Tail(s), -n)

NumLen(n) == CHOOSE k \in 1 .. 10 : n < Power10[k] /\ (k = 1 \/ n >= Power10[k - 1])
StringLen(s) == NumLen(Len(s)) + 1 + Len(s)
RECURSIVE BenLen(_)
BenLen(o) ==
  CASE HasType(o, "int")    -> IF o.int < 0 THEN 3 + NumLen(-o.int) ELSE 2 + NumLen(o.int)
    [] HasType(o, "string") -> StringLen(o.string)
    [] HasType(o, "list")   -> 2 + MapThenSumSet(LAMBDA k : BenLen(o.list[k]), DOMAIN o.list)
    [] HasType(o, "dict")   ->
         2 + MapThenSumSet(LAMBDA k : StringLen(o.dict[k].key) + BenLen(o.dict[k].value),
                           DOMAIN o.dict)

RECURSIVE Denotes(_, _), DenotesAll(_, _)
DenotesAll(s, objs) ==
  IF objs = <<>> THEN s = <<>>
  ELSE LET k == BenLen(Head(objs))
       IN  /\ k <= Len(s)
           /\ Denotes(SubSeq(s, 1, k), Head(objs))
           /\ DenotesAll(SubSeq(s, k + 1, Len(s)), Tail(objs))
Denotes(s, o) ==
  CASE HasType(o, "int") ->
         /\ Len(s) > 2 /\ s[1] = "i" /\ s[Len(s)] = "e"
         /\ IsInteger(SubSeq(s, 2, Len(s) - 1), o.int)
    [] HasType(o, "string") ->
         LET colon == Len(s) - Len(o.string)
         IN  /\ colon > 1 /\ s[colon] = ":"
             /\ IsNatural(SubSeq(s, 1, colon - 1), Len(o.string))
             /\ SubSeq(s, colon + 1, Len(s)) = o.string
    [] HasType(o, "list") ->
         /\ Len(s) >= 2 /\ s[1] = "l" /\ s[Len(s)] = "e"
         /\ DenotesAll(SubSeq(s, 2, Len(s) - 1), o.list)
    [] HasType(o, "dict") ->
         /\ Len(s) >= 2 /\ s[1] = "d" /\ s[Len(s)] = "e"
         /\ DenotesAll(SubSeq(s, 2, Len(s) - 1),
              [k \in 1 .. 2 * Len(o.dict) |->
                 IF k % 2 = 1 THEN [string |-> o.dict[(k + 1) \div 2].key]
                              ELSE o.dict[k \div 2].value])
    [] OTHER -> FALSE

-----------------------------------------------------------------------------
(* The looser reference: bytes s are one of the spellings of object o that *)
(* the parsers mean to let through.  A number may have blanks, a sign and  *)
(* leading zeros in front, or no digit at all and be 0; the length of a    *)
(* string is the longest number its prefix begins with; a key may start    *)
(* with any byte.  The parts are found by trying every split.              *)
Readings(s) ==
  LET Start(b, sign)  == [k \in 1 .. b |-> " "] \o sign
      Rest(b, sign) == SubSeq(s, b + Len(sign) + 1, Len(s))
      Splits == {x \in (0 .. Len(s)) \X {<<>>, <<"+">>, <<"-">>} :
                   /\ x[1] + Len(x[2]) < Len(s)
                   /\ SubSeq(s, 1, x[1] + Len(x[2])) = Start(x[1], x[2])
                   /\ Range(Rest(x[1], x[2])) \subseteq Digits}
  IN  {IF x[2] = <<"-">> THEN -Value(Rest(x[1], x[2])) ELSE Value(Rest(x[1], x[2])) :
         x \in Splits}

SpellsLength(s, n) ==
  LET numbers == {k \in DOMAIN s : Readings(SubSeq(s, 1, k)) # {}}
  IN  n \in IF numbers = {} THEN {0} ELSE Readings(SubSeq(s, 1, Max(numbers)))
SpellsString(s, t) ==
  LET colon == Len(s) - Len(t)
  IN  /\ colon > 0 /\ s[colon] = ":" /\ \A k \in 1 .. colon - 1 : s[k] # ":"
      /\ SubSeq(s, colon + 1, Len(s)) = t
      /\ SpellsLength(SubSeq(s, 1, colon - 1), Len(t))

Inner(s) == SubSeq(s, 2, Len(s) - 1)
Framed(s, c) == Len(s) >= 2 /\ s[1] = c /\ s[Len(s)] = "e"
RECURSIVE Spells(_, _), SpellsAll(_, _), SpellsPairs(_, _)
SpellsAll(s, objs) ==
  IF objs = <<>> THEN s = <<>>
  ELSE \E k \in DOMAIN s : /\ Spells(SubSeq(s, 1, k), Head(objs))
                           /\ SpellsAll(SubSeq(s, k + 1, Len(s)), Tail(objs))
SpellsPairs(s, pairs) ==
  IF pairs = <<>> THEN s = <<>>
  ELSE \E j \in DOMAIN s :
         /\ SpellsString(SubSeq(s, 1, j), Head(pairs).key)
         /\ \E k \in j + 1 .. Len(s) :
              /\ Spells(SubSeq(s, j + 1, k), Head(pairs).value)
              /\ SpellsPairs(SubSeq(s, k + 1, Len(s)), Tail(pairs))
Spells(s, o) ==
  CASE HasType(o, "int") ->
         /\ Framed(s, "i") /\ "e" \notin Range(Inner(s))
         /\ o.int \in IF Inner(s) = <<>> THEN {0} ELSE Readings(Inner(s))
    [] HasType(o, "string") -> s # <<>> /\ s[1] \in Digits /\ SpellsString(s, o.string)
    [] HasType(o, "list")   -> Framed(s, "l") /\ SpellsAll(Inner(s), o.list)
    [] HasType(o, "dict")   -> Framed(s, "d") /\ SpellsPairs(Inner(s), o.dict)
    [] OTHER -> FALSE
=============================================================================
