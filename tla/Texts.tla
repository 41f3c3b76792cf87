------------------------------- MODULE Texts -------------------------------
(***************************************************************************)
(* The calls on texts of the runtime (second half of                       *)
(* runtime_maps_strings.c): a first pass over the text computes the size   *)
(* of the result, a second one writes it.  A text is a sequence of         *)
(* letters; memory does not run out here.                                  *)
(***************************************************************************)
EXTENDS Integers, Sequences, SequencesExt, FiniteSets

CONSTANTS
  Requests,     \* the calls: records of op, text, by, with, parts, n
  WordLetters   \* letters, digits and the underscore

VARIABLES
  request,      \* the call
  outcome       \* what it returned or threw

textVars == <<request, outcome>>

Unwritten == <<"NULL">>      \* of a part: a cell nobody has written
Space == " "
Digits == <<"0", "1", "2", "3", "4", "5", "6", "7", "8", "9">>
DigitValue(c) == CHOOSE d \in 0..9 : Digits[d + 1] = c

(* `room`: the size the first pass computed, where there is one.           *)
Outcome(kind, texts, n, room) == [kind |-> kind, texts |-> texts, n |-> n, room |-> room]
None == Outcome("none", << >>, 0, 0)
Text(t) == Outcome("text", <<t>>, 0, Len(t))
Error(type) == Outcome(type, << >>, 0, 0)

(* strstr: where s begins in t, from a position on.                        *)
Occurs(t, s, i) == i + Len(s) - 1 <= Len(t) /\ SubSeq(t, i, i + Len(s) - 1) = s
Starts(t, s, from) == {i \in from..Len(t) : Occurs(t, s, i)}
Strstr(t, s, from) == CHOOSE i \in Starts(t, s, from) : \A j \in Starts(t, s, from) : i <= j

Trim(t) ==
  LET start[i \in 1..(Len(t) + 1)] == IF i <= Len(t) /\ t[i] = Space THEN start[i + 1] ELSE i
      end[i \in 0..Len(t)] == IF i >= start[1] /\ t[i] = Space THEN end[i - 1] ELSE i
  IN  Text(SubSeq(t, start[1], end[Len(t)]))

(* As many cells as the first pass counts; writing past them does nothing. *)
Split(t, sep) ==
  LET from == 1..(Len(t) + 1)
      count[i \in from] == IF Starts(t, sep, i) = {} THEN 1 ELSE 1 + count[Strstr(t, sep, i) + Len(sep)]
      pieces[i \in from] ==
        IF Starts(t, sep, i) = {} THEN <<SubSeq(t, i, Len(t))>>
        ELSE <<SubSeq(t, i, Strstr(t, sep, i) - 1)>> \o pieces[Strstr(t, sep, i) + Len(sep)]
      cells == [k \in 1..count[1] |-> IF k \in DOMAIN pieces[1] THEN pieces[1][k] ELSE Unwritten]
  IN  CASE sep = << >> -> Error("ARG")
        [] t = << >> -> Outcome("list", << << >> >>, 0, 1)
        [] OTHER -> Outcome("list", cells, 0, count[1])

Written(part) == IF part = Unwritten THEN << >> ELSE part
Join(parts, sep) ==
  LET last == Len(parts)
      size[i \in 0..last] == IF i = 0 THEN 0 ELSE size[i - 1] + Len(Written(parts[i])) + (IF i < last THEN Len(sep) ELSE 0)
      out[i \in 0..last] == IF i = 0 THEN << >> ELSE out[i - 1] \o Written(parts[i]) \o (IF i < last THEN sep ELSE << >>)
  IN  Outcome("text", <<out[last]>>, 0, size[last])

IsWord(t, i) == i \in DOMAIN t /\ t[i] \in WordLetters

(* Mutant: the letter before is not looked at. *)
WholeAtEnd(t, s, i) == ~IsWord(t, i + Len(s))

(* Whether s stands by itself at i. *)
Whole(t, s, i) == ~IsWord(t, i - 1) /\ ~IsWord(t, i + Len(s))

(* What is not whole is skipped by one letter, what is by its length.      *)
Replace(t, s, by) ==
  LET from == 1..(Len(t) + 1)
      next(i) == IF Whole(t, s, Strstr(t, s, i)) THEN Strstr(t, s, i) + Len(s) ELSE Strstr(t, s, i) + 1
      count[i \in from] ==
        IF Starts(t, s, i) = {} THEN 0
        ELSE (IF Whole(t, s, Strstr(t, s, i)) THEN 1 ELSE 0) + count[next(i)]
      out[i \in from] ==
        IF Starts(t, s, i) = {} THEN SubSeq(t, i, Len(t))
        ELSE SubSeq(t, i, Strstr(t, s, i) - 1)
               \o (IF Whole(t, s, Strstr(t, s, i)) THEN by ELSE <<t[Strstr(t, s, i)]>>) \o out[next(i)]
  IN  CASE s = << >> -> Error("ARG")
        [] OTHER -> Outcome("text", <<IF count[1] = 0 THEN t ELSE out[1]>>, 0, Len(t) + count[1] * (Len(by) - Len(s)))

Includes(t, s) == Outcome("number", << >>, IF s = << >> \/ Starts(t, s, 1) # {} THEN 1 ELSE 0, 0)

NumberToText(n) ==
  LET digits[k \in Nat] == IF k < 10 THEN <<Digits[k + 1]>> ELSE Append(digits[k \div 10], Digits[(k % 10) + 1])
  IN  Text(IF n < 0 THEN <<"-">> \o digits[-n] ELSE digits[n])

(* strtol: spaces, a sign, digits; aym_to_number wants nothing after them. *)
TextToNumber(t) ==
  LET At(i) == IF i \in DOMAIN t THEN t[i] ELSE ""
      start[i \in 1..(Len(t) + 1)] == IF At(i) = Space THEN start[i + 1] ELSE i
      first == IF At(start[1]) \in {"-", "+"} THEN start[1] + 1 ELSE start[1]
      value[i \in (first - 1)..Len(t)] == IF i < first THEN 0 ELSE value[i - 1] * 10 + DigitValue(t[i])
  IN  IF first <= Len(t) /\ \A i \in first..Len(t) : t[i] \in Range(Digits)
        THEN Outcome("number", << >>, IF At(start[1]) = "-" THEN -value[Len(t)] ELSE value[Len(t)], 0)
        ELSE Error("CONVERSION")

Returned(r) ==
  CASE r.op = "trim" -> Trim(r.text)
    [] r.op = "split" -> Split(r.text, r.by)
    [] r.op = "join" -> Join(r.parts, r.by)
    [] r.op = "replace" -> Replace(r.text, r.by, r.with)
    [] r.op = "contains" -> Includes(r.text, r.by)
    [] r.op = "to string" -> NumberToText(r.n)
    [] r.op = "to number" -> TextToNumber(r.text)

TextsInit == request \in Requests /\ outcome = None
TextsNext == outcome = None /\ outcome' = Returned(request) /\ UNCHANGED request
-----------------------------------------------------------------------------
(* What the calls promise.                                                 *)
TrimRight(t, r) ==
  /\ \E i, j \in 0..Len(t) :
       /\ t = SubSeq(t, 1, i) \o r \o SubSeq(t, Len(t) - j + 1, Len(t))
       /\ \A k \in 1..i \cup (Len(t) - j + 1)..Len(t) : t[k] = Space
  /\ r # << >> => Head(r) # Space /\ Last(r) # Space

Interleaved(parts, sep) ==
  FlattenSeq([i \in DOMAIN parts |-> IF i = Len(parts) THEN parts[i] ELSE parts[i] \o sep])

(* The pieces make up the text, and each ends where the next separator is. *)
SplitRight(t, sep, pieces) ==
  /\ Interleaved(pieces, sep) = t
  /\ \A k \in 1..(Len(pieces) - 1) : Starts(pieces[k] \o sep, sep, 1) = {Len(pieces[k]) + 1}
  /\ Starts(Last(pieces), sep, 1) = {}

(* Those that are replaced stand by themselves and do not overlap, the     *)
(* left one of two that do being taken.                                    *)
Alone(t, s) ==
  {i \in DOMAIN t : /\ Occurs(t, s, i)
                    /\ i > 1 => t[i - 1] \notin WordLetters
                    /\ i + Len(s) <= Len(t) => t[i + Len(s)] \notin WordLetters}
Taken(t, s) ==
  CHOOSE T \in SUBSET Alone(t, s) :
    \A i \in Alone(t, s) : i \in T <=> ~\E j \in T : j < i /\ i < j + Len(s)
ReplaceRight(t, s, by, r) ==
  r = FlattenSeq([i \in DOMAIN t |->
        IF i \in Taken(t, s) THEN by
        ELSE IF \E j \in Taken(t, s) : j < i /\ i < j + Len(s) THEN << >> ELSE <<t[i]>>])

SpellsNumber(t) ==
  \E i \in DOMAIN t : /\ \A k \in 1..(i - 1) : t[k] = Space
                      /\ \A k \in (i + 1)..Len(t) : t[k] \in Range(Digits)
                      /\ t[i] \in Range(Digits) \cup (IF i < Len(t) THEN {"-", "+"} ELSE {})

Promised(r, o) ==
  CASE o.kind = "ARG" -> r.op \in {"split", "replace"} /\ r.by = << >>
    [] o.kind = "CONVERSION" -> r.op = "to number" /\ ~SpellsNumber(r.text)
    [] r.op = "trim" -> TrimRight(r.text, o.texts[1])
    [] r.op = "split" -> SplitRight(r.text, r.by, o.texts)
    [] r.op = "join" -> o.texts[1] = Interleaved([i \in DOMAIN r.parts |-> Written(r.parts[i])], r.by)
    [] r.op = "replace" -> ReplaceRight(r.text, r.by, r.with, o.texts[1])
    [] r.op = "contains" -> o.n = 1 <=> \E p, q \in 0..Len(r.text) : SubSeq(r.text, p + 1, q) = r.by
    [] r.op = "to string" -> TextToNumber(o.texts[1]).n = r.n
    [] r.op = "to number" -> SpellsNumber(r.text) /\ (o.n < 0 => "-" \in Range(r.text))

(* Every call gives what it promises, and its second pass writes exactly   *)
(* what its first pass has made room for.                                  *)
TextsRight ==
  outcome # None =>
    /\ Promised(request, outcome)
    /\ outcome.kind = "text" => outcome.room = Len(outcome.texts[1])
    /\ outcome.kind = "list" => outcome.room = Len(outcome.texts) /\ Unwritten \notin Range(outcome.texts)
=============================================================================
