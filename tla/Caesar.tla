------------------------------- MODULE Caesar -------------------------------
(***************************************************************************)
(* Homework 3 (main.c): the text that was shifted in the alphabet of 52    *)
(* letters is found by trying every offset against what was heard of it.   *)
(* Letters are their ASCII codes.                                          *)
(***************************************************************************)
EXTENDS Integers, Sequences, FiniteSets, FiniteSetsExt

a == 97
z == 122
A == 65
Z == 90

(* One letter.  Past 'z' come the capitals, and past 'Z' the small letters;*)
(* an offset below 52 may go through both.                                 *)
Shifted(o, offset) ==
  LET new == o + offset
      small == a + (new - Z - 1)
      capital == A + (new - z - 1)
  IN  IF new > z /\ o >= a THEN (IF capital > Z THEN capital + 6 ELSE capital)
      ELSE IF new > Z /\ o <= Z THEN (IF small > z THEN A + (small - z - 1) ELSE small)
      ELSE new

shift(origin, offset) == [i \in DOMAIN origin |-> Shifted(origin[i], offset)]

compare(piece, shifted) == Cardinality({i \in DOMAIN piece : shifted[i] = piece[i]})

(* A plausible slip: a letter is never replaced, only taken out and put in.*)
NextRowNoReplacing(row, i, letter, piece) ==
  LET new[j \in 0 .. Len(piece)] ==
        IF j = 0 THEN i
        ELSE IF letter = piece[j] THEN row[j - 1]
        ELSE Min({row[j], new[j - 1]}) + 1
  IN  new

(* A row of the table from the one above it.                               *)
NextRow(row, i, letter, piece) ==
  LET new[j \in 0 .. Len(piece)] ==
        IF j = 0 THEN i
        ELSE IF letter = piece[j] THEN row[j - 1]
        ELSE Min({row[j - 1], row[j], new[j - 1]}) + 1
  IN  new

(* The table of WagnerFischer, and its last cell.                          *)
metrice(origin, piece) ==
  LET rows[i \in 0 .. Len(origin)] ==
        IF i = 0 THEN [j \in 0 .. Len(piece) |-> j]
        ELSE NextRow(rows[i - 1], i, origin[i], piece)
  IN  rows

WagnerFischer(origin, piece) == metrice(origin, piece)[Len(origin)][Len(piece)]

(* A plausible slip: the last offset is taken where several are as good,   *)
(* and one that is no better than nothing.                                 *)
NoWorse(matches, best, sameSize) ==
  IF sameSize THEN matches # best ELSE matches <= best

(* Is an offset taken instead of the best one so far?                      *)
Better(matches, best, sameSize) ==
  IF sameSize THEN matches > best ELSE matches < best

(* How well an offset fits what was heard.                                 *)
Matches(origin, piece, offset) ==
  LET heard == shift(origin, offset)
  IN  IF Len(origin) = Len(piece) THEN compare(piece, heard) ELSE WagnerFischer(heard, piece)

(* The loop of findmatch: the best of the 52 offsets, and how good it is.  *)
Best(origin, piece) ==
  LET sameSize == Len(origin) = Len(piece)
      best[n \in 0 .. 52] ==
        IF n = 0
          THEN [offset |-> 0,
                score |-> IF sameSize THEN 0 ELSE Max({Len(origin), Len(piece)})]
        ELSE LET last == best[n - 1]
                 matches == Matches(origin, piece, n - 1)
             IN  IF Better(matches, last.score, sameSize)
                   THEN [offset |-> n - 1, score |-> matches] ELSE last
  IN  best[52]

(* What findmatch prints.                                                  *)
findmatch(origin, piece) == shift(origin, Best(origin, piece).offset)

-----------------------------------------------------------------------------
(* References                                                              *)

(* The letters in their order, small ones first.                           *)
Place(letter) == IF letter >= a THEN letter - a ELSE letter - A + 26

LetterAt(place) == IF place < 26 THEN a + place ELSE A + place - 26

(* The alphabet turned by so many places.                                  *)
Turned(text, offset) ==
  [i \in DOMAIN text |-> LetterAt((Place(text[i]) + offset) % 52)]

(* Words one edit away from a word.                                        *)
Edits(word, alphabet) ==
  LET before(i) == SubSeq(word, 1, i)
      after(i) == SubSeq(word, i + 1, Len(word))
  IN  {before(i - 1) \o after(i) : i \in DOMAIN word}
        \union {before(i) \o <<l>> \o after(i) : i \in 0 .. Len(word), l \in alphabet}
        \union {[word EXCEPT ![i] = l] : i \in DOMAIN word, l \in alphabet}

(* Words that n edits or fewer can make of a word.                         *)
Within(n, word, alphabet) ==
  LET near[k \in 0 .. n] ==
        IF k = 0 THEN {word}
        ELSE LET words == near[k - 1]
             IN  words \union UNION {Edits(w, alphabet) : w \in words}
  IN  near[n]

(* The table gives the least number of edits.                              *)
DistanceIsLeast(s, t) ==
  LET alphabet == {s[i] : i \in DOMAIN s} \union {t[i] : i \in DOMAIN t}
      d == WagnerFischer(s, t)
  IN  /\ t \in Within(d, s, alphabet)
      /\ d > 0 => t \notin Within(d - 1, s, alphabet)

(* How well a text fits what was heard: matches, or edits to make it so.   *)
Misfit(text, piece) ==
  IF Len(text) = Len(piece) THEN Len(piece) - compare(piece, text)
                            ELSE WagnerFischer(text, piece)

(* What is printed is the text with the alphabet turned; no other turn fits*)
(* better, and of two that fit as well it is the smaller one.              *)
BestIsPrinted(s, t) ==
  LET misfit == [k \in 0 .. 51 |-> Misfit(Turned(s, k), t)]
      least == Min({misfit[k] : k \in 0 .. 51})
      first == Min({k \in 0 .. 51 : misfit[k] = least})
  IN  findmatch(s, t) = Turned(s, first)
=============================================================================
