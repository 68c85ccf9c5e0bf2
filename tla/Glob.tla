-------------------------------- MODULE Glob ---------------------------------
(***************************************************************************)
(* globMatch of src/src/database.cpp, which KEYS and CONFIG GET apply to   *)
(* patterns that clients send: one action per turn of its loop, with the   *)
(* positions it keeps.                                                     *)
(*                                                                         *)
(* A character is its code.  Positions count from 1.                       *)
(***************************************************************************)
EXTENDS Naturals, Sequences

CONSTANTS
    Questions   \* the calls: [pattern, text, meant], where meant holds the
                \* expected answer or is empty

STAR == 42
MINUS == 45
ANY == 63       \* ?
OPEN == 91      \* [
BACKSLASH == 92
CLOSE == 93     \* ]
CARET == 94
NONE == 0

(***************************************************************************)
(* matchCharacterClass: the characters the class lists and the position    *)
(* after it.  A class that is never closed extends to the end.             *)
(***************************************************************************)
\* Slip: the first of two bounds is always the lower one.
Between_Ordered(low, high) == low .. high

Between(low, high) == IF low > high THEN high .. low ELSE low .. high

\* Slip: a minus sign at the end of the class makes a range with its bracket.
IsRange_ToBracket(s, at) == at + 2 <= Len(s) /\ s[at + 1] = MINUS

IsRange(s, at) == at + 2 <= Len(s) /\ s[at + 1] = MINUS /\ s[at + 2] # CLOSE

RECURSIVE ClassItems(_, _, _)
ClassItems(s, position, listed) ==
    LET Escaped == s[position] = BACKSLASH /\ position < Len(s)
        Item(at) ==
            IF IsRange(s, at)
            THEN ClassItems(s, at + 3, listed \cup Between(s[at], s[at + 2]))
            ELSE ClassItems(s, at + 1, listed \cup {s[at]})
    IN  IF position > Len(s) THEN [listed |-> listed, next |-> position]
        ELSE IF s[position] = CLOSE THEN [listed |-> listed, next |-> position + 1]
        ELSE Item(IF Escaped THEN position + 1 ELSE position)

Negated(s, open) == open < Len(s) /\ s[open + 1] = CARET

Class(s, open) ==
    ClassItems(s, IF Negated(s, open) THEN open + 2 ELSE open + 1, {})

InClass(s, open, character) ==
    (character \in Class(s, open).listed) # Negated(s, open)

(***************************************************************************)
(* One element of a pattern: whether it accepts a character, and what      *)
(* comes after it.                                                         *)
(***************************************************************************)
EscapedAt(s, p) == s[p] = BACKSLASH /\ p < Len(s)

Accepts(s, p, character) ==
    CASE s[p] = ANY -> TRUE
      [] s[p] = OPEN -> InClass(s, p, character)
      [] OTHER -> character = s[IF EscapedAt(s, p) THEN p + 1 ELSE p]

After(s, p) ==
    CASE s[p] = OPEN -> Class(s, p).next
      [] EscapedAt(s, p) -> p + 2
      [] OTHER -> p + 1

(***************************************************************************)
(* The loop.                                                               *)
(***************************************************************************)
VARIABLES
    question,
    patternPos, textPos,
    starPattern,  \* after the last *, or NONE
    starText,     \* where the text that * absorbs ends
    result,       \* "running", "match" or "mismatch"
    turns         \* history: turns of the loop so far

pattern == question.pattern
text == question.text
vars == <<question, patternPos, textPos, starPattern, starText, result, turns>>

Init ==
    /\ question \in Questions
    /\ patternPos = 1
    /\ textPos = 1
    /\ starPattern = NONE
    /\ starText = 1
    /\ result = "running"
    /\ turns = 0

Running == result = "running" /\ textPos <= Len(text)
AtStar == patternPos <= Len(pattern) /\ pattern[patternPos] = STAR
Fits ==
    /\ patternPos <= Len(pattern)
    /\ ~AtStar
    /\ Accepts(pattern, patternPos, text[textPos])

\* Slip: a later star does not replace the one to come back to.
MeetStar_KeepsFirst ==
    /\ Running
    /\ AtStar
    /\ patternPos' = patternPos + 1
    /\ starPattern' = IF starPattern = NONE THEN patternPos + 1 ELSE starPattern
    /\ starText' = IF starPattern = NONE THEN textPos ELSE starText
    /\ turns' = turns + 1
    /\ UNCHANGED <<question, textPos, result>>

MeetStar ==
    /\ Running
    /\ AtStar
    /\ patternPos' = patternPos + 1
    /\ starPattern' = patternPos + 1
    /\ starText' = textPos
    /\ turns' = turns + 1
    /\ UNCHANGED <<question, textPos, result>>

MatchOne ==
    /\ Running
    /\ Fits
    /\ patternPos' = After(pattern, patternPos)
    /\ textPos' = textPos + 1
    /\ turns' = turns + 1
    /\ UNCHANGED <<question, starPattern, starText, result>>

MayBacktrack == Running /\ ~AtStar /\ ~Fits

\* Slip: the last star is tried again with the text it already absorbed.
Backtrack_SameText ==
    /\ MayBacktrack
    /\ starPattern # NONE
    /\ patternPos' = starPattern
    /\ textPos' = starText
    /\ turns' = turns + 1
    /\ UNCHANGED <<question, starPattern, starText, result>>

\* The last star absorbs one more character.
Backtrack ==
    /\ MayBacktrack
    /\ starPattern # NONE
    /\ patternPos' = starPattern
    /\ textPos' = starText + 1
    /\ starText' = starText + 1
    /\ turns' = turns + 1
    /\ UNCHANGED <<question, starPattern, result>>

GiveUp ==
    /\ MayBacktrack
    /\ starPattern = NONE
    /\ result' = "mismatch"
    /\ UNCHANGED <<question, patternPos, textPos, starPattern, starText, turns>>

\* The text is used up: stars may still match nothing.
Finish ==
    /\ result = "running"
    /\ textPos > Len(text)
    /\ result' = IF \A p \in patternPos .. Len(pattern) : pattern[p] = STAR
                 THEN "match" ELSE "mismatch"
    /\ UNCHANGED <<question, patternPos, textPos, starPattern, starText, turns>>

Next == MeetStar \/ MatchOne \/ Backtrack \/ GiveUp \/ Finish

Spec == Init /\ [][Next]_vars

(***************************************************************************)
(* Properties.                                                             *)
(***************************************************************************)
\* What matching means: a star stands for any run of characters, every other
\* element for one character it accepts.
RECURSIVE Matches(_, _)
Matches(p, t) ==
    IF p > Len(pattern) THEN t > Len(text)
    ELSE IF pattern[p] = STAR THEN \E n \in t .. Len(text) + 1 : Matches(p + 1, n)
    ELSE t <= Len(text) /\ Accepts(pattern, p, text[t]) /\ Matches(After(pattern, p), t + 1)

\* Forgetting every star but the last loses no match and invents none: at
\* every turn of globMatch (database.cpp:174-225) the pattern matches the
\* text exactly when the rest of it matches from here, or from a longer run
\* of the last star; and the result is the right one.
NoMatchLost ==
    Matches(1, 1) <=>
        IF result = "running"
        THEN \/ Matches(patternPos, textPos)
             \/ /\ starPattern # NONE
                /\ \E n \in starText + 1 .. Len(text) + 1 : Matches(starPattern, n)
        ELSE result = "match"

\* A pattern cannot hold up the server's only thread: the turns of the loop
\* are bounded by the product of the lengths, however many stars there are.
TurnsBounded == turns <= (Len(pattern) + 1) * (Len(text) + 1)

\* Classes accept what they list: a question made from a list of characters
\* and ranges, negated or not, comes with the answer it was made for, and
\* the class that spells the list (database.cpp:72-123) gives that answer,
\* with special characters escaped, the bounds of a range in any order, a
\* bare minus sign at either end of the class, and the class closed or not.
ClassesMeanWhatTheyList ==
    result # "running" =>
        \A i \in DOMAIN question.meant : (result = "match") = question.meant[i]
=============================================================================
