------------------------------- MODULE MCGlob --------------------------------
(***************************************************************************)
(* Patterns and texts for Glob: everything short, long runs of stars, and  *)
(* classes.                                                                *)
(***************************************************************************)
EXTENDS Glob, SequencesExt

a == 97
b == 98

Strings(S, n) == UNION {[1 .. i -> S] : i \in 0 .. n}
Ask(patterns, texts) == {[pattern |-> p, text |-> t, meant |-> <<>>] : p \in patterns, t \in texts}

Special == {a, b, STAR, ANY, OPEN, CLOSE, CARET, MINUS, BACKSLASH}
Short == Ask(Strings(Special, 3), Strings({a, STAR, BACKSLASH}, 2))
Starry == Ask([1 .. 5 -> {a, b, STAR}], Strings({a, b}, 4))
Unclosed ==
    Ask({<<STAR, OPEN>> \o s \o <<CLOSE, b>> :
           s \in [1 .. 3 -> {a, MINUS, CARET, BACKSLASH, CLOSE}]},
        {<<a, b>>, <<MINUS, b>>, <<b, b>>, <<b, CLOSE, b>>})

\* A class spelled from a list of ranges.  A single character is escaped where
\* it would mean something else; a minus sign at either end of the class, and
\* in a list of at most two every item is at an end, may also stand bare.  A
\* class that ends the pattern may lack its bracket.
Spelled(range, escaped) ==
    IF range[1] # range[2] THEN <<range[1], MINUS, range[2]>>
    ELSE IF range[1] \in escaped THEN <<BACKSLASH, range[1]>>
    ELSE <<range[1]>>
Lists(range) == {c \in 0 .. 127 : (range[1] <= c /\ c <= range[2]) \/ (range[2] <= c /\ c <= range[1])}
SpelledClass(list, negate, escaped, end) ==
    (IF negate THEN <<OPEN, CARET>> ELSE <<OPEN>>)
    \o FlattenSeq([i \in DOMAIN list |-> Spelled(list[i], escaped)]) \o end

Ranges == {<<c, c>> : c \in {a, STAR, BACKSLASH, CLOSE, CARET, MINUS}}
          \cup {<<a, b>>, <<b + 1, a>>, <<OPEN, CARET>>, <<ANY, STAR>>}
Classes ==
    {[pattern |-> SpelledClass(list, negate, {BACKSLASH, CLOSE, CARET} \cup minus, end),
      text |-> <<c>>,
      meant |-> <<(c \in UNION {Lists(list[i]) : i \in DOMAIN list}) # negate>>] :
        list \in Strings(Ranges, 2), negate \in BOOLEAN,
        minus \in {{}, {MINUS}}, end \in {<<>>, <<CLOSE>>},
        c \in {a, b, STAR, MINUS, OPEN, BACKSLASH, CLOSE, CARET}}

MCQuestions == Short \cup Starry \cup Unclosed \cup Classes
=============================================================================
