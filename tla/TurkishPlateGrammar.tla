-------------------------- MODULE TurkishPlateGrammar --------------------------
(***************************************************************************)
(* The plate grammar (src/application/turkish_plate_grammar.cpp): a        *)
(* province from 01 to 81, one to three letters, and a number of digits    *)
(* that depends on the number of letters.  The constrained beam search     *)
(* prunes with is_valid_prefix and accepts with is_valid_normalized.       *)
(*                                                                         *)
(* A text is a sequence of character codes.                                *)
(***************************************************************************)
EXTENDS Integers, Sequences, SequencesExt

CONSTANTS
    allowed_letters,        \* upper case
    strip_ascii_whitespace, strip_hyphen,
    maximum_input_length

Digits == 48..57
Whitespace == {9, 10, 13, 32}
Hyphen == 45
Upper(c) == IF c \in 97..122 THEN c - 32 ELSE c

ASSUME GrammarAssumption ==
    /\ allowed_letters \subseteq 65..90 /\ allowed_letters # {}
    /\ strip_ascii_whitespace \in BOOLEAN /\ strip_hyphen \in BOOLEAN
    /\ maximum_input_length \in 1..256

\* One character more, upper case, unless it is stripped.
PushNormalized(normalized, raw) ==
    IF \/ strip_ascii_whitespace /\ raw \in Whitespace
       \/ strip_hyphen /\ raw = Hyphen
    THEN normalized ELSE Append(normalized, Upper(raw))

\* A text too long or not ASCII becomes empty.
Normalize(text) ==
    LET normalized[i \in 0..Len(text)] ==
            IF i = 0 THEN <<>> ELSE PushNormalized(normalized[i - 1], text[i])
    IN  IF Len(text) > maximum_input_length \/ \E i \in DOMAIN text : text[i] >= 128
        THEN <<>> ELSE normalized[Len(text)]

HasProvince(t) ==
    /\ t[1] \in Digits /\ t[2] \in Digits
    /\ (t[1] - 48) * 10 + (t[2] - 48) \in 1..81

\* The letters that follow the province.
LetterCount(t) ==
    LET others == {i \in 3..Len(t) : t[i] \notin allowed_letters}
    IN  IF others = {} THEN Len(t) - 2 ELSE Min(others) - 3

OnlyDigitsAfter(t, n) == \A i \in (n + 1)..Len(t) : t[i] \in Digits

AllowedDigitCount == <<{4, 5}, {3, 4}, {2, 3}>>

\* Mutant: the shorter of the two numbers is taken for the longest.
MaximumDigitCountShort == <<4, 3, 2>>

MaximumDigitCount == <<5, 4, 3>>

IsValidNormalized(t) ==
    /\ Len(t) \in 6..8 /\ HasProvince(t)
    /\ LetterCount(t) \in 1..3
    /\ OnlyDigitsAfter(t, 2 + LetterCount(t))
    /\ Len(t) - 2 - LetterCount(t) \in AllowedDigitCount[LetterCount(t)]

IsValid(text) == Normalize(text) # <<>> /\ IsValidNormalized(Normalize(text))

\* What a normalized text of more than two characters must look like.
IsValidTail(t) ==
    /\ LetterCount(t) \in 1..3
    /\ OnlyDigitsAfter(t, 2 + LetterCount(t))
    /\ Len(t) - 2 - LetterCount(t) <= MaximumDigitCount[LetterCount(t)]

IsValidPrefix(prefix) ==
    LET t == Normalize(prefix) IN
    \/ prefix = <<>>
    \/ /\ Len(t) \in 1..8
       /\ IF Len(t) = 1 THEN t[1] \in 48..56
          ELSE HasProvince(t) /\ (Len(t) > 2 => IsValidTail(t))
==============================================================================
