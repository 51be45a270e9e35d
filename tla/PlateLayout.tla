------------------------------ MODULE PlateLayout ------------------------------
(***************************************************************************)
(* ConnectedComponentPlateLayoutAnalyzer: from the boxes of the dark       *)
(* components of a plate, which are given in the order OpenCV labels them, *)
(* how many characters it has and where its letters end.  Component        *)
(* extraction (contrast, blur, threshold, labelling) is OpenCV's.  Ratios  *)
(* and confidences are numbers of Unit-ths.  A configuration is            *)
(*   [enabled, height_ratio, width_ratio, aspect ([minimum, maximum]),     *)
(*    minimum_character_count, maximum_character_count,                    *)
(*    maximum_height_variation, minimum_boundary_gap_strength,             *)
(*    minimum_confidence].                                                 *)
(***************************************************************************)
EXTENDS Integers, Sequences, FiniteSetsExt, Functions, TLC

CONSTANT Unit

RangeValid(range) ==
    /\ range.minimum \in 1..Unit /\ range.maximum \in 1..Unit /\ range.minimum < range.maximum

ConfigValid(config) ==
    /\ RangeValid(config.height_ratio) /\ RangeValid(config.width_ratio)
    /\ config.aspect.minimum > 0 /\ config.aspect.maximum > config.aspect.minimum
    /\ 4 <= config.minimum_character_count
    /\ config.minimum_character_count <= config.maximum_character_count
    /\ config.maximum_character_count <= 16
    /\ config.maximum_height_variation \in 1..Unit
    /\ config.minimum_boundary_gap_strength >= Unit
    /\ config.minimum_confidence \in 1..Unit

-----------------------------------------------------------------------------
(* Which components are characters, and in which order.                    *)

Within(part, whole, range) ==
    /\ range.minimum * whole <= part * Unit /\ part * Unit <= range.maximum * whole

IsCharacter(config, plate, c) ==
    /\ c.width > 0 /\ c.height > 0
    /\ Within(c.height, plate.height, config.height_ratio)
    /\ Within(c.width, plate.width, config.width_ratio)
    /\ Within(c.width, c.height, config.aspect)

LeftToRight(a, b) == a.x < b.x \/ (a.x = b.x /\ a.y < b.y)

Ordered(boxes) ==
    LET before(i, j) == \/ LeftToRight(boxes[i], boxes[j])
                        \/ ~LeftToRight(boxes[j], boxes[i]) /\ i < j
        at == SortSeq([i \in DOMAIN boxes |-> i], before)
    IN  [i \in DOMAIN boxes |-> boxes[at[i]]]

CharactersOf(config, plate, boxes) ==
    Ordered(SelectSeq(boxes, LAMBDA c : IsCharacter(config, plate, c)))

-----------------------------------------------------------------------------
(* choose_letter_group.  Strengths are twice the sum of two gaps over the  *)
(* typical gap; they are compared as fractions of the same denominator.    *)

Gaps(characters) ==
    [i \in 1..(Len(characters) - 1) |->
        Max({0, characters[i + 1].x - (characters[i].x + characters[i].width)})]

\* Twice the median.
TwiceMedian(values) ==
    LET sorted == SortSeq(values, LAMBDA a, b : a < b)
        middle == Len(values) \div 2
    IN  IF Len(values) % 2 = 1 THEN 2 * sorted[middle + 1]
        ELSE sorted[middle] + sorted[middle + 1]

TwiceTypical(gaps) == Max({2, TwiceMedian(gaps)})

DigitCounts == 2..5

\* The sums of the gaps on either side of a letter group, for those it may have.
BoundaryGaps(characters, gaps) ==
    [letters \in {l \in 1..3 : /\ l + 2 <= Len(gaps)
                               /\ Len(characters) - 2 - l \in DigitCounts} |->
        gaps[2] + gaps[letters + 2]]

\* The mean of the two gaps over the typical one is gap / (2 * typical).
StrongEnough(gap, twice_typical, minimum_strength) ==
    gap * Unit >= minimum_strength * twice_typical

\* What it is if the first strong boundary is taken.
FirstStrong(boundary, strong) ==
    CHOOSE l \in strong : \A m \in strong : l <= m

Strongest(boundary, strong) ==
    CHOOSE l \in strong : \A m \in strong :
        boundary[l] > boundary[m] \/ (boundary[l] = boundary[m] /\ l <= m)

\* [letter_group_size, strength], or nothing.
Choice(boundary, twice_typical, minimum_strength) ==
    LET strong == {l \in DOMAIN boundary :
                      StrongEnough(boundary[l], twice_typical, minimum_strength)}
    IN  IF strong = {} THEN {}
        ELSE {[letter_group_size |-> Strongest(boundary, strong),
               strength |-> (boundary[Strongest(boundary, strong)] * Unit) \div twice_typical]}

ChooseLetterGroup(characters, minimum_strength) ==
    LET gaps == Gaps(characters) IN
    IF Len(characters) < 5 THEN {}
    ELSE Choice(BoundaryGaps(characters, gaps), TwiceTypical(gaps), minimum_strength)

-----------------------------------------------------------------------------
(* analyze.                                                                *)

Clamp01(n) == Max({0, Min({Unit, n})})

OverlapCount(characters) ==
    Len(SelectSeq([i \in 1..(Len(characters) - 1) |-> i],
            LAMBDA i : characters[i + 1].x < characters[i].x + characters[i].width))

SumOf(values) == MapThenSumSet(LAMBDA i : values[i], DOMAIN values)

\* The coefficient of variation, rounded down.
HeightVariation(characters) ==
    LET n == Len(characters)
        sum == SumOf([i \in DOMAIN characters |-> characters[i].height])
        squares == SumOf([i \in DOMAIN characters |-> characters[i].height * characters[i].height])
    IN  CHOOSE v \in 0..(n * Unit) :
            /\ v * v * sum * sum <= Unit * Unit * (n * squares - sum * sum)
            /\ (v + 1) * (v + 1) * sum * sum > Unit * Unit * (n * squares - sum * sum)

Confidence(config, variation, strength, overlaps) ==
    LET height_score == Clamp01(Unit - (variation * Unit) \div config.maximum_height_variation)
        boundary_score ==
            Clamp01(((strength - Unit) * Unit)
                      \div Max({Unit \div 4, config.minimum_boundary_gap_strength}))
        overlap_score == IF overlaps = 0 THEN Unit ELSE Unit \div 2
    IN  Clamp01((40 * height_score + 45 * boundary_score + 15 * overlap_score) \div 100)

Unreliable(count) ==
    [reliable |-> FALSE, character_count |-> count, letter_group_size |-> {}, confidence |-> 0]

Judged(config, characters, choice, variation) ==
    LET confidence == Confidence(config, variation, choice.strength, OverlapCount(characters))
    IN  [reliable |-> confidence >= config.minimum_confidence,
         character_count |-> Len(characters),
         letter_group_size |-> {choice.letter_group_size}, confidence |-> confidence]

AnalyzeCharacters(config, characters) ==
    LET count == Len(characters)
        choices == ChooseLetterGroup(characters, config.minimum_boundary_gap_strength)
    IN  IF /\ count \in config.minimum_character_count..config.maximum_character_count
           /\ HeightVariation(characters) <= config.maximum_height_variation
           /\ OverlapCount(characters) <= 1
           /\ choices # {}
        THEN Judged(config, characters, CHOOSE c \in choices : TRUE, HeightVariation(characters))
        ELSE Unreliable(count)

Analyze(config, plate, boxes) ==
    IF config.enabled THEN AnalyzeCharacters(config, CharactersOf(config, plate, boxes))
                      ELSE Unreliable(0)
==============================================================================
