------------------------ MODULE ConstrainedCtcBeamSearch ------------------------
(***************************************************************************)
(* The CTC decoders of LPRNet                                              *)
(* (src/infrastructure/lprnet/ctc_decoder.cpp and                          *)
(* constrained_ctc_beam_search.cpp): the greedy one, and the beam search   *)
(* that reads confusable characters both ways and keeps only prefixes of   *)
(* plates.                                                                 *)
(*                                                                         *)
(* Classes are numbers from 0, characters are codes.  A timestep is a row  *)
(* of positive weights, one per class, in the proportion of its softmax;   *)
(* probabilities are products of weights, not logarithms, every step of    *)
(* all states taking the same common denominator.                          *)
(***************************************************************************)
EXTENDS Integers, Sequences, SequencesExt

CONSTANTS
    charset,                \* a sequence of distinct characters
    blank_index,
    classes_per_step, result_limit,
    confusion_pairs,
    ConfusionScale, confusion_weight,   \* a number of ConfusionScale-ths
    plates                  \* the texts the grammar accepts, see PrefixExact

Classes == 0..Len(charset)

ASSUME CtcAssumption ==
    /\ charset # <<>> /\ \A i, j \in DOMAIN charset : charset[i] = charset[j] => i = j
    /\ blank_index \in Classes
    /\ classes_per_step \in Nat \ {0} /\ result_limit \in Nat \ {0}
    /\ ConfusionScale \in Nat \ {0} /\ confusion_weight \in 1..ConfusionScale
    /\ \A p \in confusion_pairs : p[1] # p[2] /\ <<p[2], p[1]>> \notin confusion_pairs
    /\ <<>> \notin plates

ClassToCharacter(c) == IF c < blank_index THEN charset[c + 1] ELSE charset[c]

IsValidPlatePrefix(text) == \E p \in plates : IsPrefix(text, p)

-----------------------------------------------------------------------------
(* GreedyCtcDecoder: of equal classes the first is taken.                  *)

BestClass(row) ==
    Min({c \in Classes : \A d \in Classes : row[d] <= row[c]})

GreedyText(rows) ==
    LET best == [t \in DOMAIN rows |-> BestClass(rows[t])]
        emits(t) == best[t] # blank_index /\ (t = 1 \/ best[t] # best[t - 1])
    IN  FoldLeft(LAMBDA text, t : IF emits(t) THEN Append(text, ClassToCharacter(best[t]))
                                  ELSE text,
                 <<>>, [t \in DOMAIN rows |-> t])

-----------------------------------------------------------------------------
(* The beam: the weight of each state [text, last] it holds.               *)

SelectedClasses(row) ==
    {blank_index} \cup
    {c \in Classes :
        Cardinality({d \in Classes : row[d] > row[c] \/ (row[d] = row[c] /\ d < c)})
            < classes_per_step}

\* What a class may stand for, with the factor each reading takes.
Readings(c) ==
    LET emitted == ClassToCharacter(c)
        alternatives == {p[2] : p \in {q \in confusion_pairs : q[1] = emitted}}
                          \cup {p[1] : p \in {q \in confusion_pairs : q[2] = emitted}}
    IN  {<<emitted, ConfusionScale>>}
          \cup {<<a, confusion_weight>> : a \in alternatives \cap ToSet(charset)}

\* The states one timestep makes of a state, with the factor of its weight.
Moves(state, row) ==
    LET selected == SelectedClasses(row)
        stays == {[key |-> [text |-> state.text, last |-> c], factor |-> row[c] * ConfusionScale] :
                     c \in selected \cap {blank_index, state.last}}
        emits == UNION {{[key |-> [text |-> Append(state.text, r[1]), last |-> c],
                          factor |-> row[c] * r[2]] : r \in Readings(c)} :
                            c \in selected \ {blank_index, state.last}}
    IN  stays \cup {m \in emits : IsValidPlatePrefix(m.key.text)}

\* Mutant: of several ways to a state the likeliest counts, not their sum.
MergeLikeliest(beam, row) ==
    LET ways == UNION {{[key |-> m.key, weight |-> beam[s] * m.factor] :
                           m \in Moves(s, row)} : s \in DOMAIN beam}
    IN  [k \in {w.key : w \in ways} |-> Max({w.weight : w \in {v \in ways : v.key = k}})]

Merged(beam, row) ==
    LET moves == [s \in DOMAIN beam |-> Moves(s, row)]
        to(s, k) == {m \in moves[s] : m.key = k}
    IN  [k \in UNION {{m.key : m \in moves[s]} : s \in DOMAIN beam} |->
            MapThenSumSet(LAMBDA s : beam[s] * MapThenSumSet(LAMBDA m : m.factor, to(s, k)),
                          DOMAIN beam)]

TextBefore(s, t) ==
    \/ IsStrictPrefix(s, t)
    \/ \E i \in DOMAIN s \cap DOMAIN t :
           s[i] < t[i] /\ \A j \in 1..(i - 1) : s[j] = t[j]

StateBefore(weights, k, l) ==
    \/ weights[k] > weights[l]
    \/ weights[k] = weights[l] /\ TextBefore(k.text, l.text)
    \/ weights[k] = weights[l] /\ k.text = l.text /\ k.last < l.last

Narrowed(weights, beam_width) ==
    Restrict(weights, {k \in DOMAIN weights :
        Cardinality({l \in DOMAIN weights : StateBefore(weights, l, k)}) < beam_width})

Beam(rows, beam_width) ==
    FoldLeft(LAMBDA beam, row : Narrowed(Merged(beam, row), beam_width),
             [k \in {[text |-> <<>>, last |-> blank_index]} |-> 1], rows)

-----------------------------------------------------------------------------
(* The result: the plates of the beam, or the greedy text if there is none *)
(* (of a charset whose characters normalize leaves as they are).           *)

FinalScores(beam) ==
    [text \in {k.text : k \in DOMAIN beam} \cap plates |->
        MapThenSumSet(LAMBDA k : beam[k], {k \in DOMAIN beam : k.text = text})]

Decode(rows, beam_width) ==
    LET scores == FinalScores(Beam(rows, beam_width))
        ranked == SetToSortSeq(DOMAIN scores, LAMBDA s, t :
                      scores[s] > scores[t] \/ (scores[s] = scores[t] /\ TextBefore(s, t)))
        kept == SubSeq(ranked, 1, Min({result_limit, Len(ranked)}))
        greedy == GreedyText(rows)
    IN  IF kept = <<>> /\ greedy # <<>>
          THEN [fallback_used |-> TRUE,
                candidates |-> <<[text |-> greedy, format_valid |-> greedy \in plates]>>]
          ELSE [fallback_used |-> FALSE,
                candidates |-> [i \in DOMAIN kept |->
                    [text |-> kept[i], weight |-> scores[kept[i]], format_valid |-> TRUE]]]
==============================================================================
