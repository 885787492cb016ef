------------------------------ MODULE TextValues ------------------------------
(***************************************************************************)
(* Message texts and group titles: what normalization makes of a string,   *)
(* and what message content makes of a blank one.  The strings are all     *)
(* those that can be typed, character by character, from an alphabet with  *)
(* one letter, one combining mark, the composition of the two, one blank   *)
(* and the two characters of line ends.                                    *)
(*                                                                         *)
(* Every copy and every restored aggregate is validated anew (base.py:     *)
(* revalidate_instances), so a normalized text goes through all this once  *)
(* more whenever anything about its message changes.                       *)
(***************************************************************************)
EXTENDS Integers, Sequences, SequencesExt

CONSTANTS
    MaxText,   \* domain/limits.py: MAX_MESSAGE_TEXT_LENGTH
    MaxTitle,  \* domain/limits.py: MAX_GROUP_TITLE_LENGTH
    MaxTyped,  \* bound: length of the strings
    Invalid,   \* InvalidMessageTextError, InvalidGroupTitleError
    None

Alphabet == {"letter", "mark", "composed", "space", "cr", "lf"}

Blanks == {"space", "cr", "lf"}

\* A refused or a missing text is no text.
ASSUME TextAssumption ==
    /\ {MaxText, MaxTitle, MaxTyped} \subseteq Nat
    /\ Invalid # None /\ Invalid \notin Seq(Alphabet) /\ None \notin Seq(Alphabet)

VARIABLE raw   \* the string typed so far

Init == raw = <<>>

Type(char) == Len(raw) < MaxTyped /\ raw' = Append(raw, char)

Typed == Len(raw) = MaxTyped /\ UNCHANGED raw

Next == Typed \/ \E char \in Alphabet : Type(char)

Spec == Init /\ [][Next]_raw
------------------------------------------------------------------------------
EndsWith(s, char) == s # <<>> /\ Last(s) = char

\* The string with every pair <<first, second>> replaced by one character.
Joined(s, first, second, one) ==
    LET done[t \in Seq(Alphabet)] ==
          IF t = <<>> THEN <<>>
          ELSE LET before == done[Front(t)] IN
               IF Last(t) = second /\ EndsWith(before, first)
               THEN Append(Front(before), one)
               ELSE Append(before, Last(t))
    IN  done[s]

\* unicodedata.normalize("NFC", ...).
Composed(s) == Joined(s, "letter", "mark", "composed")

\* Mutant: the two replacements in the other order.
CarriageFirst(s) == Joined(ReplaceAll(s, "cr", "lf"), "cr", "lf", "lf")

\* CRLF, then what is left of CR.
UnixLines(s) == ReplaceAll(Joined(s, "cr", "lf", "lf"), "cr", "lf")

IsInk(char) == char \notin Blanks

\* Mutant: one blank is taken from either end.
StripOne(s) ==
    LET from == IF s # <<>> /\ ~IsInk(Head(s)) THEN 2 ELSE 1
        to == IF s # <<>> /\ ~IsInk(Last(s)) THEN Len(s) - 1 ELSE Len(s)
    IN  SubSeq(s, from, to)

\* str.strip.
Strip(s) ==
    LET ink == {i \in DOMAIN s : IsInk(s[i])}
    IN  IF ink = {} THEN <<>> ELSE SubSeq(s, Min(ink), Max(ink))

\* Mutant: the limit is tested on the string as it came.
RawWithin(s, normal, limit) ==
    IF normal = <<>> \/ Len(s) > limit THEN Invalid ELSE normal

\* The value object holding the normalized string, unless it is empty or too long.
Within(s, normal, limit) ==
    IF normal = <<>> \/ Len(normal) > limit THEN Invalid ELSE normal

\* MessageText._normalize_and_validate.
MessageText(s) == Within(s, Strip(UnixLines(Composed(s))), MaxText)

\* GroupTitle._normalize_and_validate: line ends inside a title stay as they are.
GroupTitle(s) == Within(s, Strip(Composed(s)), MaxTitle)

\* MessageContent._validate_text.
ContentText(s) == IF Strip(s) = <<>> THEN None ELSE MessageText(s)
------------------------------------------------------------------------------
(* Properties *)

\* A stored text or title passes validation unchanged however often it is restored
\* or copied; otherwise an edit of something else would alter or refuse it
\* (DomainModel.model_copy).
Restorable ==
    /\ MessageText(raw) # Invalid => ContentText(MessageText(raw)) = MessageText(raw)
    /\ GroupTitle(raw) # Invalid => GroupTitle(GroupTitle(raw)) = GroupTitle(raw)

\* A character as another client would spell it: decomposed, with CRLF lines.
Spelling(before, char) ==
    CASE char = "composed" -> <<"letter", "mark">>
      [] char = "cr" -> <<"cr", "lf">>
      [] char = "lf" -> IF EndsWith(before, "cr") THEN <<>> ELSE <<"cr", "lf">>
      [] OTHER -> <<char>>

Respelled(s) ==
    LET spelled[t \in Seq(Alphabet)] ==
          IF t = <<>> THEN <<>> ELSE spelled[Front(t)] \o Spelling(Front(t), Last(t))
    IN  spelled[s]

\* A retry or an edit that spells the text otherwise is the same intent: a replay,
\* a no-op, the same refusal (docs/domain-model-design-2026-09-18.md: an equivalent
\* text in NFC, CRLF or LF is one normalized intent).
OneIntent == ContentText(Respelled(raw)) = ContentText(raw)

\* How many characters a reader sees between the first and the last visible one.
Visible(s) ==
    LET shown == Strip(s) IN
    Len(shown) - Cardinality({i \in 1..(Len(shown) - 1) :
                     <<shown[i], shown[i + 1]>> \in {<<"letter", "mark">>, <<"cr", "lf">>}})

\* A text is refused exactly if what a reader sees of it is too long, whatever its
\* length as typed; what nobody sees is no text at all, and never an invalid one
\* (MessageContent._validate_nonempty).
LimitOnVisible ==
    /\ ContentText(raw) = None <=> Visible(raw) = 0
    /\ ContentText(raw) = Invalid <=> Visible(raw) > MaxText
==============================================================================
