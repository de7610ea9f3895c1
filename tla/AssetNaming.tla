----------------------------- MODULE AssetNaming -----------------------------
(***************************************************************************)
(* Which asset a question is about (_slot_resolution.py and                *)
(* _asset_resolution.py): the slots the intent parser filled, the words of *)
(* the utterance, and what is configured.                                  *)
(*                                                                         *)
(* A text is the sequence of its words in lower case, without punctuation; *)
(* an asset is known by the text of its id and the phrases of its names.   *)
(* The longer of two phrases is the one of more words, and none is shorter *)
(* than three letters.  Reading the registry and the settings succeeds.    *)
(***************************************************************************)
EXTENDS Integers, SequencesExt, TLC, Lists

CONSTANTS
    Singular(_),     \* a text whose plurals are made singular
    Close(_),        \* the phrases difflib finds similar, the most similar first
    Numerals,        \* the words that are whole numbers
    NoiseWords,      \* a slot of this one word names nothing
    NoiseSlotWords,  \* nor does one of several of these
    NoiseStarts,     \* nor one that begins with one of these
    Asks

VARIABLES ask, reply

vars == <<ask, reply>>

Unanswered == [ok |-> FALSE, why |-> "unanswered"]
Found(ids) == [ok |-> TRUE, ids |-> ids]
Refused(code) == [ok |-> FALSE, why |-> code]

----------------------------------------------------------------------------
(* Texts and the registry: what is found is a set of at most one id.       *)

FirstFound(found) == UNION FirstWhere(found, LAMBDA f : f # {})

Distinct(s) == FoldLeft(LAMBDA seen, x : IF Contains(seen, x) THEN seen ELSE Append(seen, x), <<>>, s)

Digit == [one |-> "1", two |-> "2", three |-> "3", four |-> "4", five |-> "5", to |-> "2", too |-> "2"]
Number(w) == IF w \in DOMAIN Digit THEN Digit[w] ELSE w

\* "Line N" of the first five lines; with no registry it is taken at its word.
LineFastPath(t, registry) ==
    LET line == <<"line", Number(t[2])>> IN
    IF Len(t) # 2 \/ t[1] # "line" \/ Number(t[2]) \notin {"1", "2", "3", "4", "5"} THEN {}
    ELSE IF registry = <<>> THEN {line}
    ELSE {line} \cap {registry[i].id : i \in DOMAIN registry}

\* The first asset of a phrase is the one the lookup table has it for.
Exact(t, registry) == {r.id : r \in FirstWhere(registry, LAMBDA r : t \in r.says)}

\* The longest phrase that the text contains.
Contained(t, registry) ==
    LET inside == {p \in UNION {registry[i].says : i \in DOMAIN registry} : p \in SubSeqs(t)}
        longest == {p \in inside : \A q \in inside : Len(q) <= Len(p)}
    IN  {r.id : r \in FirstWhere(registry, LAMBDA r : r.says \cap longest # {})}

Similar(t, registry) == FirstFound([i \in DOMAIN Close(t) |-> Exact(Close(t)[i], registry)])

MatchAsset(t, registry) ==
    LET variants == IF Singular(t) = t THEN <<t>> ELSE <<t, Singular(t)>>
        by(Way(_, _)) == [i \in DOMAIN variants |-> Way(variants[i], registry)]
    IN  FirstFound(by(Exact) \o by(Contained) \o by(Similar))

Canonical(t, registry) ==
    IF t = <<>> THEN {} ELSE FirstFound(<<LineFastPath(t, registry), MatchAsset(t, registry)>>)

----------------------------------------------------------------------------
(* Slots and utterances.                                                   *)

Noisy(slot) ==
    \/ slot = <<>>
    \/ Len(slot) = 1 /\ slot[1] \in NoiseWords
    \/ Len(slot) > 1 /\ (slot[1] \in NoiseStarts \/ ToSet(slot) \subseteq NoiseSlotWords)

\* The lines an utterance names, whatever their number, each once.
Lines(said) ==
    LET at == {i \in 1..Len(said) - 1 : said[i] = "line" /\ said[i + 1] \in Numerals \cup DOMAIN Digit}
        spoken == Ascending({i \in at : \A j \in at : Number(said[j + 1]) = Number(said[i + 1]) => i <= j})
    IN  [k \in DOMAIN spoken |-> <<"line", Number(said[spoken[k] + 1])>>]

\* One that the registry does not know is an error, not a default.
ValidatedLines(a) ==
    LET known == [i \in DOMAIN Lines(a.said) |-> Canonical(Lines(a.said)[i], a.registry)] IN
    IF \E i \in DOMAIN known : known[i] = {} THEN Refused("unknown")
    ELSE Found([i \in DOMAIN known |-> CHOOSE id \in known[i] : TRUE])

One(ids) == Found(<<CHOOSE id \in ids : TRUE>>)

\* A mutant of DefaultAsset: of several assets the first is taken.
DefaultAssetRanked(a) ==
    LET registered == {a.registry[i].id : i \in DOMAIN a.registry} IN
    IF a.mapped # {} THEN Found(<<CHOOSE id \in a.mapped : TRUE>>)
    ELSE IF registered # {} THEN Found(<<CHOOSE id \in registered : TRUE>>) ELSE Found(<<"default">>)

\* Nothing was named: the one asset there is, or the question which one.
DefaultAsset(a) ==
    IF Cardinality(a.mapped) = 1 THEN One(a.mapped)
    ELSE IF a.mapped # {} THEN Refused("scope")
    ELSE IF Len(a.registry) = 1 THEN Found(<<a.registry[1].id>>)
    ELSE IF a.registry # <<>> THEN Refused("scope") ELSE Found(<<"default">>)

MoreSpecific(slot, said) == Len(said) > Len(slot) /\ slot \in SubSeqs(said)

\* The asset an utterance names.  An utterance spelled exactly as the id that is
\* found (a.verbatim) is taken for one in which nothing was found.
Alias(a) == Canonical(a.said, a.registry) \ (IF a.verbatim THEN {a.said} ELSE {})

ResolveFromSaid(a, otherwise) ==
    LET lines == ValidatedLines(a)
    IN  IF ~lines.ok THEN lines
        ELSE IF lines.ids # <<>> THEN Found(<<Head(lines.ids)>>)
        ELSE IF Alias(a) # {} THEN One(Alias(a)) ELSE otherwise

ResolveAssetId(a) ==
    LET slotted == Canonical(a.slot, a.registry)
        spoken == Alias(a)
    IN  IF Noisy(a.slot) THEN ResolveFromSaid(a, DefaultAsset(a))
        ELSE IF slotted = {} THEN ResolveFromSaid(a, Refused("unknown"))
        ELSE IF spoken \ slotted # {} /\ MoreSpecific(a.slot, a.said) THEN One(spoken)
        ELSE One(slotted)

\* The configured assets an utterance names, in its order: of an asset the
\* first of its phrases, at one place the longer first.
AssetsSaid(a) ==
    LET from(k) == SubSeq(a.said, k, Len(a.said))
        spoken(r) == UNION {{<<k, -Len(p)>> : p \in {q \in r.says : IsPrefix(q, from(k))}} : k \in DOMAIN a.said}
        before(x, y) == IF x[1] = y[1] THEN x[2] <= y[2] ELSE x[1] < y[1]
        best(r) == CHOOSE x \in spoken(r) : \A y \in spoken(r) : before(x, y)
        named == SelectSeq(a.registry, LAMBDA r : spoken(r) # {})
        sorted == Sorted(named, LAMBDA r, s : best(r) # best(s) /\ before(best(r), best(s)))
    IN  Distinct([i \in DOMAIN sorted |-> sorted[i].id])

\* A slot the registry does not know is passed on as it is.
CompareSlot(slot, registry) ==
    IF Noisy(slot) THEN <<>>
    ELSE IF Canonical(slot, registry) = {} THEN <<slot>> ELSE SetToSeq(Canonical(slot, registry))

ResolveCompareAssets(a) ==
    LET slots == CompareSlot(a.slot, a.registry) \o CompareSlot(a.other, a.registry)
        lines == ValidatedLines(a)
        two(ids) == Found(SubSeq(ids, 1, 2))
    IN  IF Len(slots) = 2 THEN Found(slots)
        ELSE IF ~lines.ok THEN lines
        ELSE IF Len(lines.ids) >= 2 THEN two(lines.ids)
        ELSE IF Len(AssetsSaid(a)) >= 2 THEN two(AssetsSaid(a)) ELSE Refused("scope")

\* The scope of an anomaly check (_metric_handlers.py): a line is taken at its
\* word, and with nothing named every asset is scanned.
AnomalyScope(a) ==
    LET slotted == Canonical(a.slot, a.registry)
    IN  IF slotted # {} THEN One(slotted)
        ELSE IF Lines(a.said) # <<>> THEN Found(<<Head(Lines(a.said))>>)
        ELSE Found(SetToSeq(Alias(a)))

\* The label of an asset in an answer (AVAROSSkill): a mapping's, else the
\* registry's, else the id itself.
VoiceName(a) ==
    FirstFound(<<{m.label : m \in {n \in a.labels : a.slot \in n.says}},
                 {r.label : r \in {s \in ToSet(a.registry) : a.slot \in s.says}}, {a.slot}>>)

----------------------------------------------------------------------------

Answer(a) ==
    CASE a.op = "asset" -> ResolveAssetId(a)
      [] a.op = "pair" -> ResolveCompareAssets(a)
      [] a.op = "scope" -> AnomalyScope(a)
      [] a.op = "label" -> One(VoiceName(a))

Init == ask \in Asks /\ reply = Unanswered

Next ==
    /\ ask \in Asks /\ reply = Unanswered
    /\ reply' = Answer(ask)
    /\ UNCHANGED ask

----------------------------------------------------------------------------

Resolved(op) == ask \in Asks /\ reply # Unanswered /\ ask.op = op /\ reply.ok

\* The asset r is mentioned: a phrase of it is in the slot or in the utterance,
\* or similar to the slot, the utterance or a line that the utterance names.
Mentions(r) ==
    LET texts == {ask.slot, ask.said} \cup ToSet(Lines(ask.said) \o Lines(ask.slot))
        read == texts \cup {Singular(t) : t \in texts}
    IN  \E p \in r.says, t \in read : p \in SubSeqs(t) \/ Contains(Close(t), p)

(***************************************************************************)
(* An asset that nothing in the question mentions is answered for only     *)
(* when there is no other it could be: of several assets none is a silent  *)
(* default, and an asset that was named and is not known is no reason to   *)
(* answer for another (_slot_resolution.py:137, "must never silently fall  *)
(* through to a configured default").                                      *)
(***************************************************************************)
NeverGuesses ==
    Resolved("asset") =>
        LET id == Head(reply.ids) IN
        \/ \E r \in ToSet(ask.registry) : r.id = id /\ Mentions(r)
        \/ /\ Noisy(ask.slot) /\ Lines(ask.said) = <<>>
           /\ IF ask.mapped = {} THEN Len(ask.registry) <= 1 ELSE ask.mapped = {id}
        \/ ask.registry = <<>>

(***************************************************************************)
(* "Phrases such as Line-99: returning data for Line-1 would look          *)
(* plausible while referring to the wrong production line"                 *)
(* (_slot_resolution.py:138): the one line an utterance names, with        *)
(* nothing in the slot, is answered as an asset of that name, or not at    *)
(* all; what is answered here comes from the validation of that line.      *)
(***************************************************************************)
LineAskedIsAnswered ==
    (Resolved("asset") /\ Noisy(ask.slot) /\ Len(Lines(ask.said)) = 1 /\ ask.registry # <<>>) =>
        \E r \in ToSet(ask.registry) : r.id = Head(reply.ids) /\ Head(Lines(ask.said)) \in r.says
=============================================================================
