------------------------------ MODULE KeywordKeys ------------------------------
(***************************************************************************)
(* The sets a keyword has in Valkey: the processor writes an advertisement *)
(* into those of the keywords it was collected for (invertedIndexKeys),    *)
(* the backend reads those of what is searched (cacheSearchKeywords), and  *)
(* nothing but the way both take a keyword apart holds them together.  A   *)
(* text is the sequence of its words and marks, without case and accents.  *)
(* One advertisement is enough: none is in a set because of another.       *)
(***************************************************************************)
EXTENDS Naturals, FiniteSets, Sequences, SequencesExt

CONSTANTS Marks,      \* "/" is a space for everybody, other marks only once normalised
          Keywords,   \* what may be configured and what may be searched
          Ads         \* [text, technologies]: the words of an advertisement, and its classes

KeywordKeysAssumption ==
    /\ "/" \in Marks /\ {"node", "js", "nodejs"} \cap Marks = {}
    /\ \A a \in Ads : ToSet(a.text) \cap Marks = {}

VARIABLES
    ad,          \* the advertisement
    configured,  \* the keywords of the processor
    index,       \* texts of the sets it is in
    used         \* keywords it was indexed with

kvars == <<ad, configured, index, used>>

KTypeOK == ad \in Ads /\ configured \subseteq Keywords /\ used \subseteq Keywords /\ <<>> \notin index

-----------------------------------------------------------------------------
Sanitized(k) == SelectSeq(k, LAMBDA w : w # "/")
Normal(k) == SelectSeq(k, LAMBDA w : w \notin Marks)
NodeJs(t, i) == i \in DOMAIN t /\ i + 1 \in DOMAIN t /\ t[i] = "node" /\ t[i + 1] = "js"
Joined(t) == FoldLeft(LAMBDA joined, w : IF w = "js" /\ joined # <<>> /\ Last(joined) = "node"
                                         THEN Append(Front(joined), "nodejs") ELSE Append(joined, w), <<>>, t)

\* The processor.  keywordMatches: every word is in the text, Node.js in either spelling.
Has(text, w) == w \in ToSet(text)
HasNodeJs(text) == Has(text, "nodejs") \/ \E i \in DOMAIN text : NodeJs(text, i)
Matches(text, t) ==
    /\ t # <<>>
    /\ \A i \in DOMAIN t : IF NodeJs(t, i) THEN HasNodeJs(text) ELSE NodeJs(t, i - 1) \/ Has(text, t[i])

\* keywordIndexAliases, and keywordSubTerms with each word that is in the text.
Aliases(k) ==
    {Sanitized(k), Normal(k)}
    \cup (IF \E i \in DOMAIN Normal(k) : NodeJs(Normal(k), i) THEN {Joined(Normal(k)), <<"nodejs">>, <<"node">>} ELSE {})
SubTerms(k) == ToSet(Normal(k)) \cup (IF NodeJs(Normal(k), 1) THEN {"nodejs"} ELSE {})

Written(a, k) ==
    (IF Matches(a.text, Normal(k)) THEN Aliases(k) ELSE {}) \cup {<<w>> : w \in SubTerms(k) \cap ToSet(a.text)}
KeysOf(a) == UNION {Written(a, k) : k \in configured} \cup {Normal(t) : t \in a.technologies}
Indexable(keys) == keys \ {<<>>}

\* The backend.  keywordIndexKeyVariants: the keyword as it is and normalised, Node.js in its
\* other spelling, and each of its words.
CompactJs(t) == IF NodeJs(t, 1) THEN {<<"nodejs">>} ELSE {}
SplitJs(t) == IF t = <<"nodejs">> THEN {<<"node", "js">>} ELSE {}

\* Mutant: Node.js is looked for as it was typed.
ReadAsTyped(k) == ({Sanitized(k), Normal(k)} \cup {<<w>> : w \in ToSet(Normal(k))}) \ {<<>>}

Read(k) ==
    ({Sanitized(k), Normal(k)} \cup CompactJs(Normal(k)) \cup SplitJs(Normal(k))
     \cup {<<w>> : w \in ToSet(Normal(k))}) \ {<<>>}
Found(k) == index \cap Read(k) # {}

-----------------------------------------------------------------------------
\* What the processor is to collect changes, here by one keyword at a time, which reaches
\* every list; what is indexed already keeps its sets.
Configure(ks) == configured' = ks /\ UNCHANGED <<ad, index, used>>
Index == index' = Indexable(KeysOf(ad)) /\ used' = configured /\ UNCHANGED <<ad, configured>>

KInit == ad \in Ads /\ configured = {} /\ index = {} /\ used = {}
KNext == Index \/ \E k \in Keywords : Configure(configured \cup {k}) \/ Configure(configured \ {k})
KSpec == KInit /\ [][KNext]_kvars

-----------------------------------------------------------------------------
SameKeyword(k, s) == Joined(Normal(k)) = Joined(Normal(s))

\* An advertisement collected for a keyword is found under it, however the search spells it,
\* and so is one that was classified under a technology of that name.
FoundUnderEverySpelling ==
    \A s \in Keywords :
        (\/ \E k \in used : SameKeyword(k, s) /\ Matches(ad.text, Normal(k))
         \/ index # {} /\ \E t \in ad.technologies : Normal(t) # <<>> /\ SameKeyword(t, s))
        => Found(s)

\* What is found has a word of the keyword in its text or among its technologies.
Meaning(t) == ToSet(t) \cup ToSet(Joined(t)) \cup (IF Has(t, "nodejs") THEN {"node", "js"} ELSE {})
FoundHasAWord ==
    \A s \in Keywords : Found(s) =>
        Meaning(Normal(s)) \cap (Meaning(ad.text) \cup UNION {Meaning(Normal(t)) : t \in ad.technologies}) # {}
=============================================================================
