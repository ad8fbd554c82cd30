----------------------------- MODULE JobMatching -----------------------------
(***************************************************************************)
(* What the backend reads out of an advertisement (backend:                *)
(* filters/jobSearch.filter, types/professionalTaxonomy) and how it is     *)
(* scored for a profile (services/jobMatch, services/jobProfileMatch).  A  *)
(* normalized text is a sequence of words; the text of a job is that of    *)
(* its fields, one after the other.  Advertisements are completed by their *)
(* sources and profiles by their owners, a word, skill or preference at a  *)
(* time.                                                                   *)
(***************************************************************************)
EXTENDS Integers, FiniteSets, Sequences, SequencesExt, FiniteSetsExt

CONSTANTS Places,     \* words of the location
          Words,      \* words of the description
          Preferences, \* rows of user_preferences, as far as they are scored
          Skills,     \* names of technologies, as sequences of words
          RawFamilies, Modes, Years, MaxWords, MaxSkills,
          None

JobMatchingAssumption ==
    /\ Years \subseteq Nat /\ {MaxWords, MaxSkills} \subseteq Nat
    /\ Preferences \subseteq [location : Places \cup {None}, remoteOnly : BOOLEAN,
                                jobTypes : SUBSET {"remoto", "hibrido"}, keywords : SUBSET Skills]
    /\ None \notin Places \cup Words \cup Modes

VARIABLES
    ad,     \* [family, mode, place, text]: family as its source wrote it
    user,   \* [skills, saved]: technologyExperiences; the row of preferences, or None
    known   \* what the last search knew of the user: "all", without preferences ("user"), "nothing"

jvars == <<ad, user, known>>

JTypeOK ==
    /\ ad.family \in RawFamilies /\ ad.mode \in Modes /\ ad.place \in Seq(Places) /\ ad.text \in Seq(Words)
    /\ user.skills \in Seq([name : Skills, years : Years])
    /\ user.saved \in Preferences \cup {None}
    /\ known \in {"all", "user", "nothing"}

-----------------------------------------------------------------------------
\* Words that end, or begin, with another one: normalizing leaves the words of a text between
\* single blanks, and a phrase is then looked for inside words too.
EndsWith(w, v) == w = v \/ <<w, v>> \in {<<"nodejs", "js">>}
BeginsWith(w, v) == w = v \/ <<w, v>> \in {<<"json", "js">>, <<"brasilia", "brasil">>}

\* textMatchesAlias, containsTokenOrPhrase.
HasPhrase(text, phrase) ==
    IF Len(phrase) = 1 THEN phrase[1] \in ToSet(text)
    ELSE \E i \in 0..Len(text) - Len(phrase) :
           \A k \in DOMAIN phrase : CASE k = 1 -> EndsWith(text[i + k], phrase[k])
                                      [] k = Len(phrase) -> BeginsWith(text[i + k], phrase[k])
                                      [] OTHER -> text[i + k] = phrase[k]
HasAny(text, phrases) == \E p \in phrases : HasPhrase(text, p)

\* matchAliases: "x js" is also "xjs", and the other way round.
Joined == {<<<<"node", "js">>, <<"nodejs">>>>}
Aliases(name) == {name} \cup {p[2] : p \in {q \in Joined : q[1] = name}} \cup {p[1] : p \in {q \in Joined : q[2] = name}}

\* jobMatchText: title, company and the rest do not change here.
TextOf(a) == a.place \o (IF a.mode = "" THEN <<>> ELSE <<a.mode>>) \o a.text
Named(a, name) == HasAny(TextOf(a), Aliases(name))

\* normalizeFamily.
PublicFamilies == {"backend", "data", "devops", "product", "product_design"}
FamilyOf(raw) == CASE raw = "dados" -> "data" [] raw = "infraestrutura" -> "devops"
                   [] raw \in PublicFamilies -> raw [] OTHER -> "other"

-----------------------------------------------------------------------------
\* parseTechnologiesFromUser, and the map by name in which the last one counts.
LatestOf(skills, name) == Max({i \in DOMAIN skills : skills[i].name = name})
Counted(skills) == {skills[LatestOf(skills, n)] : n \in {s.name : s \in ToSet(skills)}}

Weight(S) == FoldSet(LAMBDA s, sum : sum + (IF s.years > 1 THEN s.years ELSE 1), 0, S)
Least(a, b) == IF a < b THEN a ELSE b
Rounded(n, d) == (2 * n + d) \div (2 * d)

\* scoreJobWithTechnologies; a job without a score counts as 0 wherever scores are used.
ClassicScore(a, skills) ==
    LET all == Counted(skills)
        matched == {s \in all : Named(a, s.name)}
    IN  CASE all = {} -> 0
          [] all # {} /\ matched = {} -> 45
          [] OTHER -> Least(99, 55 + Rounded(35 * Weight(matched), Weight(all)) + Least(4 * Cardinality(matched), 9))

\* The words that make a skill count in these two families.
Vocabulary(family) == IF family = "product" THEN {"product", "sql"} ELSE {"figma", "html"}

\* Each skill once, with the most years it is given.
Relevant(family, skills, keywords) ==
    LET pairs == ToSet(skills) \cup {[name |-> n, years |-> 1] : n \in keywords}
        names == {n \in {s.name : s \in pairs} : ToSet(n) \cap Vocabulary(family) # {}}
    IN  {[name |-> n, years |-> Max({s.years : s \in {t \in pairs : t.name = n}})] : n \in names}

SkillPoints(family, s) == IF family = "product_design" /\ s.name = <<"html">> THEN 2 ELSE 8 + Least(5, s.years)

\* The mode of a job as preferences name it.
Portuguese(w) == CASE w = "remote" -> "remoto" [] w = "hybrid" -> "hibrido" [] OTHER -> w

\* scoreProfessionalJob with what getUserTechnologies captured: prefs is None when nothing was.
Evidence(a, skills, prefs) ==
    LET family == FamilyOf(a.family)
        matched == {s \in Relevant(family, skills, IF prefs = None THEN {} ELSE prefs.keywords) : Named(a, s.name)}
        modes == IF a.mode = "" THEN ToSet(TextOf(a)) ELSE {a.mode}
        located == prefs # None /\ prefs.location # None /\ prefs.location \in ToSet(a.place)
        suited == prefs # None /\ IF prefs.remoteOnly THEN a.mode = "remoto"
                                  ELSE prefs.jobTypes \cap {Portuguese(w) : w \in modes} # {}
    IN  (IF located THEN 7 ELSE 0) + (IF suited THEN 7 ELSE 0)
        + Least(30, FoldSet(LAMBDA s, sum : sum + SkillPoints(family, s), 0, matched))

Additive == {"product", "product_design"}
ProfessionalScore(a, skills, prefs) ==
    LET evidence == Evidence(a, skills, prefs)
    IN  IF evidence = 0 THEN 0 ELSE Least(99, 55 + evidence)

\* Mutant: what an advertisement does not ask for counts against it in every family.
ScoreByCoverage(a, skills, prefs) == ClassicScore(a, skills)

Score(a, skills, prefs) ==
    IF FamilyOf(a.family) \in Additive THEN ProfessionalScore(a, skills, prefs) ELSE ClassicScore(a, skills)

\* getUserTechnologies: either read may fail, and the search goes on without.
SkillsKnown == IF known = "nothing" THEN <<>> ELSE user.skills
PreferencesKnown == IF known = "all" THEN user.saved ELSE None
MatchScore == Score(ad, SkillsKnown, PreferencesKnown)

-----------------------------------------------------------------------------
\* inferJobLocationParts: the first country, and the first state, whose aliases are found.
Countries == <<[name |-> "brasil", continent |-> "america do sul", aliases |-> {<<"brasil">>, <<"br">>}],
               [name |-> "canada", continent |-> "america do norte", aliases |-> {<<"canada">>}]>>
States == <<[name |-> "rs", aliases |-> {<<"rs">>, <<"porto", "alegre">>}],
            [name |-> "df", aliases |-> {<<"df">>, <<"brasilia">>}]>>
Cities == <<<<"porto", "alegre">>, <<"brasilia">>, <<"porto">>>>
Remote == {<<"remote">>, <<"remoto">>, <<"global">>}
FirstNamed(rules, place) == SelectSeq(rules, LAMBDA r : HasAny(place, r.aliases))

Parts(place) ==
    LET countries == FirstNamed(Countries, place)
        states == FirstNamed(States, place)
        home == IF countries # <<>> THEN Head(countries) ELSE Countries[1]
        located == countries # <<>> \/ states # <<>>
        cities == SelectSeq(Cities, LAMBDA c : HasPhrase(place, c))
    IN  [country |-> IF located THEN home.name ELSE "",
         continent |-> CASE located -> home.continent
                         [] ~located /\ HasAny(place, Remote) -> "global remoto"
                         [] OTHER -> "",
         state |-> IF states = <<>> THEN "" ELSE Head(states).name,
         city |-> IF cities = <<>> THEN <<>> ELSE Head(cities)]

\* inferJobType and inferJobContract.
TypeText(a) == ToSet(TextOf(a))
TypeOf(a) == CASE TypeText(a) \cap {"hibrido", "hybrid"} # {} -> "hibrido"
               [] TypeText(a) \cap {"remote", "remoto"} # {} /\ TypeText(a) \cap {"hibrido", "hybrid"} = {} -> "remoto"
               [] OTHER -> "presencial"
ContractOf(a) == CASE "pj" \in TypeText(a) -> "pj" [] "clt" \in TypeText(a) /\ "pj" \notin TypeText(a) -> "clt" [] OTHER -> ""

\* filterJobs, with "", <<>> and {} for a filter that is not set.  What could not be inferred
\* is looked for in the location itself.  The levels, technologies and companies it compares
\* as well are left out.
Mentions(place, value) == \E w \in ToSet(place) : BeginsWith(w, value)
HasPart(inferred, place, value) == value = "" \/ IF inferred # "" THEN inferred = value ELSE Mentions(place, value)
Passes(a, f) ==
    LET parts == Parts(a.place)
    IN  /\ HasPart(parts.country, a.place, f.country) /\ HasPart(parts.continent, a.place, f.continent)
        /\ HasPart(parts.state, a.place, f.state)
        /\ f.city = <<>> \/ IF parts.city # <<>> THEN parts.city = f.city ELSE HasPhrase(a.place, f.city)
        /\ f.type # {} => TypeOf(a) \in f.type
        /\ f.contract # "" => ContractOf(a) = f.contract
        /\ f.families # {} => FamilyOf(a.family) \in f.families

AnyFilter == [country |-> "", continent |-> "", state |-> "", city |-> <<>>, type |-> {}, contract |-> "",
              families |-> {}]

-----------------------------------------------------------------------------
Size(a) == Len(a.place) + Len(a.text)
Place(w) == Size(ad) < MaxWords /\ ad' = [ad EXCEPT !.place = Append(@, w)] /\ UNCHANGED <<user, known>>
Describe(w) == Size(ad) < MaxWords /\ ad' = [ad EXCEPT !.text = Append(@, w)] /\ UNCHANGED <<user, known>>

SkillNames == {s.name : s \in ToSet(user.skills)}
Learn(name, years) ==
    /\ Len(user.skills) < MaxSkills
    /\ user' = [user EXCEPT !.skills = Append(@, [name |-> name, years |-> years])]
    /\ UNCHANGED <<ad, known>>
Prefer(saved) == user.saved = None /\ user' = [user EXCEPT !.saved = saved] /\ UNCHANGED <<ad, known>>

Know(part) == known' = part /\ UNCHANGED <<ad, user>>

JInit ==
    /\ ad \in [family : RawFamilies, mode : Modes, place : {<<>>}, text : {<<>>}]
    /\ user = [skills |-> <<>>, saved |-> None] /\ known = "all"

JNext ==
    \/ \E w \in Places : Place(w)
    \/ \E w \in Words : Describe(w)
    \/ \E n \in Skills, y \in Years : Learn(n, y)
    \/ \E saved \in Preferences : Prefer(saved)
    \/ \E part \in {"all", "user", "nothing"} : Know(part)

JSpec == JInit /\ [][JNext]_jvars

-----------------------------------------------------------------------------
\* A score answers for what is known: a word more in the advertisement, a read that works
\* again, a technology it names that the profile had not, and in the families whose
\* evidence adds up any skill and all preferences, never lower it.
NewSkills == {s \in ToSet(user'.skills) : s.name \notin SkillNames}
Adds == FamilyOf(ad.family) \in Additive
Helps ==
    \/ user' = user /\ ad' # ad
    \/ /\ ad' = ad /\ NewSkills # {}
       /\ \A s \in NewSkills : Named(ad, s.name)
    \/ ad' = ad /\ Adds /\ user' # user
    \/ ad' = ad /\ Adds /\ user' = user /\ known = "nothing"
EvidenceOnlyHelps == [][Helps => MatchScore' >= MatchScore]_jvars

\* What is inferred from a location agrees with itself, and a job is found by the filters
\* that name what it was found to be.
LocationIsConsistent ==
    LET parts == Parts(ad.place)
    IN  /\ parts.country = "" => parts.state = "" /\ parts.continent \in {"", "global remoto"}
        /\ parts.city = <<"porto", "alegre">> => parts.state # "" /\ parts.country # ""
        /\ \A c \in ToSet(Countries) : parts.country = c.name => parts.continent = c.continent
        /\ \A c \in ToSet(Countries) : parts.country # "" /\ Passes(ad, [AnyFilter EXCEPT !.country = c.name])
              => Passes(ad, [AnyFilter EXCEPT !.continent = c.continent])
        /\ Passes(ad, [AnyFilter EXCEPT !.country = parts.country, !.continent = parts.continent,
                         !.state = parts.state, !.city = parts.city, !.type = {TypeOf(ad)}, !.contract = ContractOf(ad),
                         !.families = {FamilyOf(ad.family)}])
=============================================================================
