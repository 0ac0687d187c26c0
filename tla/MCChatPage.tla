------------------------------ MODULE MCChatPage ------------------------------
(* What comes to a user's pages, each on its own: the rounds of a canvas    *)
(* that the queue's worker runs, the text that is published of an answer,    *)
(* the conversations page that asks for answers and shows them, the insights *)
(* that are watched for and what is found in a series, the reports and       *)
(* canvases that are kept, the pages that list them, the charts of a canvas  *)
(* and what cuts them, the chart that is made of a table, what the canvas    *)
(* page opens with and leaves behind.  And what is asked of the data on the  *)
(* way: what a user likes, metrics and their formulas, times, the statement  *)
(* of a chart and the one that a model wrote.  The parts share model values, *)
(* so that few permutations serve all.                                       *)
EXTENDS MCCanvasRound, AnswerText, ChatStore, Insights, Library, ChartDesk, CanvasMount,
        Preferences, MetricFormula, QueryBuild, SqlGuard

VARIABLE part

\* Text and line ends, fences whole and torn, a status line, an empty line.
SomePieces ==
    {<<"t", "n">>, <<"tick", "tick", "tick", "c">>, <<"c", "tick", "tick">>, <<"tick", "n", "t">>,
     <<"s", "n", "t">>, <<"t", "tick", "tick", "tick", "c", "tick", "tick", "tick">>, <<"n">>}

\* Losses, nothing and two gains.
SomeValues == {-3, 0, 4, 5}

\* Tables of no, one, two and three columns, and with a name twice.
SomeHeadings == {<<>>, <<"l">>, <<"l", "a">>, <<"l", "a", "b">>, <<"l", "a", "a">>}
\* A loss, a gain and what is missing.
SomeAmounts == {-1, 3, 99}

\* Two values of one dimension, one of another.
SomeCuts == {<<"f", 1>>, <<"f", 2>>, <<"g", 1>>}

\* How much of a strength the days leave.
SomeKeeps == [n \in 0 .. MaxToday |-> CASE n = 0 -> 100 [] n = 1 -> 50 [] n = 2 -> 25 [] OTHER -> 10]
\* A year of a short month between two longer ones.
SomeMonths == <<3, 2, 4>>
SomeLimits == {-1, 1, 5}

ChatRests == sources /\ \A c \in Chats : served[c] = "absent"
SeriesRests == \A i \in DOMAIN series : series[i] = 0
LibraryRests == \A x \in Items : kind[x] = "report"
ListsRest == \A x \in Papers : kept[x] = "unused"
OptionRests == table.type = "unknown" /\ table.columns = <<>>
MountRests == made = {}
DerivedRests == gone = {} /\ needs = [x \in Formulas |-> {}]
GuardRests == source = LocalSource

PageInit ==
    /\ part \in {"round", "answer", "page", "insight", "detect", "library", "lists", "desk",
                 "option", "mount", "liking", "derived", "formula", "time", "build", "guard"}
    /\ Init /\ AnswerInit /\ ChatInit /\ InsightInit /\ DetectInit
    /\ LibraryInit /\ ListInit /\ DeskInit /\ OptionInit /\ MountInit
    /\ part = "page" \/ ChatRests
    /\ part = "detect" \/ SeriesRests
    /\ part = "library" \/ LibraryRests
    /\ part = "lists" \/ ListsRest
    /\ part = "option" \/ OptionRests
    /\ part = "mount" \/ MountRests
    /\ part = "derived" \/ DerivedRests
    /\ part = "guard" \/ GuardRests
    /\ PreferenceInit /\ DerivedInit /\ FormulaInit /\ RelativeInit /\ BuildInit /\ GuardInit
ownVars ==
    <<vars, answerVars, chatVars, insightVars, series, libraryVars, listVars, deskVars, optionVars, mountVars>>
askedVars == <<preferenceVars, derivedVars, formulaVars, relativeVars, buildVars, guardVars>>
PageNext ==
    \/ part = "round" /\ QueueNext
       /\ UNCHANGED <<part, answerVars, chatVars, insightVars, series, libraryVars, listVars, deskVars, optionVars, mountVars, askedVars>>
    \/ part = "answer" /\ AnswerNext
       /\ UNCHANGED <<part, vars, chatVars, insightVars, series, libraryVars, listVars, deskVars, optionVars, mountVars, askedVars>>
    \/ part = "page" /\ ChatNext
       /\ UNCHANGED <<part, vars, answerVars, insightVars, series, libraryVars, listVars, deskVars, optionVars, mountVars, askedVars>>
    \/ part = "insight" /\ InsightNext
       /\ UNCHANGED <<part, vars, answerVars, chatVars, series, libraryVars, listVars, deskVars, optionVars, mountVars, askedVars>>
    \/ part = "detect" /\ DetectNext
       /\ UNCHANGED <<part, vars, answerVars, chatVars, insightVars, libraryVars, listVars, deskVars, optionVars, mountVars, askedVars>>
    \/ part = "library" /\ LibraryNext
       /\ UNCHANGED <<part, vars, answerVars, chatVars, insightVars, series, listVars, deskVars, optionVars, mountVars, askedVars>>
    \/ part = "lists" /\ ListNext
       /\ UNCHANGED <<part, vars, answerVars, chatVars, insightVars, series, libraryVars, deskVars, optionVars, mountVars, askedVars>>
    \/ part = "desk" /\ DeskNext
       /\ UNCHANGED <<part, vars, answerVars, chatVars, insightVars, series, libraryVars, listVars, optionVars, mountVars, askedVars>>
    \/ part = "option" /\ OptionNext
       /\ UNCHANGED <<part, vars, answerVars, chatVars, insightVars, series, libraryVars, listVars, deskVars, mountVars, askedVars>>
    \/ part = "mount" /\ MountNext
       /\ UNCHANGED <<part, vars, answerVars, chatVars, insightVars, series, libraryVars, listVars, deskVars, optionVars, askedVars>>
    \/ part = "liking" /\ PreferenceNext
       /\ UNCHANGED <<part, ownVars, derivedVars, formulaVars, relativeVars, buildVars, guardVars>>
    \/ part = "derived" /\ DerivedNext
       /\ UNCHANGED <<part, ownVars, preferenceVars, formulaVars, relativeVars, buildVars, guardVars>>
    \/ part = "formula" /\ FormulaNext
       /\ UNCHANGED <<part, ownVars, preferenceVars, derivedVars, relativeVars, buildVars, guardVars>>
    \/ part = "time" /\ RelativeNext
       /\ UNCHANGED <<part, ownVars, preferenceVars, derivedVars, formulaVars, buildVars, guardVars>>
    \/ part = "build" /\ BuildNext
       /\ UNCHANGED <<part, ownVars, preferenceVars, derivedVars, formulaVars, relativeVars, guardVars>>
    \/ part = "guard" /\ GuardNext
       /\ UNCHANGED <<part, ownVars, preferenceVars, derivedVars, formulaVars, relativeVars, buildVars>>
pageVars == <<part, ownVars, askedVars>>
PageSpec == PageInit /\ [][PageNext]_pageVars

\* Rounds, streams, runners or requests; chats or rules; charts, times or names are
\* interchangeable.
PageSymmetry ==
    RoundSymmetry \cup Permutations(Chats) \cup Permutations(Drawings)

PageTypeOK ==
    /\ part = "answer" => AnswerTypeOK
    /\ part = "page" => ChatTypeOK
    /\ part = "insight" => InsightTypeOK
    /\ part = "detect" => DetectTypeOK
    /\ part = "library" => LibraryTypeOK
    /\ part = "lists" => ListTypeOK
    /\ part = "desk" => DeskTypeOK
    /\ part = "option" => OptionTypeOK
    /\ part = "mount" => MountTypeOK
    /\ part = "liking" => PreferenceTypeOK
    /\ part = "derived" => DerivedTypeOK
    /\ part = "formula" => FormulaTypeOK
    /\ part = "time" => RelativeTypeOK
    /\ part = "build" => BuildTypeOK
    /\ part = "guard" => GuardTypeOK

\* ChatStoreSound, InsightSound, LibrarySound, PageTrue, DeskSound, MountSound,
\* PreferencesSound, DerivedSound, MeasuresSound and GuardSound, each in its part: the
\* messages are those of the chat they belong to, what a rule's runs tell is what became of
\* them, what a page lists, what a chart shows and what a canvas opens with is what there
\* is, in whatever order the answers come; no liking is forgotten, a metric is computed
\* after those it needs and found by whoever may see it, and no statement reads a source
\* it was not asked of.
PagesTrue ==
    /\ part = "page" => ChatStoreSound
    /\ part = "insight" => InsightSound
    /\ part = "library" => LibrarySound
    /\ part = "lists" => PageTrue
    /\ part = "desk" => DeskSound
    /\ part = "mount" => MountSound
    /\ part = "liking" => PreferencesSound
    /\ part = "derived" => DerivedSound
    /\ part = "formula" => MeasuresSound
    /\ part = "guard" => GuardSound

\* AnswerTextSound, DetectSound, OptionSound, TopTrue, FormulaSound, RelativeSound and
\* BuildSound, each in its part: what is made of an answer's text, of a series, of a table,
\* of likings, a formula, a time and a configuration says what they say.
ComputedTrue ==
    /\ part = "answer" => AnswerTextSound
    /\ part = "detect" => DetectSound
    /\ part = "option" => OptionSound
    /\ part = "liking" => TopTrue
    /\ part = "formula" => FormulaSound
    /\ part = "time" => RelativeSound
    /\ part = "build" => BuildSound

=============================================================================
