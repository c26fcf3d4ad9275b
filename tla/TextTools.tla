----------------------------- MODULE TextTools ------------------------------
(***************************************************************************)
(* The sequential tools of chapter02, which keep hidden state between calls*)
(* or hand memory to their callers:                                        *)
(*   "argtestfree"    makeargv, and freemakeargv;                          *)
(*   "getpaths"       makeargv, of a variable that may not be set;         *)
(*   "wordaverage"    with strtok_r, which has a place for each loop;      *)
(*   "wordaveragebad" with strtok, which has one static place for both;    *)
(*   "bubblesort"     counts its interchanges;                             *)
(*   "keeplog", "keeploghistory"  execute commands and list them in the    *)
(*                    end, the latter also when told to.                   *)
(***************************************************************************)
EXTENDS HostNames, Sequences, SequencesExt

CONSTANTS
    TextToolNames,  \* the tools to choose from
    MaxText,        \* bound on the length of a string or an array
    MaxTyped        \* bound on the lines given to keeplog

ASSUME TextAssumption ==
    /\ TextToolNames \subseteq {"argtestfree", "getpaths", "wordaverage", "wordaveragebad", "bubblesort", "keeplog", "keeploghistory"}
    /\ MaxText \in Nat /\ MaxTyped \in Nat

VARIABLES
    texttool,       \* constant: the tool
    source,         \* constant: the string, or the array
    tpc,            \* its next step
    string,         \* what strtok works on, with its NUL; the array
    place,          \* where strtok and strtok_r go on: [static, line, word]
    argv,           \* where the tokens start; of keeplog, the history
    heap,           \* what has been allocated and not freed
    counts,         \* the counters of the tool, see TextInit
    history         \* keeplog: [ran, shown, broken, final]

textvars == <<texttool, source, tpc, string, place, argv, heap, counts, history>>

NUL == "0"
Unset == <<"unset">>
Chars == {"x", " ", "\n"}
Splitter == texttool \in {"argtestfree", "getpaths"}
Averager == texttool \in {"wordaverage", "wordaveragebad"}
Keeper == texttool \in {"keeplog", "keeploghistory"}

Sources ==
    IF Keeper THEN {<< >>}
    ELSE IF texttool = "bubblesort" THEN BoundedSeq(1..3, MaxText)
    ELSE BoundedSeq(Chars, MaxText) \cup IF texttool = "getpaths" THEN {Unset} ELSE {}

TextInit ==
    /\ texttool \in TextToolNames
    /\ source \in Sources
    /\ tpc = CASE Splitter -> "makeargv" [] Averager -> "line" [] Keeper -> "read"
               [] OTHER -> IF Len(source) > 1 THEN "compare" ELSE "sorted"
    /\ string = IF Averager THEN Append(source, NUL) ELSE source
    /\ place = [static |-> 1, line |-> 1, word |-> 1]
    /\ argv = << >> /\ heap = {}
    /\ counts = CASE Splitter -> [tokens |-> 0]
                  [] Averager -> [words |-> 0, lines |-> 0]
                  [] Keeper -> [lines |-> 0, keys |-> 0]
                  [] OTHER -> [pass |-> 0, j |-> 1, changed |-> FALSE, swaps |-> 0]
    /\ history = [ran |-> 0, shown |-> 0, broken |-> FALSE, final |-> FALSE]

-----------------------------------------------------------------------------
(* strtok: the first token of string at or after from, 0 for none; where   *)
(* the next search starts; the string, in which the delimiter is now NUL.  *)

FirstOf(s, from, chars) == Min({i \in from..Len(s) : s[i] \in chars})

Strtok(from, delims) ==
    LET b == Min({i \in from..Len(string) : string[i] \notin delims})
        e == FirstOf(string, b, delims \cup {NUL}) IN
    IF string[b] = NUL THEN [token |-> 0, next |-> b, string |-> string]
    ELSE [token |-> b, next |-> IF string[e] = NUL THEN e ELSE e + 1, string |-> [string EXCEPT ![e] = NUL]]

\* One call of it, with the place it keeps.
Take(cell, r) == string' = r.string /\ place' = [place EXCEPT ![cell] = r.next]

-----------------------------------------------------------------------------
(* makeargv and its callers.                                               *)

Delimiters == {" ", "\n"}

\* Mutant of RealStart: the delimiters in front stay.
WholeString(s) == s

\* The string without the delimiters in front of it.
RealStart(s) == SubSeq(s, Min({i \in 1..(Len(s) + 1) : i > Len(s) \/ s[i] \notin Delimiters}), Len(s))

Failed == tpc' = "failed" /\ UNCHANGED <<texttool, source, string, place, argv, counts, history>>

makeargv ==
    /\ tpc = "makeargv"
    /\ \/ source = Unset /\ Failed /\ UNCHANGED heap
       \/ Failed /\ UNCHANGED heap          \* malloc
       \/ /\ source # Unset
          /\ string' = Append(RealStart(source), NUL)
          /\ heap' = {"t"}
          /\ tpc' = "count"
          /\ UNCHANGED <<texttool, source, place, argv, counts, history>>

CountToken ==
    /\ tpc = "count"
    /\ LET r == Strtok(place.static, Delimiters) IN
       /\ Take("static", r)
       /\ IF r.token = 0 THEN tpc' = "allocate" /\ UNCHANGED counts
          ELSE counts' = [counts EXCEPT !.tokens = @ + 1] /\ UNCHANGED tpc
    /\ UNCHANGED <<texttool, source, argv, heap, history>>

AllocateArray ==
    /\ tpc = "allocate"
    /\ \/ Failed /\ heap' = heap \ {"t"}
       \/ /\ IF counts.tokens = 0
             THEN /\ heap' = {"argv"} /\ tpc' = "made"
                  /\ UNCHANGED <<string, place>>
             ELSE /\ heap' = heap \cup {"argv"} /\ tpc' = "insert"
                  /\ string' = Append(RealStart(source), NUL)
                  /\ place' = [place EXCEPT !.static = 1]
          /\ UNCHANGED <<texttool, source, argv, counts, history>>

InsertToken ==
    /\ tpc = "insert"
    /\ LET r == Strtok(place.static, Delimiters) IN
       Take("static", r) /\ argv' = Append(argv, r.token)
    /\ tpc' = IF Len(argv') = counts.tokens THEN "made" ELSE "insert"
    /\ UNCHANGED <<texttool, source, heap, counts, history>>

\* It frees the block that the first pointer points to, and the array.
freemakeargv ==
    /\ tpc = "made" /\ texttool = "argtestfree"
    /\ heap' = heap \ ({"argv"} \cup IF argv # << >> /\ Head(argv) = 1 THEN {"t"} ELSE {})
    /\ tpc' = "freed"
    /\ UNCHANGED <<texttool, source, string, place, argv, counts, history>>

-----------------------------------------------------------------------------
(* wordaverage: the loop over the lines and, in wordcount, over the words. *)

PlaceOf(loop) == IF texttool = "wordaveragebad" THEN "static" ELSE loop

wordaverage ==
    /\ tpc = "line"
    /\ LET r == Strtok(place[PlaceOf("line")], {"\n"}) IN
       IF r.token = 0
       THEN tpc' = "averaged" /\ Take(PlaceOf("line"), r) /\ UNCHANGED counts
       ELSE /\ tpc' = "firstword"
            /\ string' = r.string
            /\ place' = [[place EXCEPT ![PlaceOf("line")] = r.next] EXCEPT !.word = r.token]
            /\ counts' = [counts EXCEPT !.lines = @ + 1]
    /\ UNCHANGED <<texttool, source, argv, heap, history>>

\* The first call gets the line, nextline, the others go on from their place.
wordcount ==
    /\ tpc \in {"firstword", "word"}
    /\ LET r == Strtok(IF tpc = "firstword" THEN place.word ELSE place[PlaceOf("word")], {" "}) IN
       /\ Take(PlaceOf("word"), r)
       /\ IF r.token = 0 THEN tpc' = "line" /\ UNCHANGED counts
          ELSE tpc' = "word" /\ counts' = [counts EXCEPT !.words = @ + 1]
    /\ UNCHANGED <<texttool, source, argv, heap, history>>

-----------------------------------------------------------------------------
(* bubblesort.                                                             *)

onepass ==
    /\ tpc = "compare" /\ counts.j < Len(string) - counts.pass
    /\ LET j == counts.j IN
       IF string[j] > string[j + 1]
       THEN /\ string' = [string EXCEPT ![j] = string[j + 1], ![j + 1] = string[j]]
            /\ counts' = [counts EXCEPT !.j = j + 1, !.changed = TRUE, !.swaps = @ + 1]
       ELSE /\ counts' = [counts EXCEPT !.j = j + 1]
            /\ UNCHANGED string
    /\ UNCHANGED <<texttool, source, tpc, place, argv, heap, history>>

bubblesort ==
    /\ tpc = "compare" /\ counts.j = Len(string) - counts.pass
    /\ IF counts.changed /\ counts.pass + 1 < Len(string) - 1
       THEN counts' = [counts EXCEPT !.pass = @ + 1, !.j = 1, !.changed = FALSE] /\ UNCHANGED tpc
       ELSE tpc' = "sorted" /\ UNCHANGED counts
    /\ UNCHANGED <<texttool, source, string, place, argv, heap, history>>

-----------------------------------------------------------------------------
(* keeplog: argv is its list, each command the number of its line.         *)

KeepTo(to, log, lines, keys, hist) ==
    /\ tpc' = to /\ argv' = log
    /\ counts' = [lines |-> lines, keys |-> keys]
    /\ history' = hist
    /\ UNCHANGED <<texttool, source, string, place, heap>>

Final == [history EXCEPT !.final = TRUE, !.shown = 0]

\* runproc: the command cannot be executed, or it is and cannot be added to the
\* list; in both cases keeplog stops reading.
runproc ==
    /\ tpc = "read" /\ counts.lines < MaxTyped
    /\ LET line == counts.lines + 1 IN
       \/ KeepTo("show", argv, line, counts.keys, Final)
       \/ KeepTo("show", argv, line, counts.keys, [Final EXCEPT !.ran = line])
       \/ KeepTo("read", Append(argv, line), line, counts.keys, [history EXCEPT !.ran = line])

\* The line "history", if keeplog has been called with it, and the end of the input.
AskHistory ==
    /\ tpc = "read" /\ counts.lines < MaxTyped /\ texttool = "keeploghistory"
    /\ KeepTo("show", argv, counts.lines + 1, counts.keys, [history EXCEPT !.shown = 0])

EndOfInput ==
    /\ tpc = "read"
    /\ KeepTo("show", argv, counts.lines, counts.keys, Final)

ShowEnds(keys, hist) == KeepTo(IF history.final THEN "end" ELSE "read", argv, counts.lines, keys, hist)

\* No key when the list is empty, or when there is no memory for the keys.
showhistory ==
    /\ tpc = "show"
    /\ \/ ShowEnds(counts.keys, [history EXCEPT !.broken = @ \/ argv # << >>])
       \/ argv # << >> /\ KeepTo("getdata", argv, counts.lines, counts.keys + 1, history)

\* getdata copies the next item; at the end of the list it frees the key, which
\* it does not do when there is no memory for the copy.
ShowItem ==
    /\ tpc = "getdata"
    /\ \/ ShowEnds(counts.keys, [history EXCEPT !.broken = TRUE])
       \/ IF history.shown = Len(argv) THEN ShowEnds(counts.keys - 1, history)
          ELSE KeepTo("getdata", argv, counts.lines, counts.keys, [history EXCEPT !.shown = @ + 1])

TextNext ==
    \/ makeargv \/ CountToken \/ AllocateArray \/ InsertToken \/ freemakeargv
    \/ wordaverage \/ wordcount \/ onepass \/ bubblesort
    \/ runproc \/ AskHistory \/ EndOfInput \/ showhistory \/ ShowItem

TextSpec == TextInit /\ [][TextNext]_textvars

-----------------------------------------------------------------------------
(* Properties.                                                             *)

\* Where the tokens, words or lines of s start.
Starts(s, delims) == {i \in 1..Len(s) : s[i] \notin delims /\ (i = 1 \/ s[i - 1] \in delims)}
TokenAt(s, i, delims) ==
    SubSeq(s, i, FirstOf(Append(s, NUL), i, delims \cup {NUL}) - 1)

\* Where x is in s, and its pairs out of order.
Occurrences(s, x) == {i \in DOMAIN s : s[i] = x}
Inversions(s) == {p \in (1..Len(s)) \X (1..Len(s)) : p[1] < p[2] /\ s[p[1]] > s[p[2]]}

\* The tokens that makeargv returns are those of the string, in their order, and
\* neither it nor freemakeargv keeps memory that the caller cannot free; the
\* average is over all words and lines, of wordaveragebad over those of the first
\* line, for wordcount moves strtok's place; the array gets sorted in as many
\* interchanges as it has pairs out of order; as long as there is memory keeplog
\* shows every command it has run, and keeps no key of the list.
TextsHandled ==
    /\ Splitter /\ tpc \in {"made", "freed"} =>
           LET skipped == Len(source) + 1 - Len(string) IN
           /\ {argv[k] + skipped : k \in DOMAIN argv} = Starts(source, Delimiters)
           /\ \A k \in DOMAIN argv :
                 /\ \A m \in DOMAIN argv : m < k => argv[m] < argv[k]
                 /\ TokenAt(string, argv[k], {NUL}) = TokenAt(source, argv[k] + skipped, Delimiters)
    /\ tpc \in {"freed", "failed"} => heap = {}
    /\ tpc = "averaged" =>
           LET lines == Starts(source, {"\n"})
               words == Starts(source, {" ", "\n"})
               first == {w \in words : \E l \in lines : w - l \in 0..(Len(TokenAt(source, l, {"\n"})) - 1)
                                                        /\ \A m \in lines : l <= m} IN
           IF texttool = "wordaverage"
           THEN counts = [words |-> Cardinality(words), lines |-> Cardinality(lines)]
           ELSE counts = [words |-> Cardinality(first), lines |-> IF lines = {} THEN 0 ELSE 1]
    /\ tpc = "sorted" =>
           /\ \A i, j \in 1..Len(source) : i < j => string[i] <= string[j]
           /\ \A x \in 1..3 : Cardinality(Occurrences(source, x)) = Cardinality(Occurrences(string, x))
           /\ counts.swaps = Cardinality(Inversions(source))
    /\ Keeper =>
           /\ tpc = "read" => history.ran = IF argv = << >> THEN 0 ELSE Last(argv)
           /\ tpc = "end" /\ ~history.broken =>
                  history.shown = Len(argv) /\ counts.keys = 0

\* The run checks these tools together with the names of HostNames: a caller gets the
\* name it asked for, whoever else asks; the tools of chapter 2 handle their texts,
\* arrays and lists as they should.
NamesAndTexts == NamesMatch /\ TextsHandled

TextDone == tpc \in {"made", "freed", "failed", "averaged", "sorted", "end"}
=============================================================================
