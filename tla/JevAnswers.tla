----------------------------- MODULE JevAnswers -----------------------------
(***************************************************************************)
(* What jev.ts makes of files and answers: an ask_jev call expands its     *)
(* paths, cuts the files into chunks within its budget and reports one     *)
(* line per file, within limits.  Of the hooks, the one before a reviewer  *)
(* starts (F1) shares cached requests, the one that judges an allowed      *)
(* command (F3) may turn it into a question, and both park traces that the *)
(* ones after the tool show on its result.  The verdict on the output of a *)
(* command (F2) keeps nothing and is left out; the requests are AskJev.    *)
(*                                                                         *)
(* A text is the sequence of the lengths of its lines, a probability a     *)
(* number of tenths.                                                       *)
(***************************************************************************)
EXTENDS Integers, FiniteSetsExt, SequencesExt

CONSTANTS
  CHUNK, OVERLAP,    \* ASK_CHUNK_CHARS, ASK_OVERLAP_LINES
  FILE_MAX, BUDGET,  \* ASK_FILE_MAX_CHARS, ASK_BUDGET_CHARS
  MAX_FILES,         \* ASK_MAX_FILES
  MAX_LINES,         \* ASK_MAX_LINES - 6
  NAMES, SKIPS,      \* the names a line lists (10), the skipped it lists (15)
  CACHE_MAX, TRACE_KEEP,
  Absent,
  MaxLaunches        \* bound of the model: tool calls the hooks see

VARIABLES
  scan,      \* the ask_jev call: its step, files, chunks and lists
  output,    \* its report
  launches,  \* the tool calls the hooks saw, in order: what is judged and the request asked
  requests,  \* the hooks' requests: key, outcome, and whether the cache dropped it for room
  cache,     \* the cached requests with their keys, oldest first
  waiting,   \* the parked traces, each by its tool call
  shown      \* the traces shown, with the tool call they were shown on

scanVars == <<scan, output>>
hookVars == <<launches, requests, cache, waiting, shown>>
answerVars == <<scanVars, hookVars>>

\* ASK_UNSURE_BELOW, ASK_NO_COLLAPSE
UNSURE_BELOW == 7
NO_COLLAPSE == 9

Total(seq) == FoldSeq(LAMBDA x, sum : sum + x, 0, seq)
Chars(text) == Total(text) + Len(text) - 1

---------------------------------------------------------------------------
\* chunkFile

\* A line longer than a chunk is cut into pieces that keep its number.
Pieces(text) ==
  FlattenSeq([no \in DOMAIN text |->
    IF text[no] <= CHUNK THEN <<[len |-> text[no], no |-> no]>>
    ELSE [j \in 1 .. (text[no] + CHUNK - 1) \div CHUNK |->
            [len |-> Min({CHUNK, text[no] - (j - 1) * CHUNK}), no |-> no]]])

\* The last piece of the chunk that starts at s: it takes a piece at least.
LastPiece(pieces, s) ==
  Max({e \in s .. Len(pieces) : e = s \/ Total([i \in 1 .. e - s + 1 |-> pieces[s + i - 1].len + 1]) <= CHUNK})

\* Mutant: one line less is shared.
NextStart_bug(s, e) == Max({e - OVERLAP + 2, s + 1})

\* Where the next chunk starts.
NextStart(s, e) == Max({e - OVERLAP + 1, s + 1})

chunkFile(text) ==
  LET pieces == Pieces(text)
      From[s \in DOMAIN pieces] ==
        LET e == LastPiece(pieces, s)
            chunk == [first |-> s, last |-> e, from |-> pieces[s].no, to |-> pieces[e].no,
                      chars |-> Chars([i \in 1 .. e - s + 1 |-> pieces[s + i - 1].len])]
        IN  <<chunk>> \o (IF e = Len(pieces) THEN <<>> ELSE From[NextStart(s, e)])
  IN  From[1]

---------------------------------------------------------------------------
\* expandPaths and the preparation of askFiles

\* A path of the call and what became of it.
Paths ==
  [kind : {"glob", "dir"}, found : {{}, {1, 2, 3}}] \cup [kind : {"file"}, found : {{2}, {3}}]
  \cup [kind : {"absolute glob", "outside", "missing", "error"}, found : {{}}]

Skips(path) == path.kind \in {"absolute glob", "outside", "missing", "error"} \/ path.found = {}

\* The files found by any path, each once and in order, as many as one call takes.
expandPaths(paths) ==
  LET all == UNION {p.found : p \in Range(paths)}
      sorted == SetToSortSeq(all, <)
  IN  [files |-> SubSeq(sorted, 1, Min({MAX_FILES, Len(sorted)})), more |-> Max({0, Len(sorted) - MAX_FILES}),
       skipped |-> SelectSeq(paths, Skips)]

\* `skipped` holds files, and 0 for each path that was skipped as such.
NoScan == [step |-> "new", files |-> <<>>, more |-> 0, nth |-> 1, skipped |-> <<>>, notChecked |-> <<>>, meta |-> <<>>,
           planned |-> 0]

\* routeQuestion: whether a text search would do, asked unless the router is off or
\* the call forces a scan; without an answer (p absent) there is a scan.
Settings == [mode : {"off", "advise", "rg"}, strict : BOOLEAN]
ROUTER_GREP_MIN == 8
routeQuestion(setting, force, p) ==
  IF setting.mode = "off" \/ (force /\ ~setting.strict) \/ p = Absent THEN "scan"
  ELSE IF p < ROUTER_GREP_MIN THEN "scan" ELSE setting.mode

\* adviseGrep ends the call; rg mode needs a pattern.
Start(paths, setting, force, p, pattern) ==
  /\ scan.step = "new"
  /\ LET e == expandPaths(paths)
         way == routeQuestion(setting, force, p)
     IN  scan' = IF way = "advise" \/ (way = "rg" /\ ~pattern) THEN [NoScan EXCEPT !.step = "advised"]
                 ELSE [NoScan EXCEPT !.step = IF way = "rg" THEN "search" ELSE "prepare",
                                     !.files = e.files, !.more = e.more, !.skipped = [i \in DOMAIN e.skipped |-> 0]]
  /\ UNCHANGED <<output, hookVars>>

\* The part of a text that there is room for: up to the last line break in it.
CutToRoom(text, room) ==
  LET whole == {n \in 1 .. Len(text) - 1 : Chars(SubSeq(text, 1, n)) <= room /\ Chars(SubSeq(text, 1, n)) > 0}
  IN  IF whole # {} THEN SubSeq(text, 1, Max(whole)) ELSE IF text[1] = 0 THEN <<0, room - 1>> ELSE <<room>>

NextFile == scan.files[scan.nth]

Room == Min({FILE_MAX, BUDGET - scan.planned})

\* One file is checked, read and cut; `bad` is denied, unreadable or binary.
Prepare(text, bad) ==
  /\ scan.step = "prepare" /\ scan.nth <= Len(scan.files)
  /\ scan' =
       IF bad THEN [scan EXCEPT !.nth = @ + 1, !.skipped = Append(@, NextFile)]
       ELSE IF Room <= 0 \/ (Chars(text) > Room /\ scan.meta # <<>> /\ Room < CHUNK)
       THEN [scan EXCEPT !.nth = @ + 1, !.notChecked = Append(@, NextFile)]
       ELSE LET taken == IF Chars(text) > Room THEN CutToRoom(text, Room) ELSE text
                chunks == chunkFile(taken)
            IN  [scan EXCEPT !.nth = @ + 1,
                             !.meta = Append(@, [file |-> NextFile, partial |-> Chars(text) > Room, n |-> Len(chunks),
                                                 chars |-> [k \in DOMAIN chunks |-> chunks[k].chars]]),
                             !.planned = @ + Total([k \in DOMAIN chunks |-> chunks[k].chars])]
  /\ UNCHANGED <<output, hookVars>>

---------------------------------------------------------------------------
\* combine and formatAnswers

\* yes/no: the most likely yes counts.  Options: the mean weighted by length.
\* A part is [chars, p]; p is the probability of yes, or of the first option.
combine(parts, yesNo) ==
  IF yesNo
  THEN LET best == Max({parts[i].p : i \in DOMAIN parts})
       IN  IF best >= 5 THEN [label |-> "yes", p |-> best] ELSE [label |-> "no", p |-> 10 - best]
  ELSE LET total == Max({1, Total([i \in DOMAIN parts |-> parts[i].chars])})
           mean == Total([i \in DOMAIN parts |-> parts[i].p * parts[i].chars]) \div total
       IN  IF mean >= 5 THEN [label |-> "first", p |-> mean] ELSE [label |-> "second", p |-> 10 - mean]

\* The line of a file: sure or unsure, or folded with the other confident noes.
Line(v) ==
  IF v.p < UNSURE_BELOW THEN "unsure"
  ELSE IF v.label = "no" /\ v.p >= NO_COLLAPSE /\ ~v.partial THEN "folded" ELSE v.label

\* Verdicts for the files with an answered part; `got` has what arrived for each.
Verdicts(got, yesNo) ==
  LET judged == SelectSeq([i \in DOMAIN scan.meta |-> i], LAMBDA i : got[i] # <<>>)
  IN  [k \in DOMAIN judged |->
         LET m == scan.meta[judged[k]]
             c == combine(got[judged[k]], yesNo)
         IN  [file |-> m.file, label |-> c.label, p |-> c.p, partial |-> Len(got[judged[k]]) < m.n \/ m.partial]]

\* A list of which the first `limit` are named and the others counted.
Listed(names, limit) ==
  [names |-> SubSeq(names, 1, Min({limit, Len(names)})), more |-> Max({0, Len(names) - limit})]

\* The files with one kind of line: the surest first, of the noes the least sure.
Sorted(verdicts, kind) ==
  SortSeq(SelectSeq(verdicts, LAMBDA v : Line(v) = kind),
          LAMBDA v, w : IF v.p = w.p THEN v.file < w.file ELSE (v.p < w.p) = (kind = "no"))

FilesOf(verdicts) == [i \in DOMAIN verdicts |-> verdicts[i].file]

\* A line of the report: what it says, of which files, and whether one of them is partial.
Body(verdicts, yesNo) ==
  LET own(v) == [says |-> Line(v), of |-> Listed(<<v.file>>, 1), partial |-> v.partial]
      folded == SelectSeq(verdicts, LAMBDA v : Line(v) = "folded")
      kinds == IF yesNo THEN <<"yes", "unsure", "no">> ELSE <<"first", "second", "unsure">>
      lines == FlattenSeq([k \in DOMAIN kinds |-> Sorted(verdicts, kinds[k])])
  IN  [i \in DOMAIN lines |-> own(lines[i])] \o
      (IF folded = <<>> THEN <<>>
       ELSE <<[says |-> "folded", of |-> Listed(FilesOf(folded), NAMES),
               partial |-> \E i \in DOMAIN folded : folded[i].partial]>>)

\* The report: as many lines as it may have and what was left out, each list cut with a count.
formatAnswers(verdicts, yesNo, stopped) ==
  LET body == Body(verdicts, yesNo)
      judged == Range(FilesOf(verdicts))
      unanswered == SelectSeq([i \in DOMAIN scan.meta |-> scan.meta[i].file], LAMBDA f : f \notin judged)
  IN  [head |-> Len(verdicts), lines |-> SubSeq(body, 1, Min({MAX_LINES, Len(body)})), cut |-> Max({0, Len(body) - MAX_LINES}),
       notChecked |-> Listed(scan.notChecked \o unanswered, NAMES), more |-> scan.more,
       skipped |-> Listed(scan.skipped, SKIPS), stopped |-> stopped]

\* The answers are in: all of them, or those until the servers failed.
Report(got, yesNo) ==
  /\ scan.step = "prepare" /\ scan.nth > Len(scan.files)
  /\ LET verdicts == Verdicts(got, yesNo)
         stopped == \E i \in DOMAIN scan.meta : Len(got[i]) < scan.meta[i].n
     IN  IF verdicts = <<>> /\ stopped
         THEN scan' = [scan EXCEPT !.step = "failed"] /\ UNCHANGED output
         ELSE /\ scan' = [scan EXCEPT !.step = "reported"]
              /\ output' = IF scan.files # <<>> THEN formatAnswers(verdicts, yesNo, stopped)
                           ELSE [formatAnswers(<<>>, yesNo, FALSE) EXCEPT !.skipped = Listed(scan.skipped, Len(scan.skipped))]
  /\ UNCHANGED hookVars

\* rg mode of the router: the allowed files are searched instead.  Its hits come
\* first in any order, as their matches are counted; what is skipped after the
\* first SKIPS is not counted.
Search(denied, hits) ==
  /\ scan.step = "search"
  /\ LET allowed == SelectSeq(scan.files, LAMBDA f : f \notin denied)
         misses == SelectSeq(allowed, LAMBDA f : f \notin Range(hits))
         skipped == scan.skipped \o SelectSeq(scan.files, LAMBDA f : f \in denied)
     IN  /\ denied \subseteq Range(scan.files) /\ Range(hits) \subseteq Range(allowed)
         /\ scan' = [scan EXCEPT !.step = "searched", !.skipped = skipped]
         /\ output' = [head |-> Len(allowed), hits |-> SubSeq(hits, 1, Min({MAX_LINES, Len(hits)})),
                       cut |-> Max({0, Len(hits) - MAX_LINES}), misses |-> Listed(misses, NAMES), more |-> scan.more,
                       skipped |-> SubSeq(skipped, 1, Min({SKIPS, Len(skipped)}))]
  /\ UNCHANGED hookVars

---------------------------------------------------------------------------
\* The hooks.  A tool call is "asking" until its request is settled, then "running",
\* then "over"; a request of 0 means that nothing of it is judged.

Launch(tool, input, request) ==
  /\ Len(launches) < MaxLaunches
  /\ launches' = Append(launches, [tool |-> tool, input |-> input, request |-> request, changed |-> FALSE,
                                   step |-> IF request = 0 THEN "running" ELSE "asking"])

Pending(key) == [key |-> key, outcome |-> "pending", dropped |-> FALSE]

\* A follow-up, another agent, or a command that is not allowed anyway.
PassBy(tool, input) == Launch(tool, input, 0) /\ UNCHANGED <<scanVars, requests, cache, waiting, shown>>

Without(entries, key) == SelectSeq(entries, LAMBDA e : e.key # key)

\* cached(): a prompt with an entry, settled or not, joins its request; another is
\* asked and cached, and the oldest entries make room.
Join(prompt) ==
  /\ \E e \in Range(cache) : e.key = prompt /\ Launch("subagent", prompt, e.request)
  /\ UNCHANGED <<scanVars, requests, cache, waiting, shown>>

Review(prompt) ==
  /\ \A e \in Range(cache) : e.key # prompt
  /\ Launch("subagent", prompt, Len(requests) + 1)
  /\ LET all == Append(Without(cache, prompt), [key |-> prompt, request |-> Len(requests) + 1])
         kept == SubSeq(all, Max({1, Len(all) - CACHE_MAX + 1}), Len(all))
     IN  /\ cache' = kept
         /\ requests' = [i \in 1 .. Len(requests) + 1 |->
                           LET r == Append(requests, Pending(prompt))[i]
                           IN  [r EXCEPT !.dropped = @ \/ \E e \in Range(all) \ Range(kept) : e.request = i]]
  /\ UNCHANGED <<scanVars, waiting, shown>>

\* The permission of a command: what is not just an rm within the project is judged,
\* and never from the cache.
Judged(commands) == commands \ {"rm in project"}

Evaluate(commands) ==
  /\ Judged(commands) # {}
  /\ Launch("shell", commands, Len(requests) + 1)
  /\ requests' = Append(requests, Pending(Absent))
  /\ UNCHANGED <<scanVars, cache, waiting, shown>>

\* A failed result is dropped by its key, so that the next call asks again.
Settle(i, ok) ==
  /\ requests[i].outcome = "pending"
  /\ requests' = [requests EXCEPT ![i].outcome = IF ok THEN "answered" ELSE "failed"]
  /\ cache' = IF ok THEN cache ELSE Without(cache, requests[i].key)
  /\ UNCHANGED <<scanVars, launches, waiting, shown>>

\* park(): a trace waits for the result of its tool call, a few at a time.
park(entry) == LET all == Append(waiting, entry) IN SubSeq(all, Max({1, Len(all) - TRACE_KEEP + 1}), Len(all))

\* The request of a call is settled, for it and for all that joined it: each parks its
\* trace, a prompt is extended by an answer, a command that is flagged becomes a question.
Judge(d, traced, flagged) ==
  /\ launches[d].step = "asking" /\ requests[launches[d].request].outcome # "pending"
  /\ launches' = [launches EXCEPT ![d].step = "running",
                     ![d].changed = requests[launches[d].request].outcome = "answered" /\ (launches[d].tool = "subagent" \/ flagged)]
  /\ waiting' = IF traced THEN park(d) ELSE waiting
  /\ UNCHANGED <<scanVars, requests, cache, shown>>

\* Whether the trace of call w is for the result of call d: a command has no id to go
\* by, and its trace takes the result of any command that holds what it judged.
matches(w, d) ==
  IF launches[w].tool = "subagent" THEN w = d
  ELSE launches[d].tool = "shell" /\ Judged(launches[w].input) \subseteq launches[d].input

\* collect(): of the traces, the `old` first are dropped, and those that match are shown.
collect(d, old) ==
  LET young == SubSeq(waiting, old + 1, Len(waiting))
      mine == SelectSeq(young, LAMBDA w : matches(w, d))
  IN  /\ shown' = shown \o [i \in DOMAIN mine |-> [trace |-> mine[i], on |-> d]]
      /\ waiting' = SelectSeq(young, LAMBDA w : ~matches(w, d))

\* The tool is done.  Without a result (refused, failed, still running in the
\* background) nothing is collected.
After(d, result, old) ==
  /\ launches[d].step = "running"
  /\ launches' = [launches EXCEPT ![d].step = "over"]
  /\ IF result THEN collect(d, old) ELSE UNCHANGED <<waiting, shown>>
  /\ UNCHANGED <<scanVars, requests, cache>>

---------------------------------------------------------------------------
Init ==
  /\ scan = NoScan /\ output = Absent
  /\ launches = <<>> /\ requests = <<>> /\ cache = <<>> /\ waiting = <<>> /\ shown = <<>>

\* The texts of the files, and how sure the answers for a chunk are.
Texts == {<<1>>, <<3, 2>>, <<0, 4, 1>>, <<2, 2, 2>>}
Sure == {0, 2, 6, 10}

\* The answers that arrived for some of the chunks of a file, in their order: one has
\* any probability, the others say no.
Arrived(m) ==
  LET answered(S) == SetToSortSeq(S, <)
  IN  {[k \in 1 .. Cardinality(S) |-> [chars |-> m.chars[answered(S)[k]], p |-> IF k = 1 THEN p ELSE 0]] :
         S \in SUBSET (1 .. m.n), p \in Sure}

Prompts == {"a", "b"}
Commands == {{"rm in project"}, {"deploy", "rm in project"}, {"deploy", "test"}}

\* A scan and the hooks share none of this state: a behaviour does one or the other.
Next ==
  \/ launches = <<>> /\ \E first \in Paths, second \in Paths, setting \in Settings, force \in BOOLEAN, p \in {2, 9, Absent}, pattern \in BOOLEAN :
       Start(<<first, second>>, setting, force, p, pattern)
  \/ \E text \in Texts, bad \in BOOLEAN : Prepare(text, bad)
  \/ \E yesNo \in BOOLEAN, first \in IF scan.meta = <<>> THEN {<<>>} ELSE Arrived(scan.meta[1]),
        second \in IF Len(scan.meta) < 2 THEN {<<>>} ELSE Arrived(scan.meta[2]) :
       Report(<<first, second>>, yesNo)
  \/ \E denied \in SUBSET Range(scan.files), hits \in {<<>>, <<1>>, <<2>>, <<3>>, <<1, 2>>, <<2, 1>>, <<2, 3>>, <<3, 2>>} :
       Search(denied, hits)
  \/ scan.step = "new" /\ \E prompt \in Prompts : PassBy("subagent", prompt) \/ Join(prompt) \/ Review(prompt)
  \/ scan.step = "new" /\ \E commands \in Commands : PassBy("shell", commands) \/ Evaluate(commands)
  \/ \E i \in DOMAIN requests, ok \in BOOLEAN : Settle(i, ok)
  \/ \E d \in DOMAIN launches :
       \/ \E traced, flagged \in BOOLEAN : Judge(d, traced, flagged)
       \/ \E result \in BOOLEAN, old \in 0 .. Len(waiting) : After(d, result, old)

Spec == Init /\ [][Next]_answerVars

---------------------------------------------------------------------------
\* Every text of up to three lines.
AllTexts == UNION {[1 .. n -> 0 .. 4] : n \in 1 .. 3}

\* "Split at line breaks into ~size-char chunks" that "overlap so a match on a
\* boundary is seen whole" (jev.ts): the chunks reach from the first to the last
\* piece of a file without a gap, each starts after the one before and is no longer
\* than a chunk.
ChunksCoverFile ==
  scan.step = "new" /\ launches = <<>> =>
    \A text \in AllTexts :
      LET cs == chunkFile(text)
      IN  /\ cs[1].first = 1 /\ cs[Len(cs)].last = Len(Pieces(text))
          /\ \A k \in DOMAIN cs : cs[k].chars <= CHUNK /\ cs[k].from <= cs[k].to
          /\ \A k \in 1 .. Len(cs) - 1 : cs[k].first < cs[k + 1].first /\ cs[k + 1].first <= cs[k].last + 1
          /\ \A k \in 1 .. Len(cs) - 1 : cs[k].last - cs[k].first >= OVERLAP => cs[k + 1].first <= cs[k].last

\* The files a sequence of lists names; 0 stands for a path that was skipped.
Named(lists) == SelectSeq(FlattenSeq(lists), LAMBDA f : f # 0)

\* formatAnswers: "you get one line per file" (jev.ts).  Whatever is denied, too
\* long, over the budget or unanswered, no file is named twice in a report, and with
\* those a list only counts the numbers add up to the files the call took; a file not
\* judged as a whole is never among the confident noes, and its line says so.  A search
\* accounts for the files it searched; those skipped past its limit go uncounted.
EveryFileAccounted ==
  /\ scan.step = "searched" =>
       LET named == Named(<<output.hits, output.misses.names, output.skipped>>)
           skipped == Cardinality(Range(scan.skipped) \ {0})
       IN  /\ IsInjective(named) /\ Range(named) \subseteq Range(scan.files)
           /\ Len(output.hits) + output.cut + Len(output.misses.names) + output.misses.more = output.head
           /\ output.head + skipped = Len(scan.files)
  /\ scan.step = "reported" =>
       LET lines == output.lines
           named == Named([i \in DOMAIN lines |-> lines[i].of.names] \o <<output.notChecked.names, output.skipped.names>>)
           paths == Len(SelectSeq(scan.skipped, LAMBDA f : f = 0))
           counted(list) == Len(list.names) + list.more
       IN  /\ IsInjective(named) /\ Range(named) \subseteq Range(scan.files)
           /\ output.head + counted(output.notChecked) + counted(output.skipped) = Len(scan.files) + paths
           /\ LET listed == Total([i \in DOMAIN lines |-> counted(lines[i].of)])
              IN  IF output.cut = 0 THEN listed = output.head
                  ELSE Len(lines) = MAX_LINES /\ listed + output.cut <= output.head
           /\ \A i \in DOMAIN lines : lines[i].says = "folded" => ~lines[i].partial
           /\ \A m \in Range(scan.meta), i \in DOMAIN lines :
                m.partial /\ lines[i].of.names = <<m.file>> => lines[i].partial

\* jev.ts: the launches with one prompt "share a single request" and "failed results
\* are dropped so the next call can retry": however requests overlap and entries make
\* room, no failed result stays cached, and a prompt is asked again only after a failure
\* or when the cache has dropped it for room.
CacheRemembers ==
  /\ \A e \in Range(cache) : requests[e.request].outcome # "failed"
  /\ \A i, j \in DOMAIN cache : cache[i].key = cache[j].key => i = j
  /\ \A i, j \in DOMAIN requests :
       i < j /\ requests[i].key = requests[j].key /\ requests[j].key # Absent /\ requests[i].outcome # "failed" =>
         \E k \in 1 .. i : requests[k].key = requests[i].key /\ requests[k].dropped

\* jev.ts: "Traces made before a tool runs wait here until its execute.after event
\* arrives".  Though calls share a request, each parks a trace of its own: that is shown
\* at most once, only when its request is settled, a reviewer's on its own result and a
\* command's on a command that holds all it judged.
TracesFindTheirCall ==
  /\ IsInjective(waiting) /\ IsInjective([i \in DOMAIN shown |-> shown[i].trace])
  /\ \A w \in Range(waiting) : launches[w].step # "asking" /\ \A s \in Range(shown) : s.trace # w
  /\ \A s \in Range(shown) :
       LET from == launches[s.trace]
           on == launches[s.on]
       IN  /\ from.tool = on.tool /\ on.step = "over" /\ requests[from.request].outcome # "pending"
           /\ IF from.tool = "subagent" THEN s.trace = s.on ELSE Judged(from.input) \subseteq on.input

HooksRemember == CacheRemembers /\ TracesFindTheirCall
===========================================================================
