---------------------------- MODULE ModelHolder ----------------------------
(***************************************************************************)
(* model-holder: maps model files, warms their pages, locks them in RAM    *)
(* and holds them until the user quits (`tui`), or once (`oneshot`), and   *)
(* compares what the holder and llama-server have mapped (`check`).        *)
(*                                                                         *)
(* The worker is the main thread; the lock threads of a chunk run at the   *)
(* same time; the UI thread draws, reads keys and sets should_exit, which  *)
(* the worker looks at between steps.  Speeds, layout and page contents    *)
(* are left out.                                                           *)
(***************************************************************************)
EXTENDS Integers, FiniteSetsExt, SequencesExt

CONSTANTS
  Size,         \* file -> its size; a file is a number, in the order of the canonical paths
  Name,         \* file -> its name, a sequence of letters
  PageSizes,    \* the values of --page-size
  None,
  LockThreads,  \* the values of --lock-threads
  MaxKeys,      \* bound of the model: key presses
  MaxFilter     \* bound of the model: letters typed as a filter

VARIABLES
  mode,          \* the subcommand and its options
  faults,        \* what the system refuses: nothing, to open or map a file, or to lock it
  paths,         \* the canonical paths of the arguments, in order
  worker,        \* where the main thread is
  next,          \* the file or the chunk it is at
  mapped,        \* mapped_files
  threads,       \* the files whose lock thread has not finished
  pinned,        \* the files the kernel keeps in RAM for this process
  locked,        \* the files mlock succeeded for, which locked_bytes adds up
  failed,        \* failed_files
  should_exit,
  ui,            \* the UI thread: "none", "running", "gone" or "panicked"
  app,           \* AppState
  procs,         \* `check`: what the two processes have mapped, and may be read
  keys,          \* the number of key presses
  printed        \* the last line on the terminal

holderVars == <<mode, faults, paths, worker, next, mapped, threads, pinned, locked, failed,
                should_exit, ui, app, procs, keys, printed>>

Set(seq) == Range(seq)

\* How many bytes the files have, a byte being a file and an offset into it.
Bytes(files) == Cardinality(UNION {{p} \X (1 .. Size[p]) : p \in files})

Tui == mode.command = "tui"

Files == DOMAIN Size

\* AppState::new and add_file.
NewApp(files) ==
  [stage |-> [p \in files |-> "found"], warmup_complete |-> FALSE, all_locked |-> FALSE,
   failed_lock_files |-> {}, sort_by |-> "default", scroll_offset |-> 0, filter_input |-> <<>>,
   filter_mode |-> FALSE, show_help |-> FALSE]

\* The processes `check` may meet: the regions of each, read from /proc/pid/maps,
\* and whether its maps can be opened.
Regions == [inode : {1}, ext : {"gguf"}, size : {10, 20}] \cup [inode : {2}, ext : {"gguf", "log"}, size : {10}]
Processes ==
  [regions : UNION {[1 .. n -> Regions] : n \in 0 .. 2}, access : {"ok", "denied", "gone"}]
NoProcess == [regions |-> <<>>, access |-> "gone"]
Unread == [holder |-> NoProcess, server |-> NoProcess, read |-> {}]

Init ==
  /\ \/ /\ mode \in [command : {"tui", "oneshot"}, no_warmup : BOOLEAN, no_mlock : BOOLEAN, lock_threads : LockThreads]
        /\ faults \in [Files -> {"none", "open", "lock"}]
        /\ worker = "expand" /\ procs = Unread
     \/ /\ mode \in [command : {"check"}, root : BOOLEAN]
        /\ faults = [p \in Files |-> "none"]
        /\ worker = "find"
        /\ \E h \in Processes, l \in Processes : procs = [holder |-> h, server |-> l, read |-> {}]
  /\ next = 1 /\ mapped = <<>> /\ threads = {} /\ pinned = {}
  /\ locked = {} /\ failed = {} /\ should_exit = FALSE
  /\ paths = <<>> /\ ui = "none"
  /\ app = NewApp({}) /\ keys = 0 /\ printed = None

---------------------------------------------------------------------------
\* The main thread.

aborted == should_exit

\* A panic while the UI draws poisons the state: `if let Ok` then skips.
Stage(p, stage) == IF ui = "panicked" THEN app ELSE [app EXCEPT !.stage[p] = stage]

GoTo(step) == worker' = step /\ next' = 1

\* A pattern of the command line: what it matches, the file whose path it is itself,
\* if any, and whether a component of it is the parent directory.
Patterns == [matches : SUBSET Files, direct : Files \cup {None}, parent : BOOLEAN]

validate_page_size(size) == size > 0 /\ \E k \in 0 .. size : size = 2 ^ k

\* expand_globs and sanitize_path: the first pattern that fails is the error.
Expands(patterns) ==
  \A i \in DOMAIN patterns : ~patterns[i].parent /\ (patterns[i].matches # {} \/ patterns[i].direct # None)
expand_globs(patterns) ==
  LET found == UNION {IF patterns[i].matches # {} THEN patterns[i].matches ELSE {patterns[i].direct} : i \in DOMAIN patterns}
  IN  CHOOSE s \in [1 .. Cardinality(found) -> found] : \A i, j \in DOMAIN s : i < j => s[i] < s[j]

\* The arguments are checked before the UI thread starts.
Expand(page_size, patterns) ==
  /\ worker = "expand"
  /\ IF validate_page_size(page_size) /\ Expands(patterns)
     THEN /\ GoTo("map") /\ paths' = expand_globs(patterns) /\ app' = NewApp(Set(paths'))
          /\ UNCHANGED printed
          /\ ui' = IF Tui THEN "running" ELSE "none"
     ELSE GoTo("done") /\ printed' = [line |-> "error"] /\ UNCHANGED <<paths, app, ui>>
  /\ UNCHANGED <<mode, procs, faults, mapped, threads, pinned, locked, failed, should_exit, keys>>

\* One file: opened, measured and mapped.  The TUI goes on after a failure;
\* oneshot returns the error, and its mappings are dropped.
MapNext ==
  /\ worker = "map"
  /\ IF next > Len(paths) \/ aborted
     THEN GoTo("warm") /\ UNCHANGED <<mapped, app, printed>>
     ELSE LET p == paths[next]
          IN  IF faults[p] = "open"
              THEN IF Tui THEN next' = next + 1 /\ UNCHANGED <<worker, mapped, app, printed>>
                   ELSE /\ GoTo("done") /\ mapped' = <<>> /\ printed' = [line |-> "error"]
                        /\ UNCHANGED app
              ELSE /\ mapped' = Append(mapped, p) /\ app' = [app EXCEPT !.stage[p] = "mapped"]
                   /\ next' = next + 1 /\ UNCHANGED <<worker, printed>>
  /\ UNCHANGED <<mode, procs, faults, paths, threads, pinned, locked, failed, should_exit, ui, keys>>

\* warmup_file_with_tui: the exit flag is looked at with each report of
\* progress, the first of them at the first page.
WarmNext ==
  /\ worker = "warm"
  /\ \/ /\ mode.no_warmup
        /\ GoTo("lock") /\ UNCHANGED app
     \/ /\ ~mode.no_warmup /\ (next > Len(mapped) \/ aborted)
        /\ GoTo("lock")
        /\ app' = [app EXCEPT !.warmup_complete = @ \/ ~aborted]
     \/ /\ ~mode.no_warmup /\ next <= Len(mapped) /\ ~aborted
        /\ \/ /\ app.stage[mapped[next]] = "mapped"
              /\ app' = Stage(mapped[next], "warming") /\ UNCHANGED next
           \/ app' = Stage(mapped[next], "complete") /\ next' = next + 1
        /\ UNCHANGED worker
  /\ UNCHANGED <<mode, procs, faults, paths, mapped, threads, pinned, locked, failed, should_exit, ui, keys, printed>>

Concurrency == Max({mode.lock_threads, 1})
Chunk == {mapped[i] : i \in next .. Min({next + Concurrency - 1, Len(mapped)})}

\* A chunk of files is marked and its threads are started.
LockChunk ==
  /\ worker = "lock"
  /\ IF mode.no_mlock THEN GoTo("join") /\ UNCHANGED <<threads, app>>
     ELSE IF next > Len(mapped) \/ aborted THEN GoTo("locked") /\ UNCHANGED <<threads, app>>
     ELSE /\ threads' = Chunk /\ worker' = "locking" /\ UNCHANGED next
          /\ app' = IF ui = "panicked" THEN app
                    ELSE [app EXCEPT !.stage = [p \in DOMAIN @ |-> IF p \in Chunk THEN "locking" ELSE @[p]]]
  /\ UNCHANGED <<mode, procs, faults, paths, mapped, pinned, locked, failed, should_exit, ui, keys, printed>>

\* A lock thread: mlock, and what it publishes.
Lock(p) ==
  /\ p \in threads
  /\ threads' = threads \ {p}
  /\ IF faults[p] = "lock"
     THEN failed' = failed \cup {p} /\ UNCHANGED <<pinned, locked, app>>
     ELSE /\ pinned' = pinned \cup {p} /\ locked' = locked \cup {p}
          /\ app' = Stage(p, "locked") /\ UNCHANGED failed
  /\ UNCHANGED <<mode, procs, faults, paths, worker, next, mapped, should_exit, ui, keys, printed>>

\* thread::scope returns when the chunk's threads have finished.
ChunkDone ==
  /\ worker = "locking" /\ threads = {}
  /\ worker' = "lock" /\ next' = next + Concurrency
  /\ UNCHANGED <<mode, procs, faults, paths, mapped, threads, pinned, locked, failed, should_exit, ui, app, keys, printed>>

\* Mutant: the flag is not looked at again after the chunks.
LockEnd_bug ==
  /\ worker = "locked"
  /\ GoTo("join")
  /\ app' = IF ~Tui THEN app ELSE IF failed = {} THEN [app EXCEPT !.all_locked = TRUE]
            ELSE [app EXCEPT !.failed_lock_files = failed]
  /\ printed' = IF Tui THEN printed ELSE [line |-> "locked", locked |-> Bytes(locked), failed |-> failed]
  /\ UNCHANGED <<mode, procs, faults, paths, mapped, threads, pinned, locked, failed, should_exit, ui, keys>>

\* What is known after the chunks: nothing, if the user quit meanwhile.
LockEnd ==
  /\ worker = "locked"
  /\ GoTo("join")
  /\ app' = IF ~Tui \/ aborted THEN app ELSE IF failed = {} THEN [app EXCEPT !.all_locked = TRUE]
            ELSE [app EXCEPT !.failed_lock_files = failed]
  /\ printed' = IF Tui THEN printed ELSE [line |-> "locked", locked |-> Bytes(locked), failed |-> failed]
  /\ UNCHANGED <<mode, procs, faults, paths, mapped, threads, pinned, locked, failed, should_exit, ui, keys>>

\* The UI thread is joined, the mappings dropped, and then the summary printed.
Release ==
  /\ worker = "join" /\ ui # "running"
  /\ worker' = "done" /\ mapped' = <<>> /\ pinned' = {}
  /\ printed' =
       CASE Tui /\ mapped = <<>> -> [line |-> "nothing mapped"]
         [] Tui /\ mapped # <<>> ->
              LET l == Bytes(locked)
              IN  [line |-> "released", count |-> Len(mapped), bytes |-> Bytes(Set(mapped)),
                   locked |-> CASE l = 0 -> "nothing" [] l > 0 /\ l = Bytes(Set(mapped)) -> "all" [] OTHER -> "some"]
         [] ~Tui -> [line |-> "released", count |-> Len(mapped), bytes |-> Bytes(Set(mapped)),
                     state |-> IF mode.no_warmup THEN "untouched" ELSE IF mode.no_mlock THEN "warm" ELSE "warm, unpinned"]
  /\ UNCHANGED <<mode, procs, faults, paths, next, threads, locked, failed, should_exit, ui, app, keys>>

---------------------------------------------------------------------------
\* The UI thread.

Occurs(name, text) ==
  \E i \in 1 .. Len(name) + 1 : i + Len(text) - 1 <= Len(name) /\ SubSeq(name, i, i + Len(text) - 1) = text

\* filtered_files and visible_file_count.
Filtered(a) == {p \in DOMAIN a.stage : Occurs(Name[p], a.filter_input)}
MaxOffset(a) == Max({Cardinality(Filtered(a)) - 1, 0})

scroll_down(a) == [a EXCEPT !.scroll_offset = IF @ < MaxOffset(a) THEN @ + 1 ELSE @]
scroll_up(a) == [a EXCEPT !.scroll_offset = IF @ > 0 THEN @ - 1 ELSE @]
scroll_page_down(a) == [a EXCEPT !.scroll_offset = Min({@ + 10, MaxOffset(a)})]
scroll_page_up(a) == [a EXCEPT !.scroll_offset = Max({@ - 10, 0})]

Letters == {"a", "q", "space", "s", "p", "d", "/", "x", "h"}
Keys == Letters \cup {"ctrl-c", "enter", "esc", "backspace", "down", "up", "page-up"}

\* Keys while a filter is typed.  Ctrl-C leaves the prompt, not the program.
FilterKey(a, key) ==
  CASE key = "ctrl-c" -> [a EXCEPT !.filter_mode = FALSE, !.filter_input = <<>>, !.scroll_offset = 0]
    [] key = "enter" -> [a EXCEPT !.filter_mode = FALSE, !.scroll_offset = 0]
    [] key = "esc" -> [a EXCEPT !.filter_mode = FALSE]
    [] key = "backspace" -> [a EXCEPT !.filter_input = IF @ = <<>> THEN @ ELSE Front(@), !.scroll_offset = 0]
    [] key \in Letters -> [a EXCEPT !.filter_input = Append(@, key), !.scroll_offset = 0]
    [] OTHER -> a

\* Keys while the list is shown, the quitting ones apart.
ListKey(a, key) ==
  CASE key = "down" -> scroll_down(a)
    [] key = "up" -> scroll_up(a)
    [] key = "space" -> scroll_page_down(a)
    [] key = "page-up" -> scroll_page_up(a)
    [] key = "s" -> [a EXCEPT !.sort_by = "size"]
    [] key = "p" -> [a EXCEPT !.sort_by = "speed"]
    [] key = "d" -> [a EXCEPT !.sort_by = "default"]
    [] key = "/" -> [a EXCEPT !.filter_mode = TRUE]
    [] key = "x" -> [a EXCEPT !.filter_input = <<>>, !.scroll_offset = 0]
    [] key = "h" -> [a EXCEPT !.show_help = TRUE]
    [] OTHER -> a

\* handle_key.
Key(key) ==
  /\ ui = "running" /\ ~should_exit /\ keys < MaxKeys
  /\ key \in Letters /\ app.filter_mode => Len(app.filter_input) < MaxFilter
  /\ keys' = keys + 1
  /\ IF app.filter_mode THEN app' = FilterKey(app, key) /\ UNCHANGED should_exit
     ELSE IF app.show_help
          THEN app' = [app EXCEPT !.show_help = key \notin {"h", "esc", "q", "ctrl-c"}] /\ UNCHANGED should_exit
     ELSE IF key \in {"q", "esc", "ctrl-c"} THEN should_exit' = TRUE /\ UNCHANGED app
     ELSE app' = ListKey(app, key) /\ UNCHANGED should_exit
  /\ UNCHANGED <<mode, procs, faults, paths, worker, next, mapped, threads, pinned, locked, failed, ui, printed>>

\* The loop ends and restores the terminal.
UiLeaves ==
  /\ ui = "running" /\ should_exit
  /\ ui' = "gone"
  /\ UNCHANGED <<mode, procs, faults, paths, worker, next, mapped, threads, pinned, locked, failed, should_exit, app, keys, printed>>

\* A panic while drawing: the hook sets the flag before it restores the terminal.
UiPanics ==
  /\ ui = "running" /\ ~should_exit
  /\ ui' = "panicked" /\ should_exit' = TRUE
  /\ UNCHANGED <<mode, procs, faults, paths, worker, next, mapped, threads, pinned, locked, failed, app, keys, printed>>

---------------------------------------------------------------------------
\* The check command.

IsModelFile(region) == region.ext = "gguf"

\* aggregate_maps: the regions of one inode are one file, under its first path.
aggregate_maps(regions) ==
  [inode \in {r.inode : r \in Set(regions)} |->
     LET own == {i \in DOMAIN regions : regions[i].inode = inode}
     IN  [regions[Min(own)] EXCEPT !.size = FoldSet(LAMBDA i, sum : sum + regions[i].size, 0, own)]]

\* The model files of one kind of process; one that cannot be read has none.
Models(process) ==
  LET files == aggregate_maps(process.regions)
  IN  IF process.access # "ok" THEN [inode \in {} |-> 0]
      ELSE [inode \in {i \in DOMAIN files : IsModelFile(files[i])} |-> files[inode].size]

\* find_processes_by_name and check_process_permissions: a process that is gone
\* is not an obstacle, one whose maps are refused is, unless for root.
Find ==
  /\ worker = "find"
  /\ IF \A k \in {"holder", "server"} : procs[k].access = "gone"
     THEN worker' = "done" /\ printed' = [line |-> "none found"]
     ELSE IF ~mode.root /\ \E k \in {"holder", "server"} : procs[k].access = "denied"
     THEN worker' = "done" /\ printed' = [line |-> "error"]
     ELSE worker' = "read" /\ UNCHANGED printed
  /\ UNCHANGED <<mode, procs, faults, paths, next, mapped, threads, pinned, locked, failed, should_exit, ui, app, keys>>

\* display_process_info, the holder first.
ReadMaps(kind) ==
  /\ worker = "read" /\ kind \notin procs.read /\ (kind = "server" => "holder" \in procs.read)
  /\ procs' = [procs EXCEPT !.read = @ \cup {kind}]
  /\ printed' = IF kind = "holder" THEN [line |-> "reading", holder |-> Models(procs.holder)]
                ELSE [line |-> "maps", holder |-> printed.holder, server |-> Models(procs.server)]
  /\ UNCHANGED <<mode, faults, paths, worker, next, mapped, threads, pinned, locked, failed, should_exit, ui, app, keys>>

\* A process exits while check looks at it.
Exits(kind) ==
  /\ worker = "read" /\ procs[kind].access = "ok"
  /\ procs' = [procs EXCEPT ![kind].access = "gone"]
  /\ UNCHANGED <<mode, faults, paths, worker, next, mapped, threads, pinned, locked, failed, should_exit, ui, app, keys, printed>>

\* display_model_comparison: by inode, and by size where both have the file.
Compare ==
  LET held == printed.holder
      served == printed.server
      shared == DOMAIN held \cap DOMAIN served
      mismatched == {i \in shared : held[i] > 0 /\ (10 * served[i] < 9 * held[i] \/ 10 * served[i] > 11 * held[i])}
  IN  /\ worker = "read" /\ procs.read = {"holder", "server"}
      /\ worker' = "done"
      /\ printed' =
           IF DOMAIN held \cup DOMAIN served = {} THEN [line |-> "nothing"]
           ELSE [line |-> "compared", shared |-> shared, mismatched |-> mismatched,
                 unused |-> DOMAIN held \ DOMAIN served, uncached |-> DOMAIN served \ DOMAIN held,
                 verdict |-> CASE DOMAIN held # DOMAIN served -> None
                               [] DOMAIN held = DOMAIN served /\ mismatched = {} -> "properly shared"
                               [] OTHER -> "shared, partial"]
      /\ UNCHANGED <<mode, procs, faults, paths, next, mapped, threads, pinned, locked, failed, should_exit, ui, app, keys>>

---------------------------------------------------------------------------
\* What the main thread, the lock threads and the UI thread do by themselves.
Threads ==
  \/ MapNext \/ WarmNext \/ LockChunk \/ ChunkDone \/ LockEnd \/ Release
  \/ (\E p \in Files : Lock(p)) \/ UiLeaves

\* One pattern, or two that may overlap.
CommandLines == {<<p>> : p \in Patterns} \cup {<<[matches |-> Files, direct |-> None, parent |-> FALSE], p>> : p \in Patterns}

Next ==
  \/ \E size \in PageSizes, patterns \in CommandLines : Expand(size, patterns)
  \/ MapNext \/ WarmNext \/ LockChunk \/ ChunkDone \/ LockEnd \/ Release
  \/ \E p \in Files : Lock(p)
  \/ \E key \in Keys : Key(key)
  \/ UiLeaves \/ UiPanics
  \/ Find \/ Compare \/ (\E kind \in {"holder", "server"} : ReadMaps(kind) \/ Exits(kind))

Spec == Init /\ [][Next]_holderVars

---------------------------------------------------------------------------
\* render_title.
Title ==
  IF app.all_locked THEN "locked"
  ELSE IF app.warmup_complete /\ app.failed_lock_files # {} THEN "partial"
  ELSE IF app.warmup_complete THEN "complete" ELSE "warming"

\* render_summary: the files counted as complete and as locked.
Counted(stages) == Cardinality({p \in DOMAIN app.stage : app.stage[p] \in stages})

\* "the most prominent cell must not claim success while the bar shouts the
\* opposite" (terminal.rs) and "Drop before printing so the sentence is a fact by
\* the time it is read" (main.rs): while the files are held the title says locked
\* only if every mapped file is pinned, and complete only if every one is warm;
\* the lines printed at the end say how much had been locked and are printed when
\* nothing is pinned any more.  However the keys are pressed, the list is not
\* scrolled past the last file that the filter leaves.  `check` says that all files
\* are shared only if no model file is mapped on one side alone, even if a process
\* exits while its maps are read.
HolderTellsTheTruth ==
  /\ app.scroll_offset <= MaxOffset(app)
  /\ Tui /\ worker # "done" =>
       /\ Title = "locked" => pinned = Set(mapped)
       /\ Title \in {"complete", "partial"} => \A p \in Set(mapped) : app.stage[p] \in {"complete", "locking", "locked"}
       /\ Title = "partial" => app.failed_lock_files \cap pinned = {}
       /\ Counted({"locked"}) <= Cardinality(pinned)
  /\ printed # None /\ printed.line = "locked" =>
       /\ printed.locked = Bytes(pinned)
       /\ printed.failed = Set(mapped) \ pinned
  /\ printed # None /\ printed.line = "released" =>
       /\ pinned = {}
       /\ Tui => (printed.locked = "all") = (printed.count = Cardinality(locked))
  /\ printed # None /\ printed.line = "compared" /\ printed.verdict # None =>
       \A k \in {"holder", "server"} : \A r \in Set(procs[k].regions) :
         r.inode \notin printed.shared => ~\A q \in Set(procs[k].regions) : q.inode = r.inode => IsModelFile(q)

\* "latency is bounded by that throttle" (main.rs): once the user has quit, or the
\* UI thread has died, the program ends.
QuitEnds == <>[](should_exit => worker = "done")
===========================================================================
