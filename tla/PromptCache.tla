---------------------------- MODULE PromptCache ----------------------------
(***************************************************************************)
(* The mtime-checked cache of a prompt file (prompt_cache.rs) and the two  *)
(* that read through it: RepromptEngine::resolve_prompt, which keeps a     *)
(* copy of its own, and AugmentBackend::load_backend_prompt.               *)
(*                                                                         *)
(* The file's versions are numbered; 0 stands for no text.  Every edit     *)
(* moves the mtime, so version n carries mtime n.  A version may be blank, *)
(* and the file may be missing for a while.  Text and mtime are two        *)
(* RwLocks, and every await is a step.                                     *)
(***************************************************************************)
EXTENDS Integers, FiniteSets

CONSTANTS
  Tasks,       \* calls of resolve_prompt and load_backend_prompt
  Blank,       \* the versions of the file that are blank
  MaxEdits     \* bound of the model: the last version of the file

VARIABLES
  file,        \* the version on disk
  present,     \* whether the file can be read
  text, mtime, \* the two cells of PromptFileCache; mtime 0 is None
  prompt,      \* RepromptEngine::prompt
  at, reader,  \* where each task is, and which of the two it serves
  stat,        \* the mtime it saw
  content,     \* the version it read
  answer,      \* the version its caller gets; 0 is the empty string
  overlap      \* history: two reloads were under way at the same time

vars == <<file, present, text, mtime, prompt, at, reader, stat, content,
          answer, overlap>>

disk == <<file, present>>

Versions == 0 .. MaxEdits

\* The reprompt engine has read the file at startup, the cache is still empty.
Init ==
  /\ file = 1 /\ present = TRUE
  /\ text = 0 /\ mtime = 0 /\ prompt = 1
  /\ at = [t \in Tasks |-> "idle"]
  /\ reader \in [Tasks -> {"reprompt", "augment"}]
  /\ stat = [t \in Tasks |-> 0]
  /\ content = [t \in Tasks |-> 0]
  /\ answer = [t \in Tasks |-> 0]
  /\ overlap = FALSE

Go(t, label) == at' = [at EXCEPT ![t] = label]

\* A reload is under way between the read of the file and its last store.
Reloading(t) == at[t] \in {"compare", "read", "text", "mtime", "prompt"}
Quiet == \A t \in Tasks : at[t] \in {"idle", "done"}

---------------------------------------------------------------------------
(* PromptFileCache::refresh.                                               *)

\* tokio::fs::metadata; a failure keeps the cached content.
Stat(t) ==
  /\ at[t] = "idle"
  /\ \/ /\ present
        /\ stat' = [stat EXCEPT ![t] = file]
        /\ Go(t, "compare")
        /\ overlap' = (overlap \/ \E q \in Tasks : Reloading(q))
     \/ ~present /\ Go(t, "kept") /\ UNCHANGED <<stat, overlap>>
  /\ UNCHANGED <<disk, text, mtime, prompt, reader, content, answer>>

Compare(t) ==
  /\ at[t] = "compare"
  /\ Go(t, IF mtime = stat[t] THEN "unchanged" ELSE "read")
  /\ UNCHANGED <<disk, text, mtime, prompt, reader, stat, content, answer, overlap>>

\* read_and_store: blank and unreadable files keep the cached content.
ReadFile(t) ==
  /\ at[t] = "read"
  /\ \/ /\ present /\ file \notin Blank
        /\ content' = [content EXCEPT ![t] = file]
        /\ Go(t, "text")
     \/ ~(present /\ file \notin Blank) /\ Go(t, "kept") /\ UNCHANGED content
  /\ UNCHANGED <<disk, text, mtime, prompt, reader, stat, answer, overlap>>

StoreText(t) ==
  /\ at[t] = "text"
  /\ text' = content[t]
  /\ Go(t, "mtime")
  /\ UNCHANGED <<disk, mtime, prompt, reader, stat, content, answer, overlap>>

\* Mutant: the mtime stored is the one on disk by now, not the one of the stat.
StoreMtime_bug(t) ==
  /\ at[t] = "mtime"
  /\ mtime' = file
  /\ Go(t, "prompt")
  /\ UNCHANGED <<disk, text, prompt, reader, stat, content, answer, overlap>>

StoreMtime(t) ==
  /\ at[t] = "mtime"
  /\ mtime' = stat[t]
  /\ Go(t, "prompt")
  /\ UNCHANGED <<disk, text, prompt, reader, stat, content, answer, overlap>>

---------------------------------------------------------------------------
(* What the two callers make of the outcome.                               *)

Return(t, version) ==
  /\ answer' = [answer EXCEPT ![t] = version]
  /\ stat' = [stat EXCEPT ![t] = 0]
  /\ content' = [content EXCEPT ![t] = 0]
  /\ Go(t, "done")

\* Reloaded: the engine updates its copy; both answer with the new text.
Reloaded(t) ==
  /\ at[t] = "prompt"
  /\ prompt' = IF reader[t] = "reprompt" THEN content[t] ELSE prompt
  /\ Return(t, content[t])
  /\ UNCHANGED <<disk, text, mtime, reader, overlap>>

\* Unchanged: the engine's own copy, or the text of the cache.
Unchanged(t) ==
  /\ at[t] = "unchanged"
  /\ Return(t, IF reader[t] = "reprompt" THEN prompt ELSE text)
  /\ UNCHANGED <<disk, text, mtime, prompt, reader, overlap>>

\* Empty or Failed: the engine's own copy, or the empty string.
Kept(t) ==
  /\ at[t] = "kept"
  /\ Return(t, IF reader[t] = "reprompt" THEN prompt ELSE 0)
  /\ UNCHANGED <<disk, text, mtime, prompt, reader, overlap>>

---------------------------------------------------------------------------
Edit ==
  /\ file < MaxEdits
  /\ file' = file + 1
  /\ UNCHANGED <<present, text, mtime, prompt, at, reader, stat, content, answer, overlap>>

Vanish ==
  /\ present' = ~present
  /\ UNCHANGED <<file, text, mtime, prompt, at, reader, stat, content, answer, overlap>>

Task(t) ==
  \/ Stat(t) \/ Compare(t) \/ ReadFile(t) \/ StoreText(t) \/ StoreMtime(t)
  \/ Reloaded(t) \/ Unchanged(t) \/ Kept(t)

Next == (\E t \in Tasks : Task(t)) \/ Edit \/ Vanish

Spec == Init /\ [][Next]_vars

---------------------------------------------------------------------------
TypeOK ==
  /\ file \in 1 .. MaxEdits /\ present \in BOOLEAN
  /\ {text, mtime, prompt} \subseteq Versions
  /\ at \in [Tasks -> {"idle", "compare", "read", "text", "mtime", "prompt",
                       "unchanged", "kept", "done"}]
  /\ reader \in [Tasks -> {"reprompt", "augment"}]
  /\ stat \in [Tasks -> Versions] /\ content \in [Tasks -> Versions]
  /\ answer \in [Tasks -> Versions]
  /\ overlap \in BOOLEAN

\* Reloads that do not overlap leave no stale text behind: when no call is in
\* progress and the stored mtime is that of the file, the stored text is the
\* file's.  The stat comes before the read, so an edit between the two costs
\* another reload and never hides the edit.
CurrentMtimeMeansCurrentText == Quiet /\ ~overlap /\ mtime = file => text = file

\* The doc comment of RepromptEngine: "no reader can ever pair text from one
\* reload with the mtime of another".  The pair that matters: an older reload's
\* text under the current mtime, which every later refresh takes for current.
PairFromOneReload == Quiet /\ mtime = file => text = file
===========================================================================
