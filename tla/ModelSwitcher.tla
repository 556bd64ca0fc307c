---------------------------- MODULE ModelSwitcher ----------------------------
(***************************************************************************)
(* model-switcher: one run of the tool that chooses opencode's models and  *)
(* edits their limits, against a user at the keyboard and somebody else    *)
(* who edits the same files meanwhile (model-switcher/src/main.rs,         *)
(* config.rs).                                                             *)
(*                                                                         *)
(* opencode.jsonc is kept as what its line editor can tell apart: whether  *)
(* it parses, the default model and whether its line can be edited, and of *)
(* each model's entry where its limit and capabilities objects stand.  The *)
(* text of a filter is kept as the models it matches.  Drawing is left out.*)
(***************************************************************************)
EXTENDS Integers, Sequences, FiniteSets

CONSTANTS
  Catalog,    \* the model ids, in the order of the list
  Odd,        \* the ids that JSON would have to escape: with a quote, a backslash, a control
  Ragged,     \* the ids with a blank or a quote at an end, or with a line break
  Other,      \* any text that is no model's id
  Agents,     \* the agents' files, the primary one first
  None,       \* an absent value
  MaxTyped    \* bound on the length of a filter

VARIABLES
  order,    \* the command line
  conf,     \* opencode.jsonc
  pins,     \* the model each agent's frontmatter pins, or None
  step,     \* where the run is
  targets,  \* what is being chosen: the default, then the pinned agents
  nth,      \* the target at hand
  reads,    \* the value of each target as it was read for its prompt
  picked,   \* the value chosen for each
  filter,   \* for each letter typed, the models that still match
  cursor,   \* the selected line of the list
  wrote,    \* the targets or sections this run has written
  outside,  \* the targets somebody else has changed meanwhile
  wrong,    \* the models named in a warning
  said      \* how the run ended

menu == <<targets, nth, reads, picked, filter, cursor>>
switchVars == <<order, conf, pins, step, menu, wrote, outside, wrong, said>>

Ids == {Catalog[i] : i \in 1 .. Len(Catalog)}

---------------------------------------------------------------------------
(* The configuration file.                                                 *)

\* A model's entry.  limit: on one line, over several, or absent.  here: the
\* capabilities object on the line of the limit (bare: without an input list);
\* there: one on another line, which wins over `here` when it comes last;
\* modal: the modalities of version 1.
Entries ==
  {e \in [limit : {"line", "split", "none"}, context : {None, 100}, input : {None, 76},
          here : {"none", "bare", "text", "image"}, there : {"none", "text", "image"},
          last : BOOLEAN, modal : {"none", "image"}] :
     /\ e.limit = "none" => e.context = None /\ e.input = None /\ e.here = "none"
     /\ e.last => e.there # "none"}

PlainEntry == [limit |-> "line", context |-> 100, input |-> None, here |-> "text",
               there |-> "none", last |-> FALSE, modal |-> "none"]

\* read_model_info: of two objects with the same key the later one counts.
HasImage(e) ==
  IF e.there # "none" /\ (e.last \/ e.here = "none") THEN e.there = "image"
  ELSE IF e.here # "none" THEN e.here = "image"
  ELSE e.modal = "image"

\* object_after_key: the line editor sees an object only where it ends on its line.
LimitOnLine(e) == e.limit = "line"

\* edit_limit_on_line, for the context and for the input.
SetLimits(e, context, input) ==
  IF LimitOnLine(e)
  THEN [e EXCEPT !.context = IF context = None THEN @ ELSE context, !.input = input]
  ELSE e

\* set_image_on_line: a line without "limit" is left alone; without a
\* capabilities object on it the standard one is put in front.
SetImage(e, on) ==
  IF \/ e.limit = "none"
     \/ ~on /\ e.here \in {"none", "bare"}
  THEN e
  ELSE [e EXCEPT !.here = IF on THEN "image" ELSE "text"]

\* The intended limit.input, a whole number of tokens.
InputLimit(size, preset) ==
  (size * CASE preset = "safe" -> 76 [] preset = "balanced" -> 85 [] preset = "aggressive" -> 92)
  \div 100

\* What the command asks of every model.
WantedContext == IF order.cmd = "ctx" THEN order.size ELSE None
WantedInput == IF order.cmd = "ctx" THEN InputLimit(order.size, order.preset) ELSE None
LimitsApplied(e) ==
  (WantedContext # None => e.context = WantedContext) /\ e.input = WantedInput
ImageApplied(e) == HasImage(e) <=> order.image = "on"

\* get_default_model, get_current_model: None stands for their "unknown".
Read(t) == IF t = "default" THEN (IF conf.state \in {"bare", "ok"} THEN conf.default ELSE None)
           ELSE pins[t]

check_layout == conf.state # "missing"

\* The elements of s at the given places, in their order.
Kept(s, places) ==
  LET at == CHOOSE t \in [1 .. Cardinality(places) -> places] :
              \A i, j \in 1 .. Cardinality(places) : i < j => t[i] < t[j]
  IN  [k \in 1 .. Cardinality(places) |-> s[at[k]]]

\* The agents that pin a model, the primary one first.
discover_agents == Kept(Agents, {i \in 1 .. Len(Agents) : pins[Agents[i]] # None})

---------------------------------------------------------------------------
\* A command line; ctx takes a size and a preset, ctx and image an on or off.
Orders ==
  LET Order(cmd, size, preset, image) ==
        [cmd |-> cmd, size |-> size, preset |-> preset, image |-> image]
  IN {Order(c, None, None, None) : c \in {"help", "obsolete", "lm", "all", "status", "unknown",
                                          "ctx off"}}
     \cup {Order("image", None, None, i) : i \in {"on", "off", "bad"}}
     \cup {Order("ctx", None, "safe", None), Order("ctx", 0, "safe", None),
           Order("ctx", 100, None, None), Order("ctx", 100, "bad", None),
           Order("ctx", 1, "aggressive", None)}
     \cup {Order("ctx", 100, "balanced", i) : i \in {"on", "off", "bad"}}

Menus == {"lm", "all"}

\* A file as a user may have left it: missing, malformed, without providers, or
\* sound; its "model" line may be one the line editor does not find.
Files ==
  [state : {"missing", "broken", "bare", "ok"}, default : Ids \cup {Other, None}, line : {"one", "other"},
   models : {[m \in {} |-> PlainEntry]}
            \cup {[m \in Ids |-> IF m = Catalog[1] THEN e ELSE PlainEntry] : e \in Entries}]

\* The shape of an entry matters to the commands that edit entries, and the
\* models in use to the menus.
Init ==
  /\ order \in Orders
  /\ conf \in {f \in Files : /\ f.default = None => f.line = "other"
                             /\ f.state # "ok" => DOMAIN f.models = {}
                             /\ order.cmd \in Menus \cup {"status", "help", "obsolete", "unknown"} =>
                                  \A m \in DOMAIN f.models : f.models[m] = PlainEntry
                             /\ order.cmd \notin Menus => f.default \in {Catalog[1], None}}
  /\ pins \in [{Agents[i] : i \in 1 .. Len(Agents)} -> {Catalog[1], None}]
  /\ order.cmd \notin Menus => \A a \in DOMAIN pins : pins[a] # None
  /\ step = "start" /\ targets = <<>> /\ nth = 1 /\ reads = <<>> /\ picked = <<>>
  /\ filter = <<>> /\ cursor = 1
  /\ wrote = {} /\ outside = {} /\ wrong = {} /\ said = "nothing"

End(words) == step' = "ended" /\ said' = words

---------------------------------------------------------------------------
(* The commands without a menu.                                            *)

\* help, the commands of the past, and an unknown one once the layout is checked.
Usage ==
  /\ step = "start"
  /\ \/ order.cmd \in {"help", "obsolete"} /\ End("usage")
     \/ order.cmd \notin {"help", "obsolete"} /\ ~check_layout /\ End("error")
     \/ order.cmd = "unknown" /\ check_layout /\ End("usage")
  /\ UNCHANGED <<order, conf, pins, menu, wrote, outside, wrong>>

\* run_status: everything is read, nothing is written.
Status ==
  /\ step = "start" /\ order.cmd = "status" /\ check_layout
  /\ End(IF conf.state = "ok" /\ conf.default # None THEN "done" ELSE "error")
  /\ UNCHANGED <<order, conf, pins, menu, wrote, outside, wrong>>

\* The arguments of ctx that end the run before anything is read.
BadArguments ==
  /\ step = "start" /\ order.cmd = "ctx" /\ check_layout
  /\ \/ order.preset = None /\ End("usage")
     \/ order.preset # None /\ order.size \in {None, 0} /\ End("error")
     \/ order.preset = "bad" /\ order.size \notin {None, 0} /\ End("usage")
  /\ UNCHANGED <<order, conf, pins, menu, wrote, outside, wrong>>

\* write_jsonc_checked: the text is written if it parses; the write may fail,
\* before or after the file was truncated.
WriteConfig(new, parses, section) ==
  \/ /\ parses
     /\ conf' = new
     /\ wrote' = wrote \cup {section}
  \/ /\ UNCHANGED conf /\ UNCHANGED wrote
  \/ /\ parses
     /\ conf' = [conf EXCEPT !.state = "broken"]
     /\ wrote' = wrote \cup {section}

\* The write went through: fs::write returned Ok.
Written(new, section) == conf' = new /\ section \in wrote'

\* The text with every entry edited.
update_limits ==
  [conf EXCEPT !.models = [m \in DOMAIN @ |-> SetLimits(@[m], WantedContext, WantedInput)]]
update_image == [conf EXCEPT !.models = [m \in DOMAIN @ |-> SetImage(@[m], order.image = "on")]]

\* run_ctx_mode, run_ctx_off_mode: edit every limit, then read the file again
\* and name the models whose limits are not as intended.
SetContext ==
  LET new == update_limits IN
  /\ step = "start" /\ check_layout
  /\ order.cmd \in {"ctx", "ctx off"}
  /\ order.cmd = "ctx" => order.preset \notin {None, "bad"} /\ order.size \notin {None, 0}
  /\ WriteConfig(new, conf.state # "broken", "limits")
  /\ IF Written(new, "limits") /\ conf.state = "ok"
     THEN /\ wrong' = {m \in DOMAIN new.models : ~LimitsApplied(new.models[m])}
          /\ IF order.image = None THEN End("done") ELSE step' = "image" /\ UNCHANGED said
     ELSE End("error") /\ UNCHANGED wrong
  /\ UNCHANGED <<order, pins, menu, outside>>

\* run_image, as the command or after ctx.
SwitchImage ==
  LET new == update_image IN
  /\ check_layout
  /\ step = "image" \/ (step = "start" /\ order.cmd = "image")
  /\ \/ order.image = "bad" /\ End("usage") /\ UNCHANGED <<conf, wrote, wrong>>
     \/ /\ order.image # "bad"
        /\ WriteConfig(new, conf.state # "broken", "capabilities")
        /\ IF Written(new, "capabilities") /\ conf.state = "ok"
           THEN /\ wrong' = wrong \cup {m \in DOMAIN new.models : ~ImageApplied(new.models[m])}
                /\ End("done")
           ELSE End("error") /\ UNCHANGED wrong
  /\ UNCHANGED <<order, pins, menu, outside>>

---------------------------------------------------------------------------
(* The menus.                                                              *)

Matching == IF filter = <<>> THEN DOMAIN conf.models ELSE filter[Len(filter)]
Listed == Kept(Catalog, {i \in 1 .. Len(Catalog) : Catalog[i] \in Matching})

\* A prompt opens with the cursor on the value just read.
Place(value) == IF \E i \in 1 .. Len(Catalog) : Catalog[i] = value
                THEN CHOOSE i \in 1 .. Len(Catalog) : Catalog[i] = value ELSE 1

\* run_agent_mode, run_all_mode: the models, the agents that pin one, and the default.
OpenMenu ==
  /\ step = "start" /\ order.cmd \in Menus /\ check_layout
  /\ IF conf.state # "ok" \/ DOMAIN conf.models = {}
     THEN End("error") /\ UNCHANGED <<targets, reads, filter, cursor>>
     ELSE /\ targets' = <<"default">> \o discover_agents
          /\ reads' = <<Read("default")>>
          /\ cursor' = Place(Read("default")) /\ filter' = <<>>
          /\ step' = "prompt" /\ UNCHANGED said
  /\ UNCHANGED <<order, conf, pins, nth, picked, wrote, outside, wrong>>

\* A key that moves in the list or edits the filter.
Browse ==
  /\ step = "prompt"
  /\ \/ cursor' = (IF cursor > 1 THEN cursor - 1 ELSE cursor) /\ UNCHANGED filter
     \/ cursor' = (IF cursor < Len(Listed) THEN cursor + 1 ELSE cursor) /\ UNCHANGED filter
     \/ /\ Len(filter) < MaxTyped
        /\ \E rest \in SUBSET Matching : filter' = Append(filter, rest)
        /\ cursor' = 1
     \/ /\ filter' = (IF filter = <<>> THEN filter ELSE SubSeq(filter, 1, Len(filter) - 1))
        /\ cursor' = 1
  /\ UNCHANGED <<order, conf, pins, step, targets, nth, reads, picked, wrote, outside, wrong,
                 said>>

\* Mutant: the default is written as soon as it is chosen.
Choose_bug ==
  /\ step = "prompt" /\ cursor <= Len(Listed)
  /\ picked' = Append(picked, Listed[cursor])
  /\ conf' = IF nth = 1 THEN [conf EXCEPT !.default = Listed[cursor]] ELSE conf
  /\ wrote' = IF nth = 1 THEN {"default"} ELSE wrote
  /\ filter' = <<>>
  /\ IF nth < Len(targets)
     THEN /\ reads' = Append(reads, Read(targets[nth + 1]))
          /\ cursor' = Place(Read(targets[nth + 1]))
          /\ nth' = nth + 1 /\ UNCHANGED step
     ELSE step' = "confirm" /\ nth' = 1 /\ UNCHANGED <<reads, cursor>>
  /\ UNCHANGED <<order, pins, targets, outside, wrong, said>>

\* Enter: nothing happens on an empty list.  `lm` goes on to the next target,
\* whose value is read now, and then to the confirmation; `all` starts to write.
Choose ==
  /\ step = "prompt" /\ cursor <= Len(Listed)
  /\ filter' = <<>>
  /\ IF order.cmd = "all"
     THEN /\ picked' = [k \in 1 .. Len(targets) |-> Listed[cursor]]
          /\ step' = "write" /\ UNCHANGED <<nth, reads, cursor>>
     ELSE /\ picked' = Append(picked, Listed[cursor])
          /\ IF nth < Len(targets)
             THEN /\ reads' = Append(reads, Read(targets[nth + 1]))
                  /\ cursor' = Place(Read(targets[nth + 1]))
                  /\ nth' = nth + 1 /\ UNCHANGED step
             ELSE step' = "confirm" /\ nth' = 1 /\ UNCHANGED <<reads, cursor>>
  /\ UNCHANGED <<order, conf, pins, targets, wrote, outside, wrong, said>>

\* Esc or Ctrl-C in a list; also n at the confirmation.
Abort ==
  /\ step \in {"prompt", "confirm"}
  /\ End("aborted")
  /\ UNCHANGED <<order, conf, pins, menu, wrote, outside, wrong>>

Confirm ==
  /\ step = "confirm"
  /\ step' = "write"
  /\ UNCHANGED <<order, conf, pins, menu, wrote, outside, wrong, said>>

\* The value a choice is compared with: `all` reads an agent again.
Before == IF order.cmd = "all" /\ nth > 1 THEN Read(targets[nth]) ELSE reads[nth]

\* replace_string_value: the id goes between the quotes as it is.  One that JSON would
\* escape may make a text that does not parse, which WriteConfig refuses, or one that
\* holds something else, be it under other keys: never the id, which it is shorter than.
Spliced(value) ==
  IF value \notin Odd THEN {[conf EXCEPT !.default = value]}
  ELSE {[conf EXCEPT !.default = d] : d \in (Ids \cup {Other, None}) \ {value}}
       \cup {[conf EXCEPT !.default = d, !.state = "bare", !.models = [m \in {} |-> PlainEntry]] :
               d \in (Ids \cup {Other, None}) \ {value}}

\* `done` when the write went through.
update_default_model(value, done) ==
  \E new \in Spliced(value) :
    /\ WriteConfig(new, conf.line = "one", "default")
    /\ done <=> Written(new, "default")
    /\ UNCHANGED pins

\* get_current_model of what was written: without the blanks and quotes around it, and
\* only the first line of it.
ReadBack(value) == IF value \notin Ragged THEN {value} ELSE (Ids \cup {Other}) \ {value}

\* An agent's file is written unchecked; a file cut short pins nothing.
update_agent_model(a, value, done) ==
  /\ \/ /\ pins[a] # None /\ done
        /\ \E v \in ReadBack(value) : pins' = [pins EXCEPT ![a] = v]
        /\ wrote' = wrote \cup {a}
     \/ ~done /\ UNCHANGED <<pins, wrote>>
     \/ pins[a] # None /\ ~done /\ pins' = [pins EXCEPT ![a] = None] /\ wrote' = wrote \cup {a}
  /\ UNCHANGED conf

Update(t, value, done) ==
  IF t = "default" THEN update_default_model(value, done) ELSE update_agent_model(t, value, done)

\* The next choice goes to disk if it differs; the first failure ends the run.
WriteChoice ==
  /\ step = "write" /\ nth <= Len(targets)
  /\ \/ /\ picked[nth] = Before
        /\ nth' = nth + 1
        /\ UNCHANGED <<conf, pins, wrote, step, said>>
     \/ /\ picked[nth] # Before
        /\ \/ Update(targets[nth], picked[nth], TRUE) /\ nth' = nth + 1 /\ UNCHANGED <<step, said>>
           \/ Update(targets[nth], picked[nth], FALSE) /\ End("error") /\ UNCHANGED nth
  /\ UNCHANGED <<order, targets, reads, picked, filter, cursor, outside, wrong>>

AllWritten ==
  /\ step = "write" /\ nth > Len(targets)
  /\ End(IF wrote = {} THEN "unchanged" ELSE "done")
  /\ UNCHANGED <<order, conf, pins, menu, wrote, outside, wrong>>

\* Another editor changes the default, escaped as need be, or an agent's model.
EditOutside ==
  /\ step \in {"prompt", "confirm", "write"} /\ outside = {}
  /\ \E t \in {targets[k] : k \in 1 .. Len(targets)}, v \in Ids :
       /\ v # Read(t)
       /\ outside' = {t}
       /\ IF t = "default" THEN conf' = [conf EXCEPT !.default = v] /\ UNCHANGED pins
          ELSE v \notin Ragged /\ pins' = [pins EXCEPT ![t] = v] /\ UNCHANGED conf
  /\ UNCHANGED <<order, step, menu, wrote, wrong, said>>

Next ==
  \/ Usage \/ Status \/ BadArguments \/ SetContext \/ SwitchImage
  \/ OpenMenu \/ Browse \/ Choose \/ Abort \/ Confirm \/ WriteChoice \/ AllWritten \/ EditOutside

Spec == Init /\ [][Next]_switchVars

---------------------------------------------------------------------------
\* main.rs: "Aborted. No changes made." and "No changes made." are true.
AbortIsClean == said \in {"aborted", "unchanged"} => wrote = {}

\* An id that is in the file as it was chosen: the default with nothing to escape, an
\* agent's with nothing that is trimmed.
Plain(t, value) == value \notin (IF t = "default" THEN Odd ELSE Ragged)

\* run_agent_mode, run_all_mode: the targets the run is past hold what was chosen for
\* them, whatever stood there before, unless somebody else has changed them meanwhile;
\* also when a later file could not be written.  An id that is not plain may read back
\* as another, though the run prints "Updated": then opencode.jsonc parses, and the
\* agent pins some model.
ChoicesApplied ==
  order.cmd \in Menus /\ (step = "write" \/ said \in {"done", "unchanged", "error"}) =>
    \A k \in 1 .. nth - 1 :
      /\ targets[k] \notin outside /\ Plain(targets[k], picked[k]) => Read(targets[k]) = picked[k]
      /\ IF targets[k] = "default" THEN conf.state \in {"bare", "ok"} ELSE Read(targets[k]) # None

\* warn_unapplied_limits, run_image: after a command that edits every entry, the
\* models named in the warnings are those that are not as the command asked,
\* wherever the two objects stand in their entries.
WarningsComplete ==
  said = "done" /\ order.cmd \in {"ctx", "ctx off", "image"} =>
    wrong = {m \in DOMAIN conf.models :
               \/ order.cmd # "image" /\ ~LimitsApplied(conf.models[m])
               \/ order.image # None /\ ~ImageApplied(conf.models[m])}
===========================================================================
