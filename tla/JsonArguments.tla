--------------------------- MODULE JsonArguments ---------------------------
(***************************************************************************)
(* The arguments string of a tool call and the structural scanner of       *)
(* fixes/json_scan.rs.  The string is a sequence of the tokens the scanner *)
(* tells apart: depth-1 entries, the closing brace, and whatever a model   *)
(* wrote behind it.  An entry is well formed ("ok"), or has the slot `{}"` *)
(* for its key, or is broken in any other way.  Of a value it matters      *)
(* whether it holds an escaped quote ("quoted") or an object with a        *)
(* filePath of its own ("nested").                                         *)
(***************************************************************************)
EXTENDS Integers, Sequences, FiniteSetsExt, SequencesExt

Entry(form, key, value) == [form |-> form, key |-> key, value |-> value]
Close == Entry("close", "", "")
Trailing == Entry("trailing", "", "")

Closes(d) == {i \in 1 .. Len(d) : d[i].form = "close"}

\* The entries before the closing brace, or all there are.
Body(d) == IF Closes(d) = {} THEN d ELSE SubSeq(d, 1, Min(Closes(d)) - 1)

AllOk(entries) == \A i \in 1 .. Len(entries) : entries[i].form = "ok"

\* The scanner finds an object; what follows the brace is not inspected.
IsObject(d) == Closes(d) # {} /\ AllOk(Body(d))

\* serde_json::from_str succeeds.
ValidJson(d) == IsObject(d) /\ Len(d) = Len(Body(d)) + 1

\* scan_spans: where a depth-1 key stands, in document order.
top_level_key_spans(d, key) ==
  IF IsObject(d)
  THEN SelectSeq([i \in 1 .. Len(Body(d)) |-> i], LAMBDA i : d[i].key = key)
  ELSE <<>>

\* The stream walk, which counts without spans: duplicates count separately and
\* a malformed object yields 0.
top_level_key_count(d, key) ==
  IF IsObject(d) THEN Cardinality({i \in 1 .. Len(Body(d)) : d[i].key = key}) ELSE 0

\* depth1_keys, as the keys that occur more than once.
Duplicated(d) ==
  IF IsObject(d) THEN {k \in {e.key : e \in Range(Body(d))} : top_level_key_count(d, k) > 1} ELSE {}

\* keys_after: the keys of the entries provably present behind entry i.  The walk
\* ends at the closing brace and at the first break.
keys_after(d, i) ==
  {d[j].key : j \in {j \in i + 1 .. Len(d) : \A k \in i + 1 .. j : d[k].form = "ok"}}

\* Parsing into a Value: of a duplicated key the last value wins, at the first
\* position (the preserve_order feature); and serializing that Value.
Parsed(d) ==
  LET first == SelectSeq([i \in 1 .. Len(Body(d)) |-> i],
                         LAMBDA i : \A j \in 1 .. i - 1 : d[j].key # d[i].key)
      last(k) == Max({i \in 1 .. Len(Body(d)) : d[i].key = k})
  IN  [n \in 1 .. Len(first) |-> d[last(d[first[n]].key)]]

Serialized(value) == Append(value, Close)
===========================================================================
