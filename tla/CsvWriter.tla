----------------------------- MODULE CsvWriter -----------------------------
(***************************************************************************)
(* Class CsvWriter as operators on its buffer, and a reader.  A field is a *)
(* sequence of pieces; the pieces Special matter to the format, the others *)
(* are runs of ordinary characters.                                        *)
(***************************************************************************)
EXTENDS Integers, SequencesExt

Newline == "\n"
Quote == "\""
Special == {",", Quote, Newline, "\r"}

(* Bug: only commas and quotes make it quote a field.                      *)
needs_quotes_some(s) == \E i \in DOMAIN s : s[i] \in {",", Quote}

needs_quotes(s) == \E i \in DOMAIN s : s[i] \in Special

doubled(s) == FlattenSeq([i \in DOMAIN s |-> IF s[i] = Quote THEN <<Quote, Quote>> ELSE <<s[i]>>])

append_field_csv(field) ==
  IF needs_quotes(field) THEN <<Quote>> \o doubled(field) \o <<Quote>> ELSE field

append_row_csv(fields) ==
  FlattenSeq([i \in DOMAIN fields |->
                IF i = 1 THEN append_field_csv(fields[i])
                         ELSE <<",">> \o append_field_csv(fields[i])])
  \o <<Newline>>

schema_version == <<"1">>

set_header(columns) ==
  append_row_csv(<<<<"schema_version">>, <<"run_uuid">>>> \o columns)

add_row(run_uuid, fields) == append_row_csv(<<schema_version, run_uuid>> \o fields)

finish_with_summary(run_uuid, text) ==
  append_row_csv(<<<<"# summary">>, schema_version, run_uuid, text>>)

standard_header ==
  <<<<"schema_version">>, <<"run_uuid">>, <<"ts_ms">>, <<"app">>, <<"event">>, <<"ip">>, <<"port">>, <<"bytes">>>>

-----------------------------------------------------------------------------
(* A reader of comma-separated files with quoted fields (RFC 4180): the    *)
(* rows it has read, the row and field it is in, and whether that field is *)
(* quoted ("in") or a quotation mark has just come in it ("mark").         *)
Reader == [rows |-> <<>>, row |-> <<>>, field |-> <<>>, quoted |-> "no"]

grown(r, p) == [r EXCEPT !.field = Append(@, p)]
next_field(r) ==
  [rows |-> r.rows, row |-> Append(r.row, r.field), field |-> <<>>, quoted |-> "no"]
next_row(r) ==
  [rows |-> Append(r.rows, Append(r.row, r.field)), row |-> <<>>, field |-> <<>>, quoted |-> "no"]

read_piece(r, p) ==
  CASE r.quoted = "in" -> IF p = Quote THEN [r EXCEPT !.quoted = "mark"] ELSE grown(r, p)
    [] r.quoted = "mark" /\ p = Quote -> [grown(r, p) EXCEPT !.quoted = "in"]
    [] r.quoted # "in" /\ p = "," -> next_field(r)
    [] r.quoted # "in" /\ p \in {Newline, "\r"} -> next_row(r)
    [] r.quoted = "no" /\ p = Quote -> [r EXCEPT !.quoted = "in"]
    [] OTHER -> grown(r, p)

read_rows(buf) ==
  LET read[n \in 0 .. Len(buf)] == IF n = 0 THEN Reader ELSE read_piece(read[n - 1], buf[n])
  IN read[Len(buf)].rows
=============================================================================
