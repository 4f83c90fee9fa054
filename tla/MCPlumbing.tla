------------------------------- MODULE MCPlumbing -------------------------------
(* Instance of Plumbing for TLC. *)
EXTENDS Plumbing

\* Two good messages, the first with a second header; one that is followed by a
\* line that is no header; one without a length.
MCStream == {
  <<Unit("other", 1)>> \o Frame(1) \o Frame(2),
  Frame(1) \o <<Unit("malformed", 2)>>,
  <<Unit("other", 1), Unit("blank", 1), Unit("body", 1)>>}
================================================================================
