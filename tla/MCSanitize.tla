----------------------------- MODULE MCSanitize -----------------------------
EXTENDS Sanitize

MCNames == {"IFS", "PATH", "TZ", "HOME"}

MCNameLen == [n \in MCNames |-> CASE n = "IFS" -> 3 [] n = "PATH" -> 4
                                  [] n = "TZ" -> 2 [] n = "HOME" -> 4]

(* preservev: none; HOME with a count past the NULL; TZ again and HOME     *)
(* with a count that stops before the NULL.                                *)
MCPreserveArgs ==
  {[c |-> 0, v |-> NULL], [c |-> 3, v |-> <<"HOME", NULL>>],
   [c |-> 1, v |-> <<"TZ", "HOME", NULL>>]}

MCAddArgs ==
  {[c |-> 0, v |-> NULL], [c |-> 2, v |-> <<[name |-> "HOME", vlen |-> 0], NULL>>]}

MCKeepArgs == {<<>>, <<3>>, <<4, 1>>}

MCDtableSizes == {-1, 5, 7}

=============================================================================
