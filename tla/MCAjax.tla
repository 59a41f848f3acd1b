------------------------------- MODULE MCAjax -------------------------------
(* A small instance of Ajax for TLC. *)
EXTENDS Ajax

Option(dataType, cross) ==
  [dataType |-> dataType, cross |-> cross, global |-> TRUE, timeout |-> TRUE,
   async |-> TRUE, before |-> FALSE]

TheOptions ==
  {Option("jsonp", TRUE),
   [Option("jsonp", FALSE) EXCEPT !.async = FALSE, !.timeout = FALSE],
   [Option("*", TRUE) EXCEPT !.before = TRUE],
   [Option("json", FALSE) EXCEPT !.global = FALSE]}

Answer(status, ct, body, valid) ==
  [status |-> status, ct |-> ct, body |-> body, valid |-> valid, calls |-> valid]

TheAnswers ==
  {Answer(200, "script", "text", TRUE), Answer(200, "json", "text", FALSE),
   Answer(200, "other", "binary", TRUE), Answer(304, "html", "text", FALSE),
   Answer(204, "script", "text", TRUE), Answer(404, "script", "text", TRUE)}
=============================================================================
