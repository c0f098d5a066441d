---------------------------- MODULE MCDashboard ----------------------------
(***************************************************************************)
(* Values for model checking Dashboard: a form for each way a start may go   *)
(* (empty, refused by the page only, by the backend's rules, by the builder, *)
(* or by none), and four requests: a start, a stop, a start that overtakes   *)
(* it and one more.                                                          *)
(***************************************************************************)
EXTENDS Dashboard, TLC

Plain == [url |-> "named", headers |-> "plain"]

With(stream) == [streamA |-> stream, streamB |-> Plain, path |-> "set"]

MCForms ==
    {EmptyForm, With(Plain), With([Plain EXCEPT !.headers = "reserved"])}
        \cup {With([Plain EXCEPT !.url = u]) : u \in {"fragment", "private"}}

=============================================================================
