----------------------------- MODULE FormEditor -----------------------------
(***************************************************************************)
(* ui/form_editor: a buffer in which the user fills in a form.  The        *)
(* registry of editors is a function from the identities of those that are *)
(* open.  What is in a form is left to the modules that open one.          *)
(***************************************************************************)

NoEditors == <<>>

Without(f, S) == [x \in DOMAIN f \ S |-> f[x]]
With(f, x, v) == [y \in DOMAIN f \union {x} |-> IF y = x THEN v ELSE f[y]]

IsOpen(editors, id)    == id \in DOMAIN editors
IsWaiting(editors, id) == IsOpen(editors, id) /\ editors[id].waiting

\* form_editor::close: the registry forgets it before its callback runs
Close(editors, ids) == Without(editors, ids)

\* form_editor::open: one that is open under the same identity is closed
Open(editors, id, form) ==
  With(Close(editors, {id}), id, [form |-> form, waiting |-> FALSE])

\* form_editor::failed
FailedMutant(editors, id) == editors
Failed(editors, id) == IF IsOpen(editors, id) THEN [editors EXCEPT ![id].waiting = FALSE] ELSE editors

\* form_editor::input: nothing is taken while the server has not answered
TakesInput(editors, id)   == IsOpen(editors, id) /\ ~editors[id].waiting
Filled(editors, id, form) == [editors EXCEPT ![id].form = form]
Submitted(editors, id)    == [editors EXCEPT ![id].waiting = TRUE]

=============================================================================
