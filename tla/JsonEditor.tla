----------------------------- MODULE JsonEditor -----------------------------
(***************************************************************************)
(* The editor of a JSON body (_components/json-editor.tsx), which wraps a  *)
(* vanilla-jsoneditor that React does not control. Its text is told to the *)
(* builder when the focus leaves it; the flag preventUpdating shall keep   *)
(* the render that follows from setting the text once more. The attributes *)
(* the builder does not pass (onChangeJson, parser, debounce) are left out.*)
(***************************************************************************)
EXTENDS Naturals

VARIABLE editor  \* the wrapper's refs, and the text of the editor they name

NoEditor ==
  [shown |-> FALSE, text |-> "", typing |-> FALSE, timer |-> FALSE, preventUpdating |-> FALSE]

\* The first render with an initialJson.
NewEditor(json) == [NoEditor EXCEPT !.shown = TRUE, !.text = json]

\* A mutant: the editor is mounted once, as the comments say.
RenderedOnce(ed, json, changed) ==
  LET set == changed /\ ~ed.preventUpdating
  IN  [ed EXCEPT !.text = IF set THEN json ELSE @, !.typing = @ /\ ~set,
                 !.preventUpdating = @ /\ ~changed]

\* The effects of a later render. onBlurJson is a new function each time, so the
\* effect that mounts the editor destroys it and makes another one of initialJson,
\* and what was typed since the focus came is gone. If initialJson has changed, the
\* effect after it resets preventUpdating, or sets the text the editor has already.
Rendered(ed, json, changed) ==
  [ed EXCEPT !.text = json, !.typing = FALSE, !.preventUpdating = @ /\ ~changed]

\* A key in the editor: onChange, which starts the timer anew.
TypeText(text) ==
  /\ editor.shown /\ text # editor.text
  /\ editor' = [editor EXCEPT !.text = text, !.typing = TRUE, !.timer = TRUE]

\* The timer ends. Nobody listens to onChangeJson, but the flag is set; the timer
\* is that of the wrapper and outlives the editor.
EmitChange ==
  /\ editor.timer
  /\ editor' = [editor EXCEPT !.timer = FALSE, !.preventUpdating = TRUE]

\* onBlur, up to its call of onBlurJson.
Left == [editor EXCEPT !.preventUpdating = TRUE]
=============================================================================
