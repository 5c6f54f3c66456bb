---------------------------- MODULE RequestDraft ----------------------------
(***************************************************************************)
(* The request the builder edits (_jotai/http-req.ts) and the hash its     *)
(* responses are kept under (_jotai/http-res.ts). Method and URL are one   *)
(* target; "" is an empty URL field. A row of a list has the Date.now() of *)
(* the click that added it for an id, so rows are told apart by position.  *)
(***************************************************************************)
EXTENDS Naturals, Sequences, FiniteSets, TLC

CONSTANTS
  Targets,   \* methods and URLs
  Original,  \* the target of the captured request that is replayed
  Bodies,    \* texts of a body
  Decoded(_) \* atob: what a text that happens to be base64 decodes to

BodyTypes == {"json", "form-data", "raw"}

\* A row of the headers or of the form data.
Row(key, value) == [key |-> key, value |-> value, enabled |-> TRUE]

DefaultRequest(now) ==
  [target |-> Original, headers |-> <<Row("content-type", "json")>>, body |-> "",
   bodyType |-> "json", entries |-> <<>>, timestamp |-> now]

SetTarget(req, t) == [req EXCEPT !.target = t]

\* A text that can be decoded is decoded, also when the user typed it.
SetBody(req, text) == [req EXCEPT !.body = Decoded(text)]

\* The first Content-Type header follows the type; one is added if there is none.
SetBodyType(req, type) ==
  LET rows == {i \in DOMAIN req.headers : req.headers[i].key = "content-type"}
      first == CHOOSE i \in rows : \A j \in rows : i <= j
  IN  [req EXCEPT !.bodyType = type,
                  !.headers = IF rows = {}
                                THEN Append(@, Row("content-type", type))
                                ELSE [@ EXCEPT ![first] = Row("content-type", type)]]

\* What the user can do to the rows of a list.
AddRow(rows) == Append(rows, Row("", ""))
UpdateKey(rows, i, key) == [rows EXCEPT ![i].key = key]
ToggleRow(rows, i) == [rows EXCEPT ![i].enabled = ~@]
RemoveRow(rows, i) == SubSeq(rows, 1, i - 1) \o SubSeq(rows, i + 1, Len(rows))

\* A captured session replaces everything but the body type, which becomes the
\* default one; the session has no timestamp of its own.
ResetRequest(session, now) ==
  [DefaultRequest(now) EXCEPT !.target = session.target,
                              !.headers = session.headers,
                              !.body = Decoded(session.body)]

\* calculateRequestHash: enabled headers whatever their order, and not the form
\* data. SHA-256 is taken to tell any two of these apart.
RequestHash(req) ==
  LET enabled == {req.headers[i] : i \in {j \in DOMAIN req.headers : req.headers[j].enabled}}
  IN  [target |-> req.target, headers |-> enabled, body |-> req.body,
       timestamp |-> req.timestamp]
=============================================================================
