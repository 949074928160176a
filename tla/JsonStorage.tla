----------------------------- MODULE JsonStorage -----------------------------
(***************************************************************************)
(* A document on its way through the store: it is inserted as JSON text,   *)
(* updated there, found as JSON text and turned into a document again, of  *)
(* which the client may want some fields only, and which it may insert in  *)
(* its turn.  HANA is taken to give back the text as it is.                *)
(***************************************************************************)
EXTENDS UpdateValues

CONSTANTS
  Documents,      \* what a client may insert
  Projections(_), \* what it may want to see of a document
  Updates(_)      \* what it may do to one: [path, value], Nothing means $unset

VARIABLES at,       \* where the document is
          doc,      \* the document as the client has inserted and updated it
          json,     \* its text in the store
          found,    \* the document that find returns
          proj,     \* the projection of the find
          left,     \* the fields still to be excluded
          updated   \* the update, if there was one

vars == <<at, doc, json, found, proj, left, updated>>

Nothing  == Scalar("nothing", "")
NoUpdate == [path |-> <<>>, value |-> Nothing]

Init ==
  /\ at = "client" /\ doc = Nothing /\ json = Nothing /\ updated = NoUpdate
  /\ found = Nothing /\ proj = <<>> /\ left = {}

\* Nothing of the last document's updates and finds is left.
Afresh == updated' = NoUpdate /\ found' = Nothing /\ proj' = <<>> /\ left' = {}

\* MsgInsert.
Store(d) ==
  /\ doc' = d
  /\ json' = Encode(d, TRUE)
  /\ at' = IF json' = Failed THEN "refused" ELSE "store"
  /\ Afresh

Insert == at = "client" /\ \E d \in Documents : Store(d)

-----------------------------------------------------------------------------
(* MsgUpdate, $set or $unset of one field. *)

\* The parents of the field are there, and so is the element if it is one.
RECURSIVE Reaches(_, _)
Reaches(v, path) ==
  /\ v.t = "document" => path[1] \notin DOMAIN Atoi
  /\ IF Len(path) = 1 THEN v.t = "document" \/ Place(v, path[1]) # 0
     ELSE Place(v, path[1]) # 0 /\ Reaches(v.sub[Place(v, path[1])].v, Tail(path))

\* The document with the value in its place, or without the field.
RECURSIVE Replaced(_, _, _)
Replaced(v, path, w) ==
  LET i == IF v.t = "array" THEN Place(v, path[1]) ELSE SelectInSeq(v.sub, LAMBDA f : f.k = path[1])
  IN IF Len(path) > 1 THEN [v EXCEPT !.sub[i].v = Replaced(@, Tail(path), w)]
     ELSE IF w = Nothing THEN Without(v, path[1])
     ELSE IF i = 0 THEN [v EXCEPT !.sub = Append(@, [k |-> path[1], v |-> w])]
     ELSE [v EXCEPT !.sub[i].v = w]

UpdateRefused(u) ==
  \/ KeyRefused(u.path)
  \/ u.value.t = "array"
  \/ u.value # Nothing /\ SqlValue(u.value, FALSE) = Failed

\* The first key of a document without any is looked at in the condition, which
\* is made last.
Update ==
  /\ at = "store" /\ updated = NoUpdate
  /\ \E u \in Updates(doc) :
       /\ Reaches(doc, u.path)
       /\ updated' = u
       /\ IF UpdateRefused(u) THEN at' = "refused" /\ UNCHANGED <<doc, json>>
          ELSE IF u.value.t = "document" /\ u.value.sub = <<>>
            THEN at' = "panicked" /\ UNCHANGED <<doc, json>>
          ELSE /\ doc' = Replaced(doc, u.path, u.value)
               /\ json' = IF u.value = Nothing THEN UnsetField(json, UpdateKey(u.path))
                          ELSE SetField(json, UpdateKey(u.path), SqlValue(u.value, FALSE))
               /\ UNCHANGED at
  /\ UNCHANGED <<found, proj, left>>

-----------------------------------------------------------------------------
(* MsgFindOrCount. *)

\* What HANA returns, made a document by nextRow.
Find ==
  /\ at = "store"
  /\ \E p \in Projections(doc) :
       LET kind == ProjectionKind(p)
           row == IF kind = "inclusion" THEN SelectFields(json, InclusionText(p)) ELSE json
       IN /\ proj' = p
          /\ found' = IF kind = "refused" \/ row = Failed THEN Nothing ELSE DecodeDocument(row)
          /\ left' = IF kind = "exclusion" THEN {p[i] : i \in DOMAIN p} ELSE {}
          /\ at' = CASE kind = "refused" -> "refused"
                     [] row = Failed -> "failed"
                     [] found' = Failed -> "unreadable"
                     [] kind = "exclusion" -> "excluding"
                     [] OTHER -> "found"
  /\ UNCHANGED <<doc, json, updated>>

\* projectDocument.
Exclude ==
  /\ at = "excluding"
  /\ \E f \in left :
       /\ found' = ExcludeField(found, f)
       /\ left' = left \ {f}
       /\ at' = IF left' = {} THEN "found" ELSE at
  /\ UNCHANGED <<doc, json, proj, updated>>

-----------------------------------------------------------------------------
(* The client. *)

\* What was found is inserted elsewhere.
InsertFound == at = "found" /\ proj = <<>> /\ updated = NoUpdate /\ found # doc /\ Store(found)

\* Another document.
Forget ==
  /\ at \notin {"client", "store", "excluding"}
  /\ at' = "client" /\ doc' = Nothing /\ json' = Nothing /\ Afresh

Next == Insert \/ Update \/ Find \/ Exclude \/ InsertFound \/ Forget

Spec == Init /\ [][Next]_vars

-----------------------------------------------------------------------------
(* Properties. *)

Delimiters == {"{", "}", "[", "]"}

\* No key and no string is one of the delimiters, and no document in the
\* document has a field by which fjson recognises its own objects.
RECURSIVE Plain(_, _)
Plain(v, inner) ==
  /\ v.t = "string" => v.s \notin Delimiters
  /\ v.t = "document" /\ inner => ~NonNull(v, "oid") /\ ~NonNull(v, "$da")
  /\ \A i \in DOMAIN v.sub : v.sub[i].k \notin Delimiters /\ Plain(v.sub[i].v, TRUE)

\* There is no empty array or document at depth two or deeper.
RECURSIVE Filled(_, _)
Filled(v, depth) ==
  /\ v.t \in {"array", "document"} /\ depth >= 2 => v.sub # <<>>
  /\ \A i \in DOMAIN v.sub : Filled(v.sub[i].v, depth + 1)

Regular(d) == Plain(d, FALSE) /\ Filled(d, 0)

\* The same number, in what may be another type.
Numbers == {"int32", "int64", "double"}

\* The keys without an ObjectID's _id, in order.
OtherKeys(d) ==
  LET others == SelectSeq(d.sub, LAMBDA f : ~(f.k = "_id" /\ f.v.t = "ObjectID"))
  IN [i \in DOMAIN others |-> others[i].k]

\* w is v after it has been stored.
RECURSIVE SameValue(_, _)
SameValue(v, w) ==
  CASE v.t = "document" ->
         /\ w.t = "document" /\ OtherKeys(w) = OtherKeys(v)
         /\ {w.sub[i].k : i \in DOMAIN w.sub} = {v.sub[i].k : i \in DOMAIN v.sub}
         /\ \A i \in DOMAIN w.sub : SameValue(Field(v, w.sub[i].k), w.sub[i].v)
    [] v.t = "array" ->
         /\ w.t = "array" /\ Len(w.sub) = Len(v.sub)
         /\ \A i \in DOMAIN w.sub : SameValue(v.sub[i].v, w.sub[i].v)
    [] v.t \in Numbers -> w.t \in Numbers /\ w.s = v.s
    [] OTHER -> w = v

\* The end of a find that the layer has not refused.
Ended == at \in {"found", "unreadable", "failed"}

\* What has been stored can be read, and is the document that was inserted:
\* the same fields in the same order, but for an ObjectID _id that comes first,
\* the same values, however deep, and the same numbers.
ReadBack ==
  Ended /\ proj = <<>> /\ updated = NoUpdate /\ Regular(doc) => at = "found" /\ SameValue(doc, found)

\* No double in v needs more than six decimals, and no string in one of its
\* arrays has a percent sign.
RECURSIVE SqlExact(_, _)
SqlExact(v, inArray) ==
  /\ v.s # "tiny"
  /\ inArray => v.s # PercentString
  /\ \A i \in DOMAIN v.sub : SqlExact(v.sub[i].v, inArray \/ v.t = "array")

\* A field that was set or unset, in an array or in a document, is read back as
\* it was set, and so is all the rest of the document: the value's SQL and the
\* field's lead to the same place and the same JSON as an insert would have.
SetReadsBack ==
  Ended /\ proj = <<>> /\ updated # NoUpdate /\ Regular(doc) /\ SqlExact(updated.value, FALSE)
    => at = "found" /\ SameValue(doc, found)

\* The field names that a projection includes.
Included(p) ==
  {p[i].path[1] : i \in {j \in DOMAIN p : p[j].to = "include"}}
  \cup (IF \E i \in DOMAIN p : IsId(p[i]) THEN {} ELSE {"_id"})

\* The client of an inclusion gets the fields it asked for and that are there,
\* with their values, and _id unless it has excluded it; no others.
InclusionIsExact ==
  Ended /\ ProjectionKind(proj) = "inclusion" /\ updated = NoUpdate /\ Regular(doc) =>
    /\ at = "found"
    /\ {found.sub[i].k : i \in DOMAIN found.sub}
         = Included(proj) \cap {doc.sub[i].k : i \in DOMAIN doc.sub}
    /\ \A i \in DOMAIN found.sub : SameValue(Field(doc, found.sub[i].k), found.sub[i].v)

\* v without what any of the paths leads to, all at once.
RECURSIVE Stripped(_, _)
Stripped(v, paths) ==
  LET on(i)   == {p \in paths : IF v.t = "array" THEN Place(v, p[1]) = i ELSE p[1] = v.sub[i].k}
      kept    == SelectSeq([i \in DOMAIN v.sub |-> i], LAMBDA i : \A p \in on(i) : Len(p) > 1)
      part(i) == [v.sub[i] EXCEPT !.v = Stripped(@, {Tail(p) : p \in on(i)})]
  IN IF v.t \notin {"document", "array"} THEN v
     ELSE [v EXCEPT !.sub = [n \in DOMAIN kept |-> part(kept[n])]]

\* Where the path leads, if it does.
RECURSIVE Target(_, _)
Target(v, path) ==
  IF path = <<>> THEN v
  ELSE IF v.t = "document" /\ HasField(v, path[1]) THEN Target(Field(v, path[1]), Tail(path))
  ELSE IF Place(v, path[1]) # 0 THEN Target(v.sub[Place(v, path[1])].v, Tail(path))
  ELSE Nothing

\* No element that is excluded is in an array that another path goes through,
\* and no field of an inner document that is excluded is null.
Independent(v, paths) ==
  \A p \in paths : Len(p) > 1 =>
    CASE Target(v, Front(p)).t = "array" -> \A q \in paths \ {p} : ~IsPrefix(Front(p), q)
      [] Target(v, Front(p)).t = "document" -> Target(v, p).t # "null"
      [] OTHER -> TRUE

\* The client of an exclusion gets the document without the excluded fields, in
\* whatever order they are removed, one after the other, from documents that
\* share their maps.
ExclusionIsExact ==
  LET paths == {proj[i].path : i \in {j \in DOMAIN proj : proj[j].to = "exclude"}}
  IN Ended /\ ProjectionKind(proj) = "exclusion" /\ updated = NoUpdate
     /\ Regular(doc) /\ Independent(doc, paths)
       => at = "found" /\ SameValue(Stripped(doc, paths), found)

\* "getJSONKeys returns a slice containing the fields of the JSON document"
\* (document.go:84).  Fails: an empty array or document inside of a value makes
\* it take the document's next key for a value.
KeysAreFields == at = "store" => JsonKeys(json) = [i \in DOMAIN json.sub |-> json.sub[i].k]
=============================================================================
