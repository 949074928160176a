--------------------------- MODULE CommandHistory ---------------------------
(***************************************************************************)
(* Commands with history variables: whether the store was changed by       *)
(* another connection while a request was being handled, and what its      *)
(* entry could have found.  A request that was left alone has to get the   *)
(* answer a client expects; one that was not still writes only what it     *)
(* has seen.                                                               *)
(***************************************************************************)
EXTENDS CommandProperties

VARIABLES disturbed,    \* disturbed[c]: the store changed under c's request
          seen          \* seen[c]: the _ids of documents that have matched c's
                        \* update or delete entry at some moment since it began

hvars == <<vars, disturbed, seen>>

\* This step is not one of c's handler.
NotBy(c) == UNCHANGED <<pc[c], idx[c]>>

\* Connection c is at an entry of an update or delete.
Searching(c) == pc[c] \in {"count", "pick", "update", "delete"}

\* The _ids of the documents that match this entry now.
MatchingIds(c) == {d.id : d \in Where(Ns(c), Entry(c).q.match)}

HInit ==
  /\ Init
  /\ disturbed = [c \in Conns |-> FALSE]
  /\ seen = [c \in Conns |-> {}]

HNext ==
  /\ Next
  /\ disturbed' = [c \in Conns |->
       /\ pc'[c] \notin {"idle", "closed"}
       /\ disturbed[c] \/ (NotBy(c) /\ store' # store)]
  /\ seen' = [c \in Conns |->
       IF ~Searching(c)' THEN {}
       ELSE MatchingIds(c)' \cup (IF idx'[c] = idx[c] THEN seen[c] ELSE {})]

HSpec == HInit /\ [][HNext]_hvars

\* Connection c is about to send a reply and nobody has interfered.
Undisturbed(c) == pc[c] = "reply" /\ ~disturbed[c]

\* The entries of the request are translated to SQL that HANA can parse.
Translated(c) ==
  IF req[c].op \in {"find", "count"} THEN ~Rejected(c)
  ELSE \A i \in DOMAIN req[c].batch : req[c].batch[i].q.text # "rejected"
Parses(c) ==
  /\ Translated(c)
  /\ \A i \in DOMAIN req[c].batch :
       LET e == req[c].batch[i]
       IN CASE req[c].op = "update" -> UpdateParses(e) /\ (e.multi => ManyParses(e))
            [] req[c].op = "delete" -> e.one \/ ManyParses(e)

\* Why a request may be answered with code k, as the store shows it: a
\* collection exists already or does not exist, an _id is taken, a filter is
\* rejected, a statement does not parse; the two list commands never fail.
Explained(c, k) ==
  LET Is(op, error) == req[c].op = op /\ k = error
  IN /\ Is("create", "NamespaceExists") => Exists(c)
     /\ Is("drop", "NamespaceNotFound") => ~Exists(c)
     /\ Is("dropDatabase", "InternalError") => req[c].db \notin schemas
     /\ Is("insert", "InternalError") => WithId(Ns(c), Entry(c).id) # {}
     /\ Is("update", "InternalError") => ~Exists(c) \/ ~Parses(c)
     /\ Is("delete", "InternalError") => ~Exists(c) \/ ~Translated(c)
     /\ Is("delete", "NamespaceNotFound") => ~Exists(c) \/ ~Parses(c)
     /\ Is("count", "InternalError") => ~Exists(c) \/ ~Translated(c)
     /\ Is("find", "InternalError") => ~Exists(c) \/ ~Translated(c)
     /\ ~Is("listCollections", "InternalError")
     /\ ~Is("listDatabases", "InternalError")

\* Without interference (and with no fault) an error has a reason that still
\* shows in the store when it is sent.
ErrorsExplained == \A c \in Conns : Undisturbed(c) => Explained(c, code[c])

\* What "ok" says: what was inserted is there, what was to be deleted or updated
\* everywhere is (but see DeleteManyIsExact), what was dropped is gone, and a
\* collection just created exists.
Truthful(c) ==
  LET last == req[c].batch[Len(req[c].batch)]
  IN /\ req[c].op = "insert" =>
          \A i \in DOMAIN req[c].batch :
            \E d \in WithId(Ns(c), req[c].batch[i].id) : d.val = req[c].batch[i].val
     /\ req[c].op = "delete" /\ req[c].batch # <<>> =>
          ((IF last.one THEN n[c] = 0 ELSE Literal(last.q))
             => Where(Ns(c), last.q.match) = {})
     /\ req[c].op = "update" /\ req[c].batch # <<>> =>
          (last.multi /\ Literal(last.q)
             => NeedsUpdate(last, Where(Ns(c), last.q.match)) = {})
     /\ req[c].op = "create" => Exists(c)
     /\ req[c].op = "drop" => ~Exists(c)
     /\ req[c].op = "dropDatabase" => req[c].db \notin schemas

\* Without interference "ok" tells the truth.
SuccessIsReal ==
  \A c \in Conns : Undisturbed(c) /\ code[c] = "ok" => Truthful(c)

\* deleteOne and updateOne write by the _id they picked ("Deletes documents
\* matched by the query", command.go:192).  What they touch and their filter
\* does not match has been changed by another connection since they looked:
\* without interference they touch what their filter matches, and no more than
\* one document of an _id that is unique.
OnesTouchMatchedAlone ==
  [][\A c \in Conns :
       /\ UniqueIds /\ ~disturbed[c]
       /\ \/ UpdateDocuments(c) /\ ~Entry(c).multi
          \/ DeleteDocuments(c) /\ Entry(c).one
       => /\ \A d \in docs \ docs' : <<d.id, d.val>> \in Entry(c).q.match
          /\ Cardinality(docs \ docs') <= 1]_hvars

\* Whoever changes the store meanwhile, and whatever fails or is lost: updateOne
\* and deleteOne write only to an _id of which a document has matched their
\* filter at some moment since they came to this entry.  An _id picked for an
\* entry before, or by a SELECT that has failed, is never written to.
OnesTouchSeen ==
  [][\A c \in Conns :
       \/ UpdateDocuments(c) /\ ~Entry(c).multi
       \/ DeleteDocuments(c) /\ Entry(c).one
       => {d.id : d \in docs \ docs'} \subseteq seen[c]]_hvars
=============================================================================
