-------------------------- MODULE WhereTranslation --------------------------
(***************************************************************************)
(* The translation as it runs (NorFlag), and what its result means         *)
(* (WhereClause, UpdateClause).                                            *)
(***************************************************************************)
EXTENDS NorFlag, UpdateClause

\* The filters that connections are asked to translate.
ASSUME FiltersAssumption == \A c \in Conns : Filters[c] \subseteq Filter

\* c has translated a filter that uses the operators as Sound says, and nothing
\* has disturbed the package variables.
HasClause(c) == clean /\ pc[c] = "translated" /\ Sound[filter[c]][FALSE]

\* The statement selects a document if and only if the filter matches it,
\* when CreateWhereClause has translated it and the flag was its own: in every
\* nesting of $and, $or and $nor the "IS SET" and "IS UNSET" that are added
\* make SQL's three-valued logic agree with a field that may be missing.
ClauseMeansFilter ==
  \A c \in Conns : HasClause(c) =>
    \A d \in Document : (ClauseTruth[filter[c]][d][FALSE] = "true") <=> Matches[filter[c]][d]

\* updateMany touches a document if and only if the filter matches it and the
\* update changes it, which is what makes the number of rows the nModified of
\* the reply (msg_update.go:143): with fields that are not there yet, that have
\* the value already, and with some of several fields to change only.
UpdateTouchesChanged ==
  \A c \in Conns : HasClause(c) =>
    \A u \in Updates, d \in Document : ~Replaces(u) =>
      ((UpdateTruth(filter[c], u, d) = "true") <=> (Matches[filter[c]][d] /\ Apply(u, d) # d))
=============================================================================
