------------------------- MODULE SequentialCommands -------------------------
(***************************************************************************)
(* One client alone: the handlers of Commands implement AtomicCommands.    *)
(* The store of AtomicCommands stays what it was when the request arrived  *)
(* until the handler has its reply; the history variable `before' keeps    *)
(* it.                                                                     *)
(***************************************************************************)
EXTENDS CommandProperties

CONSTANT Client         \* the only connection

ASSUME ClientAssumption ==
  /\ Conns = {Client}
  /\ Faults = {}
  /\ \A r \in Requests[Client] : r.op # "local"

VARIABLE before         \* the store when the request arrived

svars == <<vars, before>>

Now == [schemas |-> schemas, collections |-> collections, docs |-> docs]

SInit == Init /\ before = Now

SNext == Next /\ before' = IF pc'[Client] \in {"idle", "closed"} THEN Now' ELSE before

SSpec == SInit /\ [][SNext]_svars

\* The store that AtomicCommands sees.
Visible == IF pc[Client] = "reply" THEN Now ELSE before

\* Replies other than those of update carry no nModified, and errors no n.
Atomic == INSTANCE AtomicCommands WITH
  Offered     <- Requests[Client],
  schemas     <- Visible.schemas,
  collections <- Visible.collections,
  docs        <- Visible.docs,
  phase       <- CASE pc[Client] = "idle"   -> "idle"
                   [] pc[Client] = "closed" -> "closed"
                   [] pc[Client] = "reply"  -> "answered"
                   [] OTHER                 -> "working",
  request     <- req[Client],
  reply       <- IF pc[Client] = "reply"
                   THEN [code |-> code[Client], n |-> n[Client], mod |-> mod[Client]]
                   ELSE [code |-> "ok", n |-> 0, mod |-> 0]

\* The clauses reach HANA as the filters were translated: no update has the
\* filter {}, behind which its own condition cannot be parsed, and what updateMany
\* and deleteMany print of a clause is the clause.  AtomicCommands takes the
\* filters that find takes (SUPPORTED_MONGODB_COMMANDS.md:60, :65); without this
\* the handlers do not.
AsTranslated ==
  \A r \in Requests[Client] : r.op \in {"update", "delete"} =>
    \A i \in DOMAIN r.batch :
      LET e == r.batch[i]
      IN /\ r.op = "update" => e.q.text # "empty"
         /\ (IF r.op = "update" THEN e.multi ELSE ~e.one) =>
              e.q.text = "rejected" \/ Literal(e.q)

\* A client that is alone sees every command carried out atomically, with the
\* counts and errors of AtomicCommands: the loops over SELECT, INSERT, UPDATE
\* and DELETE of the handlers, their early returns and their skipped entries
\* add up to one step.  It holds where the clauses are AsTranslated.
ImplementsAtomic == Atomic!ASpec
=============================================================================
