----------------------------- MODULE BsonValues -----------------------------
(***************************************************************************)
(* BSON values (internal/types), and what reading one gives.               *)
(*                                                                         *)
(* A byte is a number, a text a sequence of bytes.  A value has a type t;  *)
(* b is a string, <<0>> or <<1>> for a bool, or the bytes of a number, a   *)
(* date or an ObjectID, which are only copied; sub is the sequence of the  *)
(* fields [k, v] of a document, the elements of an array (k = <<>>), or    *)
(* the pattern and the options of a regular expression, as names.          *)
(***************************************************************************)
EXTENDS Integers, Sequences, SequencesExt

Val(t, b, sub) == [t |-> t, b |-> b, sub |-> sub]

\* Not empty, not $k for one character k, and UTF-8.  (A key is taken to have
\* no character that needs more than one byte.)
IsValidKey(k) == k # <<>> /\ ~(k[1] = 36 /\ Len(k) <= 2) /\ \A i \in DOMAIN k : k[i] < 128

\* What was read, and the bytes that are left.
Got(v, rest) == [ok |-> TRUE, v |-> v, rest |-> rest]
Bad          == [ok |-> FALSE, v |-> <<>>, rest |-> <<>>]
=============================================================================
