--------------------------- MODULE MCVectorStore ---------------------------
(***************************************************************************)
(* A small instance of VectorStore: a Qdrant store and a mock, two tasks,  *)
(* two collections with a document each, and searches of two thresholds.   *)
(***************************************************************************)
EXTENDS VectorStore

CONSTANTS c1, c2, q1, m1

TwoClients == {c1, c2}
OneClient  == {c1}
OneQdrant  == {q1}
OneMock    == {m1}

\* Of one id: they clash in the mock but not at the server.
SomeDocs ==
    { [id |-> 1, collection |-> "default", score |-> 0],
      [id |-> 1, collection |-> "other",   score |-> 1] }

SomeQueries ==
    { [collection |-> "default", threshold |-> 0],
      [collection |-> "default", threshold |-> 1],
      [collection |-> "other",   threshold |-> 0] }

=============================================================================
