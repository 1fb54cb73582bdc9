-------------------------- MODULE MCSnapshotStore --------------------------
EXTENDS SnapshotStore, TLC

CONSTANT owner

\* one page, asked for without and with an authentication reference
PublicAndPrivate == { [part |-> "page", ref |-> ref] : ref \in {Nothing, owner} }

\* Calls are interchangeable, and so are bodies.
Interchangeable == Permutations(Readers) \cup Permutations(Bodies)
=============================================================================
