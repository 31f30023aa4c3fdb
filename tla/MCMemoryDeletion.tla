-------------------------- MODULE MCMemoryDeletion --------------------------
(* Instances of MemoryDeletion for TLC: two members, ann and bob.            *)
EXTENDS MemoryDeletion

CONSTANTS ann, bob

Members == {ann, bob}

\* Both turns are ann's, or one is bob's.
OneMember  == {ann}
BothAnn    == <<ann, ann>>
AnnAndBob  == <<ann, bob>>
OnlyAnn    == <<ann>>
=============================================================================
