---------------------------- MODULE MCElasticSink ----------------------------
(* Instances of ElasticSink for TLC.                                        *)
EXTENDS ElasticSink, TLC

Plain     == [size |-> 1, bytes |-> 1, encodes |-> TRUE, panics |-> FALSE]
PlainOnly == {Plain}

AllReplies  == ReplyKinds
OnlyOk      == {"ok"}
AllOutcomes == {"stored", "failed"}
OnlyStored  == {"stored"}

Symmetry == Permutations(Producers) \union Permutations(Closers)
=============================================================================
