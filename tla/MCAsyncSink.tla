---------------------------- MODULE MCAsyncSink ----------------------------
(* Instances of AsyncSink for TLC: what the log calls carry.                *)
EXTENDS AsyncSinkProperties, TLC

Plain       == [size |-> 1, bytes |-> 1, encodes |-> TRUE, panics |-> FALSE]
Large       == [size |-> 9, bytes |-> 9, encodes |-> TRUE, panics |-> FALSE]
Bulky       == [size |-> 2, bytes |-> 2, encodes |-> TRUE, panics |-> FALSE]
Unencodable == [size |-> 1, bytes |-> 1, encodes |-> FALSE, panics |-> FALSE]
Panicking   == [size |-> 1, bytes |-> 1, encodes |-> TRUE, panics |-> TRUE]

PlainOnly     == {Plain}
AllShapes     == {Plain, Large, Bulky, Unencodable, Panicking}
SomePanic     == {Plain, Panicking}

AllReplies    == ReplyKinds
OnlyTransient == {"ok", "retryable"}

Symmetry == Permutations(Producers) \union Permutations(Closers)
=============================================================================
